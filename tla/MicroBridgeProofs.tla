------------------------- MODULE MicroBridgeProofs -------------------------
(***************************************************************************)
(* That the Micro bridge never loses the Herdr bridge it stopped, that a   *)
(* key opens the agent lit on it and an answer selects the agent it is     *)
(* about, for any cards, keys, crashes and failures of systemctl.          *)
(***************************************************************************)
EXTENDS MicroBridge, WellFoundedInduction, TLAPS

\* Who has the Micro, step by step.  The property alone is not inductive: a stop is
\* marked a step before it is tried, the start is undone from the marker a step after
\* it worked, and the bridge holds no Micro on the way to either.
HandoverInv ==
    /\ StoppedHerdrIsMarked
    /\ goal \in {"loop", "error", "exit", "ended", "died", "boot"}
    /\ step = "stop" => marker
    /\ step = "unmark" => ~owed
    /\ step \in {"check", "stop", "claim", "restore", "unmark", "down"} => ~micro

\* What follows a restore holds no Micro and stops nothing.
LEMMA Following ==
  ASSUME HandoverInv, NEW ok \in BOOLEAN, Follow(ok)
  PROVE  /\ goal' \in {"loop", "error", "exit", "ended", "died", "boot"}
         /\ step' \in {"loop", "restore", "down"}
  BY DEF HandoverInv, Follow

LEMMA RestoreKeeps ==
  ASSUME HandoverInv, Restores \/ Unmark
  PROVE  HandoverInv'
  <1>1. ASSUME NEW acts \in BOOLEAN, NEW ok \in BOOLEAN, Restore(acts, ok)
        PROVE  HandoverInv'
    <2>1. ~micro /\ UNCHANGED micro
      BY <1>1 DEF Restore, HandoverInv
    <2>2. CASE ~marker
      <3>1. Follow(TRUE) /\ UNCHANGED <<herdr, owed, marker>>
        BY <1>1, <2>2 DEF Restore, service
      <3>2. goal' \in {"loop", "error", "exit", "ended", "died", "boot"} /\ step' \in {"loop",
         "restore", "down"}
        BY <3>1, Following
      <3>3. QED
        BY <2>1, <3>1, <3>2 DEF HandoverInv, StoppedHerdrIsMarked
    <2>3. CASE marker /\ ok
      <3>1. step' = "unmark" /\ UNCHANGED <<goal, marker>> /\ owed' = FALSE
        BY <1>1, <2>3 DEF Restore
      <3>2. QED
        BY <2>1, <3>1 DEF HandoverInv, StoppedHerdrIsMarked
    <2>4. CASE marker /\ ~ok
      <3>1. Follow(FALSE) /\ marker'
        BY <1>1, <2>4 DEF Restore
      <3>2. goal' \in {"loop", "error", "exit", "ended", "died", "boot"} /\ step' \in {"loop",
         "restore", "down"}
        BY <3>1, Following
      <3>3. QED
        BY <2>1, <3>1, <3>2 DEF HandoverInv, StoppedHerdrIsMarked
    <2>5. QED
      BY <2>2, <2>3, <2>4
  <1>2. CASE Unmark
    BY <1>2, Following DEF Unmark, HandoverInv, StoppedHerdrIsMarked
  <1>3. QED
    BY <1>1, <1>2 DEF Restores

LEMMA TakingKeeps ==
  ASSUME HandoverInv, Taking
  PROVE  HandoverInv'
  <1>1. CASE Acquire
    BY <1>1 DEF Acquire, HandoverInv, StoppedHerdrIsMarked, service
  <1>2. CASE Check
    BY <1>2 DEF Check, Mark, HandoverInv, StoppedHerdrIsMarked
  <1>3. ASSUME NEW acts \in BOOLEAN, NEW ok \in BOOLEAN, StopHerdr(acts, ok)
        PROVE  HandoverInv'
    BY <1>3 DEF StopHerdr, HandoverInv, StoppedHerdrIsMarked
  <1>4. CASE Claim
    BY <1>4 DEF Claim, HandoverInv, StoppedHerdrIsMarked, service
  <1>5. CASE Draw
    <2>1. step' = "loop" /\ UNCHANGED <<goal, micro, service>>
      BY <1>5 DEF Draw
    <2>2. QED
      BY <2>1 DEF HandoverInv, StoppedHerdrIsMarked, service
  <1>6. QED
    BY <1>1, <1>2, <1>3, <1>4, <1>5 DEF Taking

\* A step that lets go of the Micro, or of nothing.
LEMMA LettingGoKeeps ==
  ASSUME HandoverInv, Leave \/ Release \/ Raises \/ Stops \/ Dies \/ ConnectPortal
  PROVE  HandoverInv'
  <1>1. /\ UNCHANGED service /\ step' \in {"restore", "leave", "loop"}
        /\ goal' \in {"loop", "error", "exit", "ended", "died", "boot"}
        /\ (micro' => micro) /\ (step' = "restore" => ~micro')
    <2>1. CASE Leave \/ Dies
      BY <2>1 DEF Leave, Unplugged, Dies, HandoverInv
    <2>2. CASE Release \/ Raises \/ Stops \/ ConnectPortal
      BY <2>2 DEF Release, Raises, Stops, ConnectPortal, HandoverInv
    <2>3. QED
      BY <2>1, <2>2
  <1>2. QED
    BY <1>1 DEF HandoverInv, StoppedHerdrIsMarked, service

\* Messages, the daemon, the Micro, the collector and time take no part in the handover.
LEMMA OthersKeep ==
  ASSUME HandoverInv, Messages \/ GivesUp \/ Daemon \/ Silence \/ Device \/ StatusAges \/ Collector
  PROVE  HandoverInv'
  <1>1. UNCHANGED <<step, goal, micro, service>>
    BY DEF Messages, PortalEvent, MicroEvent, GivesUp, Daemon, Publishes, Heartbeat, Answers,
       Silence, Device, MicroObeys, KeyIsUsed, StatusAges, Collector, Samples, ShowsSample
  <1>2. QED
    BY <1>1 DEF HandoverInv, StoppedHerdrIsMarked, service

LEMMA HandoverStep == HandoverInv /\ [Next]_vars => HandoverInv'
  <1> SUFFICES ASSUME HandoverInv, [Next]_vars PROVE HandoverInv'
    OBVIOUS
  <1>1. CASE Loop
    BY <1>1, RestoreKeeps, TakingKeeps, LettingGoKeeps DEF Loop
  <1>2. CASE UNCHANGED vars
    BY <1>2 DEF vars, service, HandoverInv, StoppedHerdrIsMarked
  <1>3. QED
    BY <1>1, <1>2, LettingGoKeeps, OthersKeep DEF Next

\* Wherever the bridge dies, fails or is stopped, a Herdr bridge it stopped is marked for
\* the next restore, and the two never control the Micro together.
THEOREM HerdrIsNeverForgotten == Spec => []StoppedHerdrIsMarked
  <1>1. Init => HandoverInv
    BY DEF Init, HandoverInv, StoppedHerdrIsMarked
  <1>2. HandoverInv => StoppedHerdrIsMarked
    BY DEF HandoverInv
  <1>3. QED
    BY <1>1, <1>2, HandoverStep, PTL DEF Spec

----------------------------------------------------------------------------
(* Type correctness                                                         *)

\* What the first of a queue is, and what is left.
LEMMA TakenFirst ==
  ASSUME NEW S, NEW s \in Seq(S), s # <<>>
  PROVE  /\ Head(s) \in S /\ Head(s) = s[1] /\ Tail(s) \in Seq(S)
         /\ Len(s) \in Nat \ {0} /\ Len(Tail(s)) = Len(s) - 1
         /\ \A i \in 1 .. Len(Tail(s)) : i + 1 \in 1 .. Len(s) /\ Tail(s)[i] = s[i + 1]
  OBVIOUS

LEMMA AddedLast ==
  ASSUME NEW S, NEW s \in Seq(S), NEW e \in S
  PROVE  /\ Append(s, e) \in Seq(S) /\ Len(s) \in Nat /\ Len(Append(s, e)) = Len(s) + 1
         /\ \A i \in 1 .. Len(s) : Append(s, e)[i] = s[i]
         /\ Append(s, e)[Len(s) + 1] = e
  OBVIOUS

LEMMA EmptyQueue == ASSUME NEW S PROVE <<>> \in Seq(S) /\ Len(<<>>) = 0
  OBVIOUS

LEMMA SmallerOfTwo ==
  ASSUME NEW m \in Nat, NEW n \in Nat
  PROVE  Min({m, n}) \in {m, n} /\ Min({m, n}) <= m /\ Min({m, n}) <= n
  <1>1. \E x \in {m, n} : \A y \in {m, n} : x <= y
    OBVIOUS
  <1>2. QED
    BY <1>1 DEF Min

\* The cards on the keys are agents of the snapshot.
LEMMA IdsType == TypeOK => Ids \in Seq(Agent) /\ ToSet(Ids) \subseteq Agent
  <1> SUFFICES ASSUME TypeOK PROVE Ids \in Seq(Agent) /\ ToSet(Ids) \subseteq Agent
    OBVIOUS
  <1>1. Ids \in Seq(Agent)
    <2>1. CASE seen = None
      BY <2>1, EmptyQueue DEF Ids
    <2>2. CASE seen # None
      <3>1. seen.ids \in Seq(Agent)
        BY <2>2, MicroAssumption DEF TypeOK
      <3> DEFINE n == Min({Slots, Len(seen.ids)})
      <3>2. n \in Nat /\ n <= Len(seen.ids)
        BY <3>1, SmallerOfTwo, MicroAssumption
      <3>3. Ids = SubSeq(seen.ids, 1, n)
        BY <2>2 DEF Ids
      <3> HIDE DEF n
      <3>4. QED
        BY <3>1, <3>2, <3>3
    <2>3. QED
      BY <2>1, <2>2
  <1>2. QED
    BY <1>1 DEF ToSet

LEMMA NothingQueued ==
  /\ <<>> \in Seq(Message) /\ <<>> \in Seq(Command) /\ <<>> \in Seq(Request)
  /\ <<>> \in Seq(Event) /\ <<>> \in Seq(Agent) /\ Len(<<>>) = 0
  BY EmptyQueue

LEMMA SampleType ==
  /\ Unknown \in Sample /\ ~Unknown.controlled
  /\ TypeOK => Sampled \in Sample /\ Sampled.connected
  <1>1. Unknown \in Sample /\ ~Unknown.controlled
    BY NothingQueued DEF Sample, Unknown
  <1>2. ASSUME TypeOK PROVE Sampled \in Sample /\ Sampled.connected
    <2>1. CASE file # None /\ file.fresh
      <3>1. file.slots \in Seq(Agent)
        BY <1>2, <2>1 DEF TypeOK, File
      <3>2. Sampled = [connected |-> TRUE, controlled |-> TRUE, slots |-> file.slots]
        BY <2>1 DEF Sampled
      <3>3. QED
        BY <3>1, <3>2 DEF Sample
    <2>2. CASE ~(file # None /\ file.fresh)
      <3>1. Sampled = [connected |-> TRUE, controlled |-> FALSE, slots |-> <<>>]
        BY <2>2 DEF Sampled, Unknown
      <3>2. QED
        BY <3>1, NothingQueued DEF Sample
    <2>3. QED
      BY <2>1, <2>2
  <1>3. QED
    BY <1>1, <1>2

LEMMA TypeInit == Init => TypeOK
  <1> SUFFICES ASSUME Init PROVE TypeOK
    OBVIOUS
  <1>1. /\ current \in Shows /\ shows \in 0 .. MaxShow /\ presses \in 0 .. MaxPress
        /\ crashes \in 0 .. MaxCrash /\ sent \in Nat /\ Len(toBridge) <= MaxQueue
    BY NothingQueued, MicroAssumption DEF Init
  <1>2. shown \in Sample /\ \A s \in {got, shown} \ {None} : s.controlled => s.connected
    BY SampleType DEF Init
  <1>3. QED
    BY <1>1, <1>2, NothingQueued DEF Init, TypeOK, Steps

LEMMA TypeHandover == TypeOK /\ (Restores \/ Unmark \/ Leave \/ Release \/ ConnectPortal) => TypeOK'
  <1> SUFFICES ASSUME TypeOK, Restores \/ Unmark \/ Leave \/ Release \/ ConnectPortal PROVE TypeOK'
    OBVIOUS
  <1> USE DEF world, wire, view, draw, device, service, sample
  <1>1. ASSUME NEW ok \in BOOLEAN, Follow(ok)
        PROVE  /\ step' \in {"loop", "restore", "down"}
               /\ goal' \in {"loop", "error", "exit", "ended", "died", "boot"}
    BY <1>1 DEF Follow, TypeOK
  <1>2. ASSUME NEW acts \in BOOLEAN, NEW ok \in BOOLEAN, Restore(acts, ok) PROVE TypeOK'
    <2>1. /\ step' \in {"loop", "restore", "down", "unmark"}
          /\ goal' \in {"loop", "error", "exit", "ended", "died", "boot"}
      BY <1>1, <1>2 DEF Restore, TypeOK
    <2>2. herdr' \in BOOLEAN /\ owed' \in BOOLEAN /\ marker' \in BOOLEAN
      BY <1>2 DEF Restore, TypeOK
    <2>3. QED
      BY <1>2, <2>1, <2>2 DEF Restore, TypeOK, Steps
  <1>3. CASE Unmark
    <2>1. /\ step' \in {"loop", "restore", "down"}
          /\ goal' \in {"loop", "error", "exit", "ended", "died", "boot"}
      BY <1>1, <1>3 DEF Unmark
    <2>2. marker' \in BOOLEAN
      BY <1>3 DEF Unmark
    <2>3. QED
      BY <1>3, <2>1, <2>2 DEF Unmark, TypeOK, Steps
  <1>4. CASE Leave
    <2>1. /\ portal' \in BOOLEAN /\ seen' \in Shows \cup {None}
          /\ toBridge' \in Seq(Message) /\ Len(toBridge') <= MaxQueue /\ asked' \in Seq(Command)
          /\ portal' \/ (toBridge' = <<>> /\ asked' = <<>>)
      <3>1. CASE goal = "loop"
        BY <1>4, <3>1 DEF Leave, TypeOK
      <3>2. CASE goal # "loop"
        <4>1. portal' = FALSE /\ toBridge' = <<>> /\ asked' = <<>> /\ seen' = None
          BY <1>4, <3>2 DEF Leave, Hangs
        <4>2. 0 <= MaxQueue
          BY MicroAssumption
        <4>3. QED
          BY <4>1, <4>2, NothingQueued
      <3>3. QED
        BY <3>1, <3>2
    <2>2. QED
      BY <1>4, <2>1, NothingQueued DEF Leave, Unplugged, Undrawn, TypeOK, Steps
  <1>5. CASE Release
    BY <1>5 DEF Release, TypeOK, Steps
  <1>6. CASE ConnectPortal
    <2>1. [type |-> "snapshot", show |-> current] \in Message
      BY DEF TypeOK, Message
    <2>2. toBridge' \in Seq(Message) /\ Len(toBridge') <= MaxQueue
      BY <1>6, <2>1, MicroAssumption DEF ConnectPortal
    <2>3. QED
      BY <1>6, <2>2 DEF ConnectPortal, TypeOK
  <1>7. QED
    BY <1>2, <1>3, <1>4, <1>5, <1>6 DEF Restores

LEMMA StatusType ==
  ASSUME TypeOK
  PROVE  /\ Status \in File
         /\ \A ids \in Seq(Agent) : [slots |-> ids, fresh |-> TRUE] \in File
  BY DEF TypeOK, Status, File

\* A drawing is two requests at the end of the queue.
LEMMA DrawnRequests ==
  ASSUME TypeOK, Draw, Signature # frame
  PROVE  /\ toMicro' \in Seq(Request) /\ Len(toMicro') = Len(toMicro) + 2
         /\ \A i \in 1 .. Len(toMicro) : toMicro'[i] = toMicro[i]
         /\ toMicro'[Len(toMicro) + 1] = [cmd |-> "lights", id |-> sent + 1, ids |-> Ids]
         /\ toMicro'[Len(toMicro) + 2] = [cmd |-> "ring", id |-> sent + 1]
  <1> DEFINE lights == [cmd |-> "lights", id |-> sent + 1, ids |-> Ids]
             colour == [cmd |-> "ring", id |-> sent + 1]
  <1>1. lights \in Request /\ colour \in Request /\ toMicro \in Seq(Request)
    BY IdsType DEF TypeOK, Request
  <1>2. toMicro' = toMicro \o <<lights, colour>>
    BY DEF Draw
  <1> HIDE DEF lights, colour
  <1>3. QED
    BY <1>1, <1>2 DEF lights, colour

LEMMA TypeTaking == TypeOK /\ HandoverInv /\ Taking => TypeOK'
  <1> SUFFICES ASSUME TypeOK, HandoverInv, Taking PROVE TypeOK'
    OBVIOUS
  <1> USE DEF world, wire, view, draw, device, service, sample
  <1>1. CASE Acquire
    BY <1>1 DEF Acquire, TypeOK, Steps
  <1>2. CASE Check
    <2>1. step' \in {"stop", "claim"} /\ marker' \in BOOLEAN
      BY <1>2 DEF Check, Mark, TypeOK
    <2>2. QED
      BY <1>2, <2>1 DEF Check, TypeOK, Steps
  <1>3. ASSUME NEW acts \in BOOLEAN, NEW ok \in BOOLEAN, StopHerdr(acts, ok) PROVE TypeOK'
    BY <1>3 DEF StopHerdr, TypeOK, Steps
  <1>4. CASE Claim
    BY <1>4 DEF Claim, TypeOK, Steps
  <1>5. CASE Draw
    <2>1. selected' \in Agent \cup {None}
      BY <1>5, IdsType DEF Draw, TypeOK
    <2>2. CASE Signature # frame
      <3>1. [cmd |-> "lights", id |-> sent + 1, ids |-> Ids] \in Request
            /\ [cmd |-> "ring", id |-> sent + 1] \in Request
        BY IdsType DEF TypeOK, Request
      <3>2. toMicro' \in Seq(Request)
        BY <1>5, <2>2, <3>1, DrawnRequests
      <3>3. sent' = sent + 1 /\ lit' = [id |-> sent + 1, ids |-> Ids] /\ ring' = sent + 1
            /\ UNCHANGED file
        BY <1>5, <2>2 DEF Draw
      <3>4. lit' \in [id : {sent'}, ids : Seq(Agent)] /\ ring' \in {sent'} /\ sent' \in Nat
        BY <3>3, IdsType DEF TypeOK
      <3>5. QED
        BY <1>5, <2>1, <3>2, <3>3, <3>4 DEF Draw, TypeOK, Steps
    <2>3. CASE Signature = frame
      <3>1. file' \in File \cup {None}
        BY <1>5, <2>3, StatusType DEF Draw, TypeOK
      <3>2. QED
        BY <1>5, <2>1, <2>3, <3>1 DEF Draw, TypeOK, Steps
    <2>4. QED
      BY <2>2, <2>3
  <1>6. QED
    BY <1>1, <1>2, <1>3, <1>4, <1>5 DEF Taking

LEMMA TypeMessages == TypeOK /\ (Messages \/ GivesUp) => TypeOK'
  <1> SUFFICES ASSUME TypeOK, Messages \/ GivesUp PROVE TypeOK'
    OBVIOUS
  <1> USE DEF world, wire, view, draw, device, service, sample
  <1>1. CASE PortalEvent
    <2>1. /\ Head(toBridge) \in Message /\ toBridge' \in Seq(Message) /\ Len(toBridge') <= MaxQueue
          /\ portal
      BY <1>1, TakenFirst, MicroAssumption DEF PortalEvent, TypeOK
    <2>2. /\ seen' \in Shows \cup {None} /\ silent' \in BOOLEAN
          /\ selected' \in Agent \cup {None} /\ pending' \in Command \cup {None}
      BY <1>1, <2>1 DEF PortalEvent, TakeSnapshot, TakeResult, Ours, TypeOK, Message, Command
    <2>3. QED
      BY <1>1, <2>1, <2>2 DEF PortalEvent, TypeOK
  <1>2. CASE MicroEvent
    <2> DEFINE event == Head(fromMicro)
    <2>1. /\ event \in Event /\ fromMicro' \in Seq(Event) /\ micro /\ portal
          /\ UNCHANGED <<toMicro, lamps, presses>>
      BY <1>2, TakenFirst DEF MicroEvent, Takes, TypeOK
    <2>2. CASE LightsAck(event)
      <3>1. /\ acked' \in Seq(Agent) /\ lit' \in [id : {sent}, ids : Seq(Agent)] \cup {None}
            /\ file' \in File \cup {None} /\ UNCHANGED <<frame, ring, sent, asked, pending>>
        BY <2>2, StatusType DEF LightsAck, TypeOK
      <3>2. QED
        BY <1>2, <2>1, <3>1 DEF MicroEvent, TypeOK
    <2>3. CASE RingAck(event)
      <3>1. /\ ring' \in {sent, None} /\ file' \in File \cup {None}
            /\ UNCHANGED <<frame, lit, acked, sent, asked, pending>>
        BY <2>3, StatusType DEF RingAck, TypeOK
      <3>2. QED
        BY <1>2, <2>1, <3>1 DEF MicroEvent, TypeOK
    <2>4. CASE KeyUsed(event)
      <3>1. asked' \in Seq(Command) /\ pending' \in Command \cup {None}
        <4>1. CASE Current /\ Chosen(event.key) # None /\ Chosen(event.key) \in seen.open
          <5>1. Chosen(event.key) \in Agent /\ event.id \in 1 .. MaxPress
            BY <2>1, <2>4, <4>1, MicroAssumption DEF KeyUsed, Current, Wanted, TypeOK, Event
          <5>2. [id |-> event.id, agent |-> Chosen(event.key)] \in Command
            BY <5>1 DEF Command
          <5>3. /\ pending' = [id |-> event.id, agent |-> Chosen(event.key)]
                /\ asked' = Append(asked, [id |-> event.id, agent |-> Chosen(event.key)])
            BY <2>4, <4>1 DEF KeyUsed, Opens
          <5>4. asked \in Seq(Command)
            BY DEF TypeOK
          <5> HIDE DEF event
          <5>5. QED
            BY <5>2, <5>3, <5>4, AddedLast
        <4>2. QED
          BY <2>4, <4>1 DEF KeyUsed, TypeOK
      <3>2. UNCHANGED <<draw, file>>
        BY <2>4 DEF KeyUsed
      <3>3. QED
        BY <1>2, <2>1, <3>1, <3>2 DEF MicroEvent, TypeOK
    <2>5. QED
      BY <1>2, <2>2, <2>3, <2>4 DEF MicroEvent
  <1>3. CASE GivesUp
    BY <1>3 DEF GivesUp, TypeOK
  <1>4. QED
    BY <1>1, <1>2, <1>3 DEF Messages

LEMMA TypeOthers ==
  TypeOK /\ (Raises \/ Dies \/ Stops \/ Daemon \/ Silence \/ Device \/ StatusAges \/ Collector)
    => TypeOK'
  <1> SUFFICES ASSUME TypeOK, Raises \/ Dies \/ Stops \/ Daemon \/ Silence \/ Device \/ StatusAges
                              \/ Collector
               PROVE  TypeOK'
    OBVIOUS
  <1> USE DEF world, wire, view, draw, device, service, sample
  <1>1. CASE Raises \/ Stops
    BY <1>1 DEF Raises, Stops, TypeOK, Steps
  <1>2. CASE Dies
    <2>1. crashes' \in 0 .. MaxCrash /\ Len(toBridge') <= MaxQueue
          /\ goal' \in {"ended", "died"}
      BY <1>2, NothingQueued, MicroAssumption DEF Dies, Hangs, TypeOK
    <2>2. QED
      BY <1>2, <2>1, NothingQueued DEF Dies, Unplugged, Undrawn, Hangs, TypeOK, Steps
  <1>3. CASE Publishes
    <2>1. PICK show \in Shows \ {current} :
            /\ current' = show
            /\ toBridge' = IF portal THEN Append(toBridge, [type |-> "snapshot", show |-> show])
                           ELSE toBridge
      BY <1>3 DEF Publishes
    <2>2. [type |-> "snapshot", show |-> show] \in Message
      BY DEF Message
    <2>3. toBridge' \in Seq(Message) /\ Len(toBridge') <= MaxQueue /\ (portal \/ toBridge' = <<>>)
      BY <1>3, <2>1, <2>2, AddedLast, MicroAssumption DEF Publishes, TypeOK
    <2>4. shows' \in 0 .. MaxShow
      BY <1>3, MicroAssumption DEF Publishes, TypeOK
    <2>5. QED
      BY <1>3, <2>1, <2>3, <2>4 DEF Publishes, TypeOK
  <1>4. CASE Heartbeat
    <2>1. [type |-> "snapshot", show |-> current] \in Message
      BY DEF TypeOK, Message
    <2>2. toBridge' \in Seq(Message) /\ Len(toBridge') <= MaxQueue
      BY <1>4, <2>1, MicroAssumption DEF Heartbeat
    <2>3. QED
      BY <1>4, <2>2 DEF Heartbeat, TypeOK
  <1>5. CASE Answers
    <2>1. Head(asked) \in Command /\ asked' \in Seq(Command) /\ portal
      BY <1>5, TakenFirst DEF Answers, TypeOK
    <2>2. \A ok \in BOOLEAN : [type |-> "result", id |-> Head(asked).id,
                               agent |-> Head(asked).agent, ok |-> ok] \in Message
      BY <2>1 DEF Message, Command
    <2>3. toBridge' \in Seq(Message) /\ Len(toBridge') <= MaxQueue
      BY <1>5, <2>2, AddedLast, MicroAssumption DEF Answers, TypeOK
    <2>4. QED
      BY <1>5, <2>1, <2>3 DEF Answers, TypeOK
  <1>6. CASE Silence
    BY <1>6 DEF Silence, TypeOK
  <1>7. CASE MicroObeys
    <2>1. Head(toMicro) \in Request /\ toMicro' \in Seq(Request) /\ micro
      BY <1>7, TakenFirst DEF MicroObeys, TypeOK
    <2>2. [type |-> Head(toMicro).cmd, id |-> Head(toMicro).id] \in Event
      BY <2>1 DEF Request, Event
    <2>3. fromMicro' \in Seq(Event) /\ lamps' \in Seq(Agent)
      BY <1>7, <2>1, <2>2, AddedLast DEF MicroObeys, TypeOK, Request
    <2>4. QED
      BY <1>7, <2>1, <2>3 DEF MicroObeys, TypeOK
  <1>8. CASE KeyIsUsed
    <2>1. presses' = presses + 1 /\ presses' \in 1 .. MaxPress /\ micro
      BY <1>8, MicroAssumption DEF KeyIsUsed, TypeOK
    <2>2. \A key \in Keys : [type |-> "key", key |-> key, id |-> presses + 1, over |-> lamps] \in Event
      BY <2>1 DEF Event, TypeOK
    <2>3. fromMicro' \in Seq(Event)
      BY <1>8, <2>2, AddedLast DEF KeyIsUsed, TypeOK
    <2>4. QED
      BY <1>8, <2>1, <2>3 DEF KeyIsUsed, TypeOK
  <1>9. CASE StatusAges
    <2>1. file' \in File
      BY <1>9 DEF StatusAges, TypeOK, File
    <2>2. QED
      BY <1>9, <2>1 DEF StatusAges, TypeOK
  <1>10. CASE Samples
    BY <1>10, SampleType DEF Samples, TypeOK
  <1>11. CASE ShowsSample
    BY <1>11 DEF ShowsSample, TypeOK
  <1>12. QED
    BY <1>1, <1>2, <1>3, <1>4, <1>5, <1>6, <1>7, <1>8, <1>9, <1>10, <1>11
    DEF Daemon, Device, Collector

LEMMA TypeStep == TypeOK /\ HandoverInv /\ [Next]_vars => TypeOK'
  <1>1. TypeOK /\ UNCHANGED vars => TypeOK'
    BY DEF TypeOK, vars, world, wire, view, draw, device, service, sample
  <1>2. QED
    BY <1>1, TypeHandover, TypeTaking, TypeMessages, TypeOthers DEF Next, Loop

LEMMA MicroAlways == Spec => [](TypeOK /\ HandoverInv)
  <1>1. Init => HandoverInv
    BY DEF Init, HandoverInv, StoppedHerdrIsMarked
  <1>2. QED
    BY <1>1, TypeInit, TypeStep, HandoverStep, PTL DEF Spec

----------------------------------------------------------------------------
(* What a key means                                                         *)

\* The lights still asked for: while there are any, the bridge waits for the last, and
\* none comes after it.
LightsAsked ==
    \A i \in 1 .. Len(toMicro) : toMicro[i].cmd = "lights" =>
        /\ lit # None /\ toMicro[i].id <= sent
        /\ toMicro[i].id = sent =>
              /\ toMicro[i].ids = lit.ids
              /\ \A j \in 1 .. Len(toMicro) : j > i => toMicro[j].cmd # "lights"

\* The acknowledgements not yet taken: after the last one the lamps are as they were
\* asked for, and so they were under every key used since.
LightsObeyed ==
    \A i \in 1 .. Len(fromMicro) : fromMicro[i].type = "lights" =>
        /\ lit # None /\ fromMicro[i].id <= sent
        /\ fromMicro[i].id = sent =>
              /\ lamps = lit.ids
              /\ \A j \in 1 .. Len(toMicro) : toMicro[j].cmd # "lights"
              /\ \A j \in 1 .. Len(fromMicro) : j > i =>
                    /\ fromMicro[j].type # "lights"
                    /\ fromMicro[j].type = "key" => fromMicro[j].over = lit.ids

\* Nothing asked for: every key used was used over the lamps acknowledged.
LightsSettled ==
    /\ sent = 0 => acked = <<>> /\ lit = None
    /\ lit = None /\ sent # 0 =>
          /\ lamps = acked
          /\ \A i \in 1 .. Len(fromMicro) :
                fromMicro[i].type = "key" => fromMicro[i].over = acked

LampsInv == LightsAsked /\ LightsObeyed /\ LightsSettled

LEMMA LampsUnchanged ==
  LampsInv /\ UNCHANGED <<toMicro, fromMicro, sent, lit, acked, lamps>> => LampsInv'
  BY DEF LampsInv, LightsAsked, LightsObeyed, LightsSettled

LEMMA LampsForgotten == Unplugged /\ Undrawn => LampsInv'
  BY DEF Unplugged, Undrawn, LampsInv, LightsAsked, LightsObeyed, LightsSettled

LEMMA LampsDraw == TypeOK /\ LampsInv /\ Draw => LampsInv'
  <1> SUFFICES ASSUME TypeOK, LampsInv, Draw PROVE LampsInv'
    OBVIOUS
  <1>1. CASE Signature = frame
    BY <1>1, LampsUnchanged DEF Draw
  <1>2. CASE Signature # frame
    <2>1. /\ sent \in Nat /\ sent' = sent + 1 /\ lit' = [id |-> sent + 1, ids |-> Ids]
          /\ UNCHANGED <<fromMicro, acked, lamps>>
          /\ toMicro \in Seq(Request) /\ fromMicro \in Seq(Event) /\ Len(toMicro) \in Nat
      BY <1>2 DEF Draw, TypeOK
    <2>2. lit' # None /\ lit'.ids = Ids
      BY <2>1, IdsType, MicroAssumption
    <2>3. \A i \in 1 .. Len(toMicro') :
             \/ i \in 1 .. Len(toMicro) /\ toMicro'[i] = toMicro[i]
             \/ i = Len(toMicro) + 1 /\ toMicro'[i] = [cmd |-> "lights", id |-> sent + 1, ids |-> Ids]
             \/ i = Len(toMicro) + 2 /\ toMicro'[i] = [cmd |-> "ring", id |-> sent + 1]
      BY <1>2, <2>1, DrawnRequests
    <2>4. /\ \A i \in 1 .. Len(toMicro) : toMicro[i].cmd = "lights" => toMicro[i].id \in Nat
          /\ \A i \in 1 .. Len(fromMicro) : fromMicro[i].type = "lights" => fromMicro[i].id \in Nat
      BY <2>1 DEF Request, Event
    <2>5. LightsAsked'
      <3> SUFFICES ASSUME NEW i \in 1 .. Len(toMicro'), toMicro'[i].cmd = "lights"
                   PROVE  /\ toMicro'[i].id <= sent + 1
                          /\ toMicro'[i].id = sent + 1 =>
                                /\ toMicro'[i].ids = Ids
                                /\ \A j \in 1 .. Len(toMicro') : j > i => toMicro'[j].cmd # "lights"
        BY <2>1, <2>2 DEF LightsAsked
      <3>1. CASE i \in 1 .. Len(toMicro) /\ toMicro'[i] = toMicro[i]
        <4>1. toMicro[i].id <= sent /\ toMicro[i].id \in Nat
          BY <2>4, <3>1 DEF LampsInv, LightsAsked
        <4>2. QED
          BY <2>1, <3>1, <4>1
      <3>2. CASE i = Len(toMicro) + 1
        <4>1. toMicro'[i] = [cmd |-> "lights", id |-> sent + 1, ids |-> Ids]
          BY <2>1, <2>3, <3>2
        <4>2. \A j \in 1 .. Len(toMicro') : j > i => toMicro'[j].cmd = "ring"
          BY <2>1, <2>3, <3>2
        <4>3. QED
          BY <2>1, <4>1, <4>2
      <3>3. QED
        BY <2>3, <3>1, <3>2
    <2>6. LightsObeyed'
      <3>1. \A i \in 1 .. Len(fromMicro) : fromMicro[i].type = "lights" =>
               fromMicro[i].id <= sent + 1 /\ fromMicro[i].id # sent + 1
        BY <2>1, <2>4 DEF LampsInv, LightsObeyed
      <3>2. QED
        BY <2>1, <2>2, <3>1 DEF LightsObeyed
    <2>7. QED
      BY <2>1, <2>2, <2>5, <2>6 DEF LampsInv, LightsSettled
  <1>3. QED
    BY <1>1, <1>2

LEMMA LampsTake == TypeOK /\ LampsInv /\ MicroEvent => LampsInv'
  <1> SUFFICES ASSUME TypeOK, LampsInv, MicroEvent PROVE LampsInv'
    OBVIOUS
  <1> DEFINE event == Head(fromMicro)
  <1>1. /\ UNCHANGED <<toMicro, lamps>>
        /\ event \in Event /\ event = fromMicro[1] /\ 1 \in 1 .. Len(fromMicro)
        /\ \A i \in 1 .. Len(fromMicro') :
              i + 1 \in 1 .. Len(fromMicro) /\ fromMicro'[i] = fromMicro[i + 1]
    BY TakenFirst DEF MicroEvent, Takes, TypeOK
  <1>2. \A i \in 1 .. Len(fromMicro') : i + 1 > 1 /\ \A j \in 1 .. Len(fromMicro') : j > i => j + 1 > i + 1
    OBVIOUS
  <1>3. CASE UNCHANGED <<lit, sent, acked>>
    <2>1. LightsAsked' /\ LightsSettled'
      BY <1>1, <1>3 DEF LampsInv, LightsAsked, LightsSettled
    <2>2. LightsObeyed'
      BY <1>1, <1>2, <1>3 DEF LampsInv, LightsObeyed
    <2>3. QED
      BY <2>1, <2>2 DEF LampsInv
  <1>4. CASE event.type = "lights" /\ lit # None /\ lit.id = event.id /\ LightsAck(event)
    <2>1. acked' = lit.ids /\ lit' = None /\ sent' = sent
      BY <1>4 DEF LightsAck
    <2>2. event.id = sent
      BY <1>4 DEF TypeOK
    <2>3. /\ lamps = lit.ids
          /\ \A j \in 1 .. Len(toMicro) : toMicro[j].cmd # "lights"
          /\ \A j \in 1 .. Len(fromMicro) : j > 1 =>
                /\ fromMicro[j].type # "lights"
                /\ fromMicro[j].type = "key" => fromMicro[j].over = lit.ids
      BY <1>1, <1>4, <2>2 DEF LampsInv, LightsObeyed
    <2>4. \A i \in 1 .. Len(fromMicro') :
             /\ fromMicro'[i].type # "lights"
             /\ fromMicro'[i].type = "key" => fromMicro'[i].over = lit.ids
      BY <1>1, <1>2, <2>3
    <2>5. sent # 0
      BY <1>4 DEF LampsInv, LightsSettled
    <2>6. QED
      BY <1>1, <2>1, <2>3, <2>4, <2>5 DEF LampsInv, LightsAsked, LightsObeyed, LightsSettled
  <1>5. QED
    BY <1>3, <1>4 DEF MicroEvent, LightsAck, RingAck, KeyUsed, draw

LEMMA LampsObey == TypeOK /\ LampsInv /\ MicroObeys => LampsInv'
  <1> SUFFICES ASSUME TypeOK, LampsInv, MicroObeys PROVE LampsInv'
    OBVIOUS
  <1> DEFINE request == Head(toMicro)
             event == [type |-> request.cmd, id |-> request.id]
  <1>1. /\ request \in Request /\ request = toMicro[1] /\ 1 \in 1 .. Len(toMicro)
        /\ \A i \in 1 .. Len(toMicro') :
              i + 1 \in 1 .. Len(toMicro) /\ toMicro'[i] = toMicro[i + 1]
    BY TakenFirst DEF MicroObeys, TypeOK
  <1>2. \A i \in 1 .. Len(toMicro') : i + 1 > 1 /\ \A j \in 1 .. Len(toMicro') : j > i => j + 1 > i + 1
    OBVIOUS
  <1>3. /\ UNCHANGED <<lit, sent, acked>>
        /\ lamps' = IF request.cmd = "lights" THEN request.ids ELSE lamps
        /\ fromMicro' = Append(fromMicro, event)
    BY DEF MicroObeys, draw
  <1>4. event \in Event /\ event.type = request.cmd /\ event.id = request.id
    BY <1>1 DEF Request, Event
  <1>5. /\ Len(fromMicro) \in Nat /\ Len(fromMicro') = Len(fromMicro) + 1
        /\ \A i \in 1 .. Len(fromMicro) : fromMicro'[i] = fromMicro[i]
        /\ fromMicro'[Len(fromMicro) + 1] = event
    <2>1. fromMicro \in Seq(Event)
      BY DEF TypeOK
    <2> HIDE DEF event
    <2>2. QED
      BY <1>3, <1>4, <2>1, AddedLast
  <1> HIDE DEF event
  <1>6. LightsAsked'
    BY <1>1, <1>2, <1>3 DEF LampsInv, LightsAsked
  <1>7. CASE request.cmd = "lights"
    <2>1. /\ lit # None /\ request.id <= sent /\ lamps' = request.ids
          /\ request.id = sent =>
                /\ request.ids = lit.ids
                /\ \A j \in 1 .. Len(toMicro) : j > 1 => toMicro[j].cmd # "lights"
      BY <1>1, <1>3, <1>7 DEF LampsInv, LightsAsked
    <2>2. \A i \in 1 .. Len(fromMicro) : fromMicro[i].type = "lights" => fromMicro[i].id # sent
      BY <1>1, <1>7 DEF LampsInv, LightsObeyed
    <2>3. \A i \in 1 .. Len(fromMicro') :
             \/ i \in 1 .. Len(fromMicro) /\ fromMicro'[i] = fromMicro[i]
             \/ i = Len(fromMicro) + 1 /\ fromMicro'[i] = event
      BY <1>5
    <2>4. LightsObeyed'
      <3> SUFFICES ASSUME NEW i \in 1 .. Len(fromMicro'), fromMicro'[i].type = "lights"
                   PROVE  /\ lit # None /\ fromMicro'[i].id <= sent
                          /\ fromMicro'[i].id = sent =>
                               /\ lamps' = lit.ids
                               /\ \A j \in 1 .. Len(toMicro') : toMicro'[j].cmd # "lights"
                               /\ \A j \in 1 .. Len(fromMicro') : j > i =>
                                     /\ fromMicro'[j].type # "lights"
                                     /\ fromMicro'[j].type = "key" => fromMicro'[j].over = lit.ids
        BY <1>3 DEF LightsObeyed
      <3>1. CASE i \in 1 .. Len(fromMicro) /\ fromMicro'[i] = fromMicro[i]
        BY <2>2, <3>1 DEF LampsInv, LightsObeyed
      <3>2. CASE i = Len(fromMicro) + 1 /\ fromMicro'[i] = event
        BY <1>1, <1>2, <1>4, <1>5, <2>1, <3>2
      <3>3. QED
        BY <2>3, <3>1, <3>2
    <2>5. QED
      BY <1>3, <1>6, <2>1, <2>4 DEF LampsInv, LightsSettled
  <1>8. CASE request.cmd # "lights"
    <2>1. lamps' = lamps /\ event.type \notin {"lights", "key"}
      BY <1>1, <1>3, <1>4, <1>8 DEF Request
    <2>2. \A i \in 1 .. Len(fromMicro') : fromMicro'[i].type \in {"lights", "key"} =>
             i \in 1 .. Len(fromMicro) /\ fromMicro'[i] = fromMicro[i]
      BY <1>5, <2>1
    <2>3. LightsObeyed'
      <3> SUFFICES ASSUME NEW i \in 1 .. Len(fromMicro'), fromMicro'[i].type = "lights"
                   PROVE  /\ lit # None /\ fromMicro'[i].id <= sent
                          /\ fromMicro'[i].id = sent =>
                               /\ lamps = lit.ids
                               /\ \A j \in 1 .. Len(toMicro') : toMicro'[j].cmd # "lights"
                               /\ \A j \in 1 .. Len(fromMicro') : j > i =>
                                     /\ fromMicro'[j].type # "lights"
                                     /\ fromMicro'[j].type = "key" => fromMicro'[j].over = lit.ids
        BY <1>3, <2>1 DEF LightsObeyed
      <3>1. i \in 1 .. Len(fromMicro) /\ fromMicro[i].type = "lights" /\ fromMicro'[i] = fromMicro[i]
        BY <2>2
      <3>2. QED
        BY <1>1, <2>2, <3>1 DEF LampsInv, LightsObeyed
    <2>4. LightsSettled'
      BY <1>3, <2>1, <2>2 DEF LampsInv, LightsSettled
    <2>5. QED
      BY <1>6, <2>3, <2>4 DEF LampsInv
  <1>9. QED
    BY <1>7, <1>8

LEMMA LampsKey == TypeOK /\ LampsInv /\ KeyIsUsed => LampsInv'
  <1> SUFFICES ASSUME TypeOK, LampsInv, KeyIsUsed PROVE LampsInv'
    OBVIOUS
  <1>1. PICK key \in Keys : fromMicro' = Append(fromMicro,
            [type |-> "key", key |-> key, id |-> presses + 1, over |-> lamps])
    BY DEF KeyIsUsed
  <1> DEFINE event == [type |-> "key", key |-> key, id |-> presses + 1, over |-> lamps]
  <1>2. UNCHANGED <<toMicro, lit, sent, acked, lamps>> /\ fromMicro \in Seq(Event)
    BY DEF KeyIsUsed, draw, TypeOK
  <1>3. event \in Event /\ event.type = "key" /\ event.over = lamps
    BY MicroAssumption DEF KeyIsUsed, TypeOK, Event
  <1> HIDE DEF event
  <1>4. /\ Len(fromMicro) \in Nat /\ Len(fromMicro') = Len(fromMicro) + 1
        /\ \A i \in 1 .. Len(fromMicro) : fromMicro'[i] = fromMicro[i]
        /\ fromMicro'[Len(fromMicro) + 1] = event
    BY <1>1, <1>2, <1>3, AddedLast DEF event
  <1>5. \A i \in 1 .. Len(fromMicro') :
           \/ i \in 1 .. Len(fromMicro) /\ fromMicro'[i] = fromMicro[i]
           \/ i = Len(fromMicro) + 1 /\ fromMicro'[i] = event
    BY <1>4
  <1>6. LightsAsked'
    BY <1>2 DEF LampsInv, LightsAsked
  <1>7. LightsObeyed'
    BY <1>2, <1>3, <1>5 DEF LampsInv, LightsObeyed
  <1>8. LightsSettled'
    BY <1>2, <1>3, <1>5 DEF LampsInv, LightsSettled
  <1>9. QED
    BY <1>6, <1>7, <1>8 DEF LampsInv

LEMMA LampsStep == TypeOK /\ LampsInv /\ [Next]_vars => LampsInv'
  <1> SUFFICES ASSUME TypeOK, LampsInv, [Next]_vars PROVE LampsInv'
    OBVIOUS
  <1> DEFINE same == UNCHANGED <<toMicro, fromMicro, sent, lit, acked, lamps>>
  <1>1. CASE Leave \/ Dies
    BY <1>1, LampsForgotten DEF Leave, Dies
  <1>2. Draw \/ MicroEvent \/ MicroObeys \/ KeyIsUsed => LampsInv'
    BY LampsDraw, LampsTake, LampsObey, LampsKey
  <1>3. Loop => same \/ Leave \/ Draw
    BY DEF Loop, ConnectPortal, Release, Taking, Acquire, Check, Claim, StopHerdr, Restores, Restore,
       Unmark, draw, device
  <1>4. GivesUp \/ Raises \/ Stops \/ Daemon \/ Silence \/ StatusAges \/ Collector \/ PortalEvent
        \/ UNCHANGED vars => same
    BY DEF GivesUp, Raises, Stops, Daemon, Publishes, Heartbeat, Answers, Silence, StatusAges,
       Collector, Samples, ShowsSample, PortalEvent, vars, draw, device
  <1>5. QED
    BY <1>1, <1>2, <1>3, <1>4, LampsUnchanged DEF Next, Messages, Device

----------------------------------------------------------------------------
(* What an answer is about                                                  *)

\* The commands in progress: to be answered, awaited, or answered and not yet read.
Commands ==
    {asked[i] : i \in 1 .. Len(asked)}
    \cup (IF pending = None THEN {} ELSE {pending})
    \cup {[id |-> toBridge[i].id, agent |-> toBridge[i].agent] :
             i \in {j \in 1 .. Len(toBridge) : toBridge[j].type = "result"}}

\* A press has one number, in the order of the presses; a number given to a command is
\* that of an earlier press, and one agent's.
PressesInOrder ==
    \A i \in 1 .. Len(fromMicro) : fromMicro[i].type = "key" =>
        /\ fromMicro[i].id <= presses
        /\ \A j \in 1 .. Len(fromMicro) :
              j > i /\ fromMicro[j].type = "key" => fromMicro[i].id < fromMicro[j].id
        /\ \A p \in Commands : p.id < fromMicro[i].id

NumbersAreAgents ==
    /\ \A p \in Commands : p.id <= presses
    /\ \A p, q \in Commands : p.id = q.id => p.agent = q.agent

PressInv == PressesInOrder /\ NumbersAreAgents

LEMMA CommandsType == TypeOK => Commands \subseteq Command
  <1> SUFFICES ASSUME TypeOK PROVE Commands \subseteq Command
    OBVIOUS
  <1>1. \A i \in 1 .. Len(asked) : asked[i] \in Command
    BY DEF TypeOK
  <1>2. pending # None => pending \in Command
    BY DEF TypeOK
  <1>3. \A i \in 1 .. Len(toBridge) : toBridge[i].type = "result" =>
           [id |-> toBridge[i].id, agent |-> toBridge[i].agent] \in Command
    BY DEF TypeOK, Message, Command
  <1>4. QED
    BY <1>1, <1>2, <1>3 DEF Commands

\* A command, and what a queue gains or loses by one message.
LEMMA InCommands ==
  ASSUME NEW p
  PROVE  p \in Commands <=>
           \/ \E i \in 1 .. Len(asked) : p = asked[i]
           \/ pending # None /\ p = pending
           \/ \E i \in 1 .. Len(toBridge) :
                toBridge[i].type = "result" /\ p = [id |-> toBridge[i].id, agent |-> toBridge[i].agent]
  BY DEF Commands

\* The step forgets commands or keys, and makes none.
LEMMA PressKept ==
  ASSUME TypeOK, PressInv, Commands' \subseteq Commands, presses' = presses,
         \/ UNCHANGED fromMicro
         \/ fromMicro' = <<>>
         \/ fromMicro # <<>> /\ fromMicro' = Tail(fromMicro)
  PROVE  PressInv'
  <1>1. NumbersAreAgents'
    BY DEF PressInv, NumbersAreAgents
  <1>2. CASE UNCHANGED fromMicro
    BY <1>1, <1>2 DEF PressInv, PressesInOrder
  <1>3. CASE fromMicro' = <<>>
    BY <1>1, <1>3 DEF PressInv, PressesInOrder
  <1>4. CASE fromMicro # <<>> /\ fromMicro' = Tail(fromMicro)
    <2>1. \A i \in 1 .. Len(fromMicro') :
             i + 1 \in 1 .. Len(fromMicro) /\ fromMicro'[i] = fromMicro[i + 1]
      BY <1>4, TakenFirst DEF TypeOK
    <2>2. \A i, j \in 1 .. Len(fromMicro') : j > i => j + 1 > i + 1
      OBVIOUS
    <2>3. PressesInOrder'
      BY <2>1, <2>2 DEF PressInv, PressesInOrder
    <2>4. QED
      BY <1>1, <2>3 DEF PressInv
  <1>5. QED
    BY <1>2, <1>3, <1>4

LEMMA CommandsKept ==
  ASSUME TypeOK
  PROVE  /\ UNCHANGED <<asked, toBridge>> /\ pending' \in {pending, None} => Commands' \subseteq Commands
         /\ asked' = <<>> /\ toBridge' = <<>> /\ pending' = None => Commands' \subseteq Commands
  BY DEF Commands

LEMMA CommandsPortal ==
  ASSUME TypeOK, PortalEvent
  PROVE  Commands' \subseteq Commands
  <1>1. \A i \in 1 .. Len(toBridge') : i + 1 \in 1 .. Len(toBridge) /\ toBridge'[i] = toBridge[i + 1]
    BY TakenFirst DEF PortalEvent, TypeOK
  <1>2. asked' = asked /\ pending' \in {pending, None}
    BY DEF PortalEvent, TakeSnapshot, TakeResult
  <1>3. QED
    BY <1>1, <1>2 DEF Commands

LEMMA CommandsDaemon ==
  ASSUME TypeOK, Daemon \/ ConnectPortal
  PROVE  Commands' \subseteq Commands
  <1> DEFINE News(m) == m \in Message /\ m.type = "snapshot"
  <1>1. pending' = pending
    BY DEF Daemon, Publishes, Heartbeat, Answers, ConnectPortal, view
  <1>2. CASE Answers
    <2>1. /\ Head(asked) \in Command /\ Head(asked) = asked[1] /\ 1 \in 1 .. Len(asked)
          /\ \A i \in 1 .. Len(asked') : i + 1 \in 1 .. Len(asked) /\ asked'[i] = asked[i + 1]
      BY <1>2, TakenFirst DEF Answers, TypeOK
    <2>2. PICK ok \in BOOLEAN :
            toBridge' = Append(toBridge, [type |-> "result", id |-> Head(asked).id,
                                          agent |-> Head(asked).agent, ok |-> ok])
      BY <1>2 DEF Answers
    <2> DEFINE m == [type |-> "result", id |-> Head(asked).id, agent |-> Head(asked).agent, ok |-> ok]
    <2>3. m \in Message /\ [id |-> m.id, agent |-> m.agent] = Head(asked)
      BY <2>1 DEF Message, Command
    <2>4. toBridge \in Seq(Message)
      BY DEF TypeOK
    <2> HIDE DEF m
    <2>5. \A i \in 1 .. Len(toBridge') :
             \/ i \in 1 .. Len(toBridge) /\ toBridge'[i] = toBridge[i]
             \/ toBridge'[i] = m
      <3>1. toBridge' = Append(toBridge, m)
        BY <2>2 DEF m
      <3>2. QED
        BY <2>3, <2>4, <3>1, AddedLast
    <2>6. \A i \in 1 .. Len(asked') : asked'[i] \in Commands
      BY <2>1 DEF Commands
    <2>7. Head(asked) \in Commands
      BY <2>1 DEF Commands
    <2>8. \A i \in 1 .. Len(toBridge') : toBridge'[i].type = "result" =>
             [id |-> toBridge'[i].id, agent |-> toBridge'[i].agent] \in Commands
      BY <2>3, <2>5, <2>7 DEF Commands
    <2>9. {asked'[i] : i \in 1 .. Len(asked')} \subseteq Commands
      BY <2>6
    <2>10. (IF pending' = None THEN {} ELSE {pending'}) \subseteq Commands
      BY <1>1 DEF Commands
    <2>11. {[id |-> toBridge'[i].id, agent |-> toBridge'[i].agent] :
               i \in {j \in 1 .. Len(toBridge') : toBridge'[j].type = "result"}} \subseteq Commands
      BY <2>8
    <2>12. Commands' = {asked'[i] : i \in 1 .. Len(asked')}
                          \cup (IF pending' = None THEN {} ELSE {pending'})
                          \cup {[id |-> toBridge'[i].id, agent |-> toBridge'[i].agent] :
                                   i \in {j \in 1 .. Len(toBridge') : toBridge'[j].type = "result"}}
      BY DEF Commands
    <2>13. QED
      BY <2>9, <2>10, <2>11, <2>12
  <1>3. CASE Publishes \/ Heartbeat \/ ConnectPortal
    <2>1. asked' = asked
      BY <1>3 DEF Publishes, Heartbeat, ConnectPortal
    <2>2. \A i \in 1 .. Len(toBridge') :
             \/ i \in 1 .. Len(toBridge) /\ toBridge'[i] = toBridge[i]
             \/ toBridge'[i].type = "snapshot"
      <3>1. ASSUME NEW show \in Shows,
                   toBridge' \in {toBridge, <<[type |-> "snapshot", show |-> show]>>,
                                  Append(toBridge, [type |-> "snapshot", show |-> show])},
                   NEW i \in 1 .. Len(toBridge')
            PROVE  \/ i \in 1 .. Len(toBridge) /\ toBridge'[i] = toBridge[i]
                   \/ toBridge'[i].type = "snapshot"
        <4> DEFINE m == [type |-> "snapshot", show |-> show]
        <4>1. m \in Message /\ m.type = "snapshot" /\ toBridge \in Seq(Message)
          BY DEF Message, TypeOK
        <4>2. toBridge' \in {toBridge, <<m>>, Append(toBridge, m)}
          BY <3>1
        <4> HIDE DEF m
        <4>3. CASE toBridge' = toBridge
          BY <4>3
        <4>4. CASE toBridge' = <<m>>
          BY <4>1, <4>4
        <4>5. CASE toBridge' = Append(toBridge, m)
          BY <4>1, <4>5, AddedLast
        <4>6. QED
          BY <4>2, <4>3, <4>4, <4>5
      <3>2. \E show \in Shows :
               toBridge' \in {toBridge, <<[type |-> "snapshot", show |-> show]>>,
                              Append(toBridge, [type |-> "snapshot", show |-> show])}
        BY <1>3 DEF Publishes, Heartbeat, ConnectPortal, TypeOK
      <3>3. QED
        BY <3>1, <3>2
    <2>3. QED
      BY <1>1, <2>1, <2>2 DEF Commands
  <1>4. QED
    BY <1>2, <1>3 DEF Daemon

LEMMA PressTake == TypeOK /\ PressInv /\ MicroEvent => PressInv'
  <1> SUFFICES ASSUME TypeOK, PressInv, MicroEvent PROVE PressInv'
    OBVIOUS
  <1> DEFINE event == Head(fromMicro)
  <1>1. /\ event \in Event /\ event = fromMicro[1] /\ 1 \in 1 .. Len(fromMicro)
        /\ \A i \in 1 .. Len(fromMicro') :
              i + 1 \in 1 .. Len(fromMicro) /\ i + 1 > 1 /\ fromMicro'[i] = fromMicro[i + 1]
        /\ fromMicro # <<>> /\ fromMicro' = Tail(fromMicro)
        /\ UNCHANGED <<presses, toBridge>>
    BY TakenFirst DEF MicroEvent, Takes, TypeOK
  <1>2. CASE UNCHANGED <<asked, pending>>
    BY <1>1, <1>2, CommandsKept, PressKept
  <1>3. ASSUME NEW agent, event.type = "key", agent \in Agent, Opens(agent, event)
        PROVE  PressInv'
    <2> DEFINE command == [id |-> event.id, agent |-> agent]
    <2>1. /\ command \in Command /\ command.id = event.id /\ command.agent = agent
          /\ event.id \in Nat /\ presses \in Nat
      BY <1>1, <1>3, MicroAssumption DEF Event, Command, TypeOK
    <2>2. asked \in Seq(Command) /\ pending' = command /\ asked' = Append(asked, command)
      BY <1>3 DEF Opens, TypeOK
    <2> HIDE DEF command, event
    <2>3. \A i \in 1 .. Len(asked') :
             (i \in 1 .. Len(asked) /\ asked'[i] = asked[i]) \/ asked'[i] = command
      BY <2>1, <2>2, AddedLast
    <2>4. Commands' \subseteq Commands \cup {command}
      BY <1>1, <2>2, <2>3 DEF Commands
    <2>5. \A p \in Commands : p.id \in Nat /\ p.id < event.id
      <3>1. \A p \in Commands : p.id \in Nat
        BY CommandsType, MicroAssumption DEF Command
      <3>2. QED
        BY <1>1, <1>3, <3>1 DEF PressInv, PressesInOrder
    <2>6. NumbersAreAgents'
      <3>1. event.id <= presses
        BY <1>1, <1>3 DEF PressInv, PressesInOrder
      <3>2. \A p \in Commands : p.id # event.id
        BY <2>1, <2>5
      <3>3. QED
        BY <1>1, <2>1, <2>4, <3>1, <3>2 DEF PressInv, NumbersAreAgents
    <2>7. PressesInOrder'
      <3>1. \A i \in 1 .. Len(fromMicro') : fromMicro'[i].type = "key" => event.id < fromMicro'[i].id
        BY <1>1, <1>3 DEF PressInv, PressesInOrder
      <3>2. \A i, j \in 1 .. Len(fromMicro') : j > i => j + 1 > i + 1
        OBVIOUS
      <3>3. QED
        BY <1>1, <2>1, <2>4, <3>1, <3>2 DEF PressInv, PressesInOrder
    <2>8. QED
      BY <2>6, <2>7 DEF PressInv
  <1>4. CASE KeyUsed(event)
    <2>1. CASE Current /\ Chosen(event.key) # None /\ Chosen(event.key) \in seen.open
      <3>1. Chosen(event.key) \in Agent
        BY <2>1, MicroAssumption DEF Current, Wanted, TypeOK
      <3>2. QED
        BY <1>3, <1>4, <2>1, <3>1 DEF KeyUsed
    <2>2. QED
      BY <1>2, <1>4, <2>1 DEF KeyUsed
  <1>5. QED
    BY <1>2, <1>4 DEF MicroEvent, LightsAck, RingAck

LEMMA PressObey == TypeOK /\ PressInv /\ Device => PressInv'
  <1> SUFFICES ASSUME TypeOK, PressInv, Device PROVE PressInv'
    OBVIOUS
  <1>1. UNCHANGED <<asked, toBridge, pending>> /\ fromMicro \in Seq(Event)
    BY DEF Device, MicroObeys, KeyIsUsed, wire, view, TypeOK
  <1>2. Commands' = Commands
    BY <1>1 DEF Commands
  <1>3. presses \in Nat /\ presses' \in Nat /\ presses <= presses'
    BY MicroAssumption DEF Device, MicroObeys, KeyIsUsed, TypeOK
  <1>4. PICK event \in Event :
          /\ fromMicro' = Append(fromMicro, event)
          /\ event.type = "key" => presses' = presses + 1 /\ event.id = presses'
    <2>1. CASE MicroObeys
      <3>1. Head(toMicro) \in Request
        BY <2>1, TakenFirst DEF MicroObeys, TypeOK
      <3>2. [type |-> Head(toMicro).cmd, id |-> Head(toMicro).id] \in Event
            /\ Head(toMicro).cmd # "key"
        BY <3>1 DEF Request, Event
      <3>3. QED
        BY <2>1, <3>2 DEF MicroObeys
    <2>2. CASE KeyIsUsed
      <3>1. \A key \in Keys :
               [type |-> "key", key |-> key, id |-> presses + 1, over |-> lamps] \in Event
        BY <2>2, MicroAssumption DEF KeyIsUsed, TypeOK, Event
      <3>2. QED
        BY <2>2, <3>1 DEF KeyIsUsed
    <2>3. QED
      BY <2>1, <2>2 DEF Device
  <1>5. /\ Len(fromMicro) \in Nat
        /\ \A i \in 1 .. Len(fromMicro') :
             \/ i \in 1 .. Len(fromMicro) /\ fromMicro'[i] = fromMicro[i]
             \/ i = Len(fromMicro) + 1 /\ fromMicro'[i] = event
    BY <1>1, <1>4, AddedLast
  <1>6. \A p \in Commands : p.id \in Nat /\ p.id <= presses
    BY CommandsType, MicroAssumption DEF Command, PressInv, NumbersAreAgents
  <1>7. NumbersAreAgents'
    BY <1>2, <1>3, <1>6 DEF PressInv, NumbersAreAgents
  <1>8. PressesInOrder'
    <2>1. \A i \in 1 .. Len(fromMicro) : fromMicro[i].type = "key" =>
             fromMicro[i].id \in Nat /\ fromMicro[i].id <= presses
      BY <1>1, MicroAssumption DEF Event, PressInv, PressesInOrder
    <2> SUFFICES ASSUME NEW i \in 1 .. Len(fromMicro'), fromMicro'[i].type = "key"
                 PROVE  /\ fromMicro'[i].id <= presses'
                        /\ \A j \in 1 .. Len(fromMicro') :
                             j > i /\ fromMicro'[j].type = "key" => fromMicro'[i].id < fromMicro'[j].id
                        /\ \A p \in Commands : p.id < fromMicro'[i].id
      BY <1>2 DEF PressesInOrder
    <2>2. CASE i \in 1 .. Len(fromMicro) /\ fromMicro'[i] = fromMicro[i]
      <3>1. fromMicro'[i].id <= presses'
        BY <1>3, <2>1, <2>2
      <3>2. \A p \in Commands : p.id < fromMicro'[i].id
        BY <2>2 DEF PressInv, PressesInOrder
      <3>3. ASSUME NEW j \in 1 .. Len(fromMicro'), j > i, fromMicro'[j].type = "key"
            PROVE  fromMicro'[i].id < fromMicro'[j].id
        <4>1. CASE j \in 1 .. Len(fromMicro) /\ fromMicro'[j] = fromMicro[j]
          BY <2>2, <3>3, <4>1 DEF PressInv, PressesInOrder
        <4>2. CASE fromMicro'[j] = event
          BY <1>3, <1>4, <2>1, <2>2, <3>3, <4>2
        <4>3. QED
          BY <1>5, <4>1, <4>2
      <3>4. QED
        BY <3>1, <3>2, <3>3
    <2>3. CASE i = Len(fromMicro) + 1 /\ fromMicro'[i] = event
      <3>1. fromMicro'[i].id = presses + 1 /\ presses' = presses + 1
        BY <1>4, <2>3
      <3>2. \A j \in 1 .. Len(fromMicro') : ~(j > i)
        BY <1>5, <2>3
      <3>3. QED
        BY <1>3, <1>6, <3>1, <3>2
    <2>4. QED
      BY <1>5, <2>2, <2>3
  <1>9. QED
    BY <1>7, <1>8 DEF PressInv

LEMMA PressStep == TypeOK /\ PressInv /\ [Next]_vars => PressInv'
  <1> SUFFICES ASSUME TypeOK, PressInv, [Next]_vars PROVE PressInv'
    OBVIOUS
  <1>1. CASE UNCHANGED <<asked, toBridge, presses>> /\ pending' \in {pending, None}
             /\ fromMicro' \in {fromMicro, <<>>}
    BY <1>1, CommandsKept, PressKept
  <1>2. CASE Leave \/ Dies
    <2>1. CASE UNCHANGED wire
      BY <1>1, <1>2, <2>1 DEF Leave, Dies, Unplugged, wire
    <2>2. CASE Hangs
      BY <1>2, <2>2, CommandsKept, PressKept DEF Leave, Dies, Hangs, Unplugged
    <2>3. QED
      BY <1>2, <2>1, <2>2 DEF Leave, Dies, wire
  <1>3. CASE PortalEvent \/ Daemon \/ ConnectPortal
    <2>1. UNCHANGED <<fromMicro, presses>>
      BY <1>3 DEF PortalEvent, Daemon, Publishes, Heartbeat, Answers, ConnectPortal, device
    <2>2. QED
      BY <1>3, <2>1, CommandsPortal, CommandsDaemon, PressKept
  <1>4. Loop => \/ Leave \/ ConnectPortal
                \/ UNCHANGED <<asked, toBridge, presses, pending, fromMicro>>
    BY DEF Loop, Release, Taking, Acquire, Check, Claim, Draw, StopHerdr, Restores, Restore,
       Unmark, wire, view, device
  <1>5. GivesUp \/ Raises \/ Stops \/ Silence \/ StatusAges \/ Collector \/ UNCHANGED vars =>
          /\ UNCHANGED <<asked, toBridge, presses, fromMicro>> /\ pending' \in {pending, None}
    BY DEF GivesUp, Raises, Stops, Silence, StatusAges, Collector, Samples, ShowsSample, vars, wire,
       view, device
  <1>6. QED
    BY <1>1, <1>2, <1>3, <1>4, <1>5, PressTake, PressObey DEF Next, Messages

\* Cards whose lamps are acknowledged and current are those a key in the queue was used
\* over.
LEMMA KeyOver ==
  ASSUME TypeOK, LampsInv, fromMicro # <<>>, Head(fromMicro).type = "key", Current, Ids # <<>>
  PROVE  Head(fromMicro).over = Ids
  <1>1. Head(fromMicro) = fromMicro[1] /\ 1 \in 1 .. Len(fromMicro)
    BY TakenFirst DEF TypeOK
  <1>2. lit = None /\ acked = Ids /\ sent # 0
    BY DEF Current, LampsInv, LightsSettled
  <1>3. QED
    BY <1>1, <1>2 DEF LampsInv, LightsSettled

\* What the bridge asks for grows only by a key.
LEMMA AskedByKey ==
  ASSUME TypeOK, [Next]_vars, Len(asked') > Len(asked)
  PROVE  /\ fromMicro # <<>> /\ Head(fromMicro).type = "key" /\ Current
         /\ Chosen(Head(fromMicro).key) # None
         /\ asked' = Append(asked, [id |-> Head(fromMicro).id, agent |-> Chosen(Head(fromMicro).key)])
  <1>1. asked \in Seq(Command) /\ Len(asked) \in Nat
    BY DEF TypeOK
  <1>2. asked' # asked /\ asked' # <<>>
    BY <1>1
  <1>3. ~Answers
    BY <1>1, TakenFirst DEF Answers
  <1>4. ~(Loop \/ GivesUp \/ Raises \/ Dies \/ Stops \/ Publishes \/ Heartbeat \/ Silence \/ Device
          \/ StatusAges \/ Collector \/ PortalEvent \/ UNCHANGED vars)
    BY <1>2 DEF Loop, ConnectPortal, Release, Taking, Acquire, Check, Claim, Draw, StopHerdr,
       Restores, Restore, Unmark, Leave, GivesUp, Raises, Dies, Stops, Hangs, Publishes, Heartbeat,
       Silence, Device, MicroObeys, KeyIsUsed, StatusAges, Collector, Samples, ShowsSample,
       PortalEvent, vars, wire
  <1>5. MicroEvent
    BY <1>3, <1>4 DEF Next, Messages, Daemon
  <1>6. KeyUsed(Head(fromMicro)) /\ fromMicro # <<>>
    BY <1>2, <1>5 DEF MicroEvent, LightsAck, RingAck
  <1>7. QED
    BY <1>2, <1>6 DEF KeyUsed, Opens

\* Every state is well typed: what is on either connection is what the other end sends,
\* the drawing awaited is the last one sent, and a bridge without the Micro has nothing on
\* its way to it.
THEOREM MicroTypeCorrect == Spec => []TypeOK
  BY MicroAlways, PTL

\* A key opens the agent whose lamp was lit on it when it was pressed, however the cards,
\* the drawings and their acknowledgements crossed, and an answer selects the agent its
\* command was about, for any number of keys, presses, cards and restarts.
THEOREM KeysMeanLamps == Spec => KeysMeanWhatTheyShow
  <1> DEFINE Key == Len(asked') > Len(asked) /\ Head(fromMicro).key.kind = "card" =>
                      LET event == Head(fromMicro) IN
                      /\ event.key.at \in DOMAIN event.over
                      /\ Last(asked').agent = event.over[event.key.at]
             Answer == /\ toBridge # <<>> /\ toBridge' = Tail(toBridge) /\ portal'
                       /\ Head(toBridge).type = "result" /\ selected' # selected
                       => selected' = Head(toBridge).agent
  <1>1. ASSUME TypeOK, LampsInv, [Next]_vars PROVE Key
    <2> SUFFICES ASSUME Len(asked') > Len(asked), Head(fromMicro).key.kind = "card"
                 PROVE  /\ Head(fromMicro).key.at \in DOMAIN Head(fromMicro).over
                        /\ Last(asked').agent = Head(fromMicro).over[Head(fromMicro).key.at]
      OBVIOUS
    <2> DEFINE event == Head(fromMicro)
    <2>1. /\ event.type = "key" /\ Current /\ Chosen(event.key) # None /\ fromMicro # <<>>
          /\ asked' = Append(asked, [id |-> event.id, agent |-> Chosen(event.key)])
      BY <1>1, AskedByKey
    <2>2. Ids # <<>> /\ event.key.at \in DOMAIN Ids /\ Chosen(event.key) = Ids[event.key.at]
      <3>1. event.key.kind = "card"
        OBVIOUS
      <3> HIDE DEF event
      <3>2. Ids # <<>>
        BY <2>1 DEF Chosen
      <3>3. event.key.at \in DOMAIN Ids /\ Chosen(event.key) = Ids[event.key.at]
        BY <2>1, <3>1, <3>2 DEF Chosen
      <3>4. QED
        BY <3>2, <3>3
    <2>3. event.over = Ids
      BY <1>1, <2>1, <2>2, KeyOver
    <2>4. Last(asked').agent = Chosen(event.key)
      <3> DEFINE command == [id |-> event.id, agent |-> Chosen(event.key)]
      <3>1. asked \in Seq(Command) /\ Len(asked) \in Nat
        BY <1>1 DEF TypeOK
      <3>2. asked' = Append(asked, command) /\ command.agent = Chosen(event.key)
        BY <2>1
      <3> HIDE DEF command
      <3>3. Last(asked') = command
        BY <3>1, <3>2 DEF Last
      <3>4. QED
        BY <3>2, <3>3
    <2>5. QED
      BY <2>2, <2>3, <2>4
  <1>2. ASSUME TypeOK, PressInv, [Next]_vars PROVE Answer
    <2> SUFFICES ASSUME toBridge # <<>>, toBridge' = Tail(toBridge), portal',
                        Head(toBridge).type = "result", selected' # selected
                 PROVE  selected' = Head(toBridge).agent
      OBVIOUS
    <2>1. Head(toBridge) = toBridge[1] /\ 1 \in 1 .. Len(toBridge) /\ toBridge' # toBridge
      BY <1>2, TakenFirst DEF TypeOK
    <2>2. TakeResult(Head(toBridge))
      <3>1. ~Draw /\ ~Dies
        BY <2>1 DEF Draw, Dies, Hangs, wire
      <3>2. PortalEvent
        BY <1>2, <3>1 DEF Next, Loop, ConnectPortal, Release, Taking, Acquire, Check, Claim, StopHerdr,
           Restores, Restore, Unmark, Leave, Messages, MicroEvent, GivesUp, Raises, Stops, Daemon,
           Publishes, Heartbeat, Answers, Silence, Device, MicroObeys, KeyIsUsed, StatusAges,
           Collector, Samples, ShowsSample, vars, view
      <3>3. QED
        BY <3>2 DEF PortalEvent, TakeSnapshot
    <2>3. Ours(Head(toBridge)) /\ selected' = pending.agent
      BY <2>2 DEF TakeResult
    <2>4. pending \in Commands /\ pending.id = Head(toBridge).id
      BY <2>3 DEF Ours, Commands
    <2>5. [id |-> Head(toBridge).id, agent |-> Head(toBridge).agent] \in Commands
      BY <2>1 DEF Commands
    <2>6. QED
      BY <1>2, <2>3, <2>4, <2>5 DEF PressInv, NumbersAreAgents
  <1>3. Init => LampsInv /\ PressInv
    BY DEF Init, LampsInv, LightsAsked, LightsObeyed, LightsSettled, PressInv, PressesInOrder,
       NumbersAreAgents, Commands
  <1>4. TypeOK /\ LampsInv /\ PressInv /\ [Next]_vars => [Key /\ Answer]_vars
    BY <1>1, <1>2
  <1>5. QED
    BY <1>3, <1>4, LampsStep, PressStep, MicroAlways, PTL DEF Spec, KeysMeanWhatTheyShow
----------------------------------------------------------------------------
(* The knob and the review key                                              *)

\* A card is on one key only: the cards of a snapshot have identifiers of their own.
OneKeyEach == \A i, j \in DOMAIN Ids : Ids[i] = Ids[j] => i = j

LEMMA Least ==
  ASSUME NEW S, S \subseteq Nat, S # {}
  PROVE  Min(S) \in S /\ \A n \in S : Min(S) <= n
  <1> DEFINE R == OpToRel(<, Nat)
  <1>1. IsWellFoundedOn(R, Nat)
    BY NatLessThanWellFounded
  <1>2. \A m, n \in Nat : m < n <=> <<m, n>> \in R
    BY DEF OpToRel
  <1> HIDE DEF R
  <1>3. PICK m \in S : \A n \in S : ~(<<n, m>> \in R)
    BY <1>1, WFMin
  <1>4. ASSUME NEW n \in S
        PROVE  m <= n
    <2>1. m \in Nat /\ n \in Nat /\ ~(n < m)
      BY <1>2, <1>3
    <2>2. QED
      BY <2>1
  <1>5. QED
    BY <1>4 DEF Min

LEMMA WithinTheRing == ASSUME NEW n \in Nat \ {0}, NEW x \in 0 .. (n - 1) PROVE x % n = x
  OBVIOUS

LEMMA AroundTheRing == ASSUME NEW n \in Nat \ {0}, NEW x \in 0 .. (n - 1) PROVE (x + n) % n = x
  OBVIOUS

\* One place on and one place back, in either order, is where one was.
LEMMA ThereAndBack ==
  ASSUME NEW n \in Nat \ {0}, NEW p \in 1 .. n
  PROVE  /\ (p % n) + 1 \in 1 .. n /\ ((p + n - 2) % n) + 1 \in 1 .. n
         /\ ((((p % n) + 1) + n - 2) % n) + 1 = p
         /\ ((((p + n - 2) % n) + 1) % n) + 1 = p
  <1>1. CASE p = n
    <2>1. p % n = 0
      BY <1>1, AroundTheRing, 0 + n = n, 0 \in 0 .. (n - 1)
    <2>2. ((0 + 1) + n - 2) % n = n - 1
      BY WithinTheRing, n - 1 \in 0 .. (n - 1), (0 + 1) + n - 2 = n - 1
    <2>3. CASE n = 1
      BY <1>1, <2>1, <2>2, <2>3
    <2>4. CASE n # 1
      <3>1. n - 2 \in 0 .. (n - 1) /\ p + n - 2 = (n - 2) + n /\ n - 1 \in 0 .. (n - 1)
        BY <1>1, <2>4
      <3>2. (p + n - 2) % n = n - 2 /\ (n - 1) % n = n - 1
        BY <3>1, AroundTheRing, WithinTheRing
      <3>3. QED
        BY <1>1, <2>1, <2>2, <3>2
    <2>5. QED
      BY <2>3, <2>4
  <1>2. CASE p # n
    <2>1. p \in 0 .. (n - 1) /\ p - 1 \in 0 .. (n - 1) /\ (p + 1) + n - 2 = (p - 1) + n
      BY <1>2
    <2>2. p % n = p /\ ((p + 1) + n - 2) % n = p - 1
      BY <2>1, WithinTheRing, AroundTheRing
    <2>3. CASE p = 1
      <3>1. n - 1 \in 0 .. (n - 1) /\ p + n - 2 = n - 1 /\ (n - 1) + 1 = 0 + n
        BY <2>3
      <3>2. (p + n - 2) % n = n - 1 /\ ((n - 1) + 1) % n = 0
        BY <3>1, WithinTheRing, AroundTheRing, 0 \in 0 .. (n - 1)
      <3>3. QED
        BY <2>2, <2>3, <3>2
    <2>4. CASE p # 1
      <3>1. p - 2 \in 0 .. (n - 1) /\ p + n - 2 = (p - 2) + n /\ (p - 2) + 1 = p - 1
        BY <1>2, <2>4
      <3>2. (p + n - 2) % n = p - 2 /\ (p - 1) % n = p - 1
        BY <2>1, <3>1, WithinTheRing, AroundTheRing
      <3>3. QED
        BY <1>2, <2>2, <3>1, <3>2
    <2>5. QED
      BY <2>3, <2>4
  <1>3. QED
    BY <1>1, <1>2

\* Every place is some number of places on, once around at most.
LEMMA EveryPlaceComes ==
  ASSUME NEW n \in Nat \ {0}, NEW p \in 0 .. n, NEW i \in 1 .. n
  PROVE  \E k \in 1 .. n : ((p + k - 1) % n) + 1 = i
  <1> DEFINE k == IF i > p THEN i - p ELSE (i - p) + n
  <1>1. k \in 1 .. n /\ i - 1 \in 0 .. (n - 1)
    OBVIOUS
  <1>2. p + k - 1 = i - 1 \/ p + k - 1 = (i - 1) + n
    OBVIOUS
  <1> HIDE DEF k
  <1>3. (p + k - 1) % n = i - 1
    BY <1>1, <1>2, WithinTheRing, AroundTheRing
  <1>4. ((p + k - 1) % n) + 1 = i
    BY <1>3
  <1>5. QED
    BY <1>1, <1>4, Zenon

LEMMA IdsShape ==
  ASSUME TypeOK
  PROVE  /\ Len(Ids) \in Nat /\ DOMAIN Ids = 1 .. Len(Ids) /\ (Ids # <<>> => Len(Ids) # 0)
         /\ ToSet(Ids) = {Ids[i] : i \in 1 .. Len(Ids)}
  BY IdsType DEF ToSet

\* The place of a card is the key it is on; an agent without one has place 0.
LEMMA PlaceOf ==
  ASSUME TypeOK, OneKeyEach, Ids # <<>>
  PROVE  /\ Position(selected) \in 0 .. Len(Ids)
         /\ selected \in ToSet(Ids) => /\ Position(selected) \in 1 .. Len(Ids)
                                       /\ Ids[Position(selected)] = selected
         /\ \A i \in 1 .. Len(Ids) : Position(Ids[i]) = i
  <1>1. \A i \in 1 .. Len(Ids) : Position(Ids[i]) = i
    <2> SUFFICES ASSUME NEW i \in 1 .. Len(Ids)
                 PROVE  Position(Ids[i]) = i
      OBVIOUS
    <2>1. Ids[i] \in ToSet(Ids) /\ i \in DOMAIN Ids
      BY IdsShape
    <2>2. \A j \in DOMAIN Ids : Ids[j] = Ids[i] <=> j = i
      BY <2>1 DEF OneKeyEach
    <2>3. QED
      BY <2>1, <2>2 DEF Position
  <1>2. CASE selected \in ToSet(Ids)
    <2>1. PICK i \in 1 .. Len(Ids) : Ids[i] = selected
      BY <1>2, IdsShape
    <2>2. Position(selected) = i
      BY <1>1, <2>1
    <2>3. QED
      BY <1>1, <2>1, <2>2, IdsShape
  <1>3. CASE selected \notin ToSet(Ids)
    BY <1>1, <1>3, IdsShape DEF Position
  <1>4. QED
    BY <1>2, <1>3

Key(kind) == [kind |-> kind, at |-> 0]

\* What a turn of the knob chooses, from a card that is selected.
LEMMA Turned ==
  ASSUME TypeOK, OneKeyEach, selected \in ToSet(Ids)
  PROVE  LET n == Len(Ids)
             p == Position(selected)
         IN  /\ n \in Nat \ {0} /\ p \in 1 .. n /\ Ids[p] = selected
             /\ Chosen(Key("right")) = Ids[(p % n) + 1]
             /\ Chosen(Key("left")) = Ids[((p + n - 2) % n) + 1]
  <1> DEFINE n == Len(Ids)
             p == Position(selected)
  <1>1. Ids # <<>> /\ n \in Nat \ {0}
    BY IdsShape
  <1>2. p \in 1 .. n /\ Ids[p] = selected
    BY <1>1, PlaceOf
  <1> HIDE DEF n, p
  <1>3. p + 1 - 1 = p /\ p + (n - 1) - 1 = p + n - 2
    BY <1>1, <1>2
  <1>4. Chosen(Key("right")) = Ids[((p + 1 - 1) % n) + 1]
    BY <1>1 DEF Chosen, Key, After, n, p
  <1>5. Chosen(Key("left")) = Ids[((p + (n - 1) - 1) % n) + 1]
    BY <1>1 DEF Chosen, Key, After, n, p
  <1>6. QED
    BY <1>1, <1>2, <1>3, <1>4, <1>5 DEF n, p

\* One turn of the knob and one back is the card it was on, wherever the cards end:
\* choose_agent counts around them.
THEOREM KnobTurnsBack ==
  ASSUME TypeOK, OneKeyEach, selected \in ToSet(Ids), UNCHANGED seen,
         NEW turn \in {"left", "right"}, NEW back \in {"left", "right"} \ {turn},
         selected' = Chosen(Key(turn))
  PROVE  Chosen(Key(back))' = selected
  <1> DEFINE n == Len(Ids)
             p == Position(selected)
             q == IF turn = "right" THEN (p % n) + 1 ELSE ((p + n - 2) % n) + 1
  <1>1. /\ n \in Nat \ {0} /\ p \in 1 .. n /\ Ids[p] = selected
        /\ Chosen(Key("right")) = Ids[(p % n) + 1]
        /\ Chosen(Key("left")) = Ids[((p + n - 2) % n) + 1]
    BY Turned
  <1>2. Ids' = Ids /\ OneKeyEach'
    BY DEF Ids, OneKeyEach
  <1>3. q \in 1 .. n /\ selected' = Ids[q]
    BY <1>1, ThereAndBack
  <1>4. selected' \in ToSet(Ids)'
    BY <1>2, <1>3, IdsShape
  <1>5. Position(selected)' = q
    <2>1. Ids # <<>>
      BY <1>1, IdsShape
    <2>2. \A i \in 1 .. n : Position(Ids[i]) = i
      BY <2>1, PlaceOf
    <2>3. Position(selected)' = Position(Ids[q])
      BY <1>2, <1>3 DEF Position
    <2>4. QED
      BY <1>3, <2>2, <2>3
  <1>6. /\ Chosen(Key("right"))' = Ids[(q % n) + 1]
        /\ Chosen(Key("left"))' = Ids[((q + n - 2) % n) + 1]
    <2>1. q + 1 - 1 = q /\ q + (n - 1) - 1 = q + n - 2 /\ Ids # <<>>
      BY <1>1, <1>3, IdsShape
    <2> HIDE DEF n, p, q
    <2>2. Chosen(Key("right"))' = Ids[((q + 1 - 1) % n) + 1]
      BY <1>2, <1>5, <2>1 DEF Chosen, Key, After, n
    <2>3. Chosen(Key("left"))' = Ids[((q + (n - 1) - 1) % n) + 1]
      BY <1>2, <1>4, <1>5, <2>1 DEF Chosen, Key, After, n
    <2>4. QED
      BY <2>1, <2>2, <2>3
  <1> HIDE DEF n, p
  <1>7. CASE turn = "right"
    <2>0. ((((p % n) + 1) + n - 2) % n) + 1 = p
      BY <1>1, ThereAndBack
    <2>1. q = (p % n) + 1
      BY <1>7
    <2> HIDE DEF q
    <2>2. ((q + n - 2) % n) + 1 = p
      BY <2>0, <2>1
    <2>3. back = "left"
      BY <1>7
    <2>4. QED
      BY <1>1, <1>6, <2>2, <2>3
  <1>8. CASE turn = "left"
    <2>0. ((((p + n - 2) % n) + 1) % n) + 1 = p
      BY <1>1, ThereAndBack
    <2>1. q = ((p + n - 2) % n) + 1
      BY <1>8
    <2> HIDE DEF q
    <2>2. (q % n) + 1 = p
      BY <2>0, <2>1
    <2>3. back = "right"
      BY <1>8
    <2>4. QED
      BY <1>1, <1>6, <2>2, <2>3
  <1>9. QED
    BY <1>7, <1>8
\* The review key finds a card that calls whenever one does, and the first of them after
\* the selected one: none on the way to it calls.
THEOREM ReviewFindsTheNext ==
  ASSUME TypeOK, OneKeyEach, Ids # <<>>
  PROVE  IF seen.calls \cap ToSet(Ids) = {} THEN Chosen(Key("review")) = None
         ELSE /\ Chosen(Key("review")) \in seen.calls \cap ToSet(Ids)
              /\ \E n \in 1 .. Len(Ids) :
                    /\ Chosen(Key("review")) = After(n)
                    /\ \A m \in 1 .. n - 1 : After(m) \notin seen.calls
  <1> DEFINE calling == {n \in 1 .. Len(Ids) : After(n) \in seen.calls}
  <1>1. Len(Ids) \in Nat \ {0} /\ Position(selected) \in 0 .. Len(Ids)
    BY IdsShape, PlaceOf
  <1>2. Chosen(Key("review")) = IF calling = {} THEN None ELSE After(Min(calling))
    BY DEF Chosen, Key
  <1>3. ASSUME NEW n \in 1 .. Len(Ids)
        PROVE  After(n) \in ToSet(Ids)
    <2>1. ((Position(selected) + n - 1) % Len(Ids)) + 1 \in 1 .. Len(Ids)
      BY <1>1
    <2>2. QED
      BY <2>1, IdsShape DEF After
  <1>4. ASSUME NEW a \in seen.calls \cap ToSet(Ids)
        PROVE  calling # {}
    <2>1. PICK i \in 1 .. Len(Ids) : Ids[i] = a
      BY IdsShape
    <2>2. PICK n \in 1 .. Len(Ids) : ((Position(selected) + n - 1) % Len(Ids)) + 1 = i
      BY <1>1, EveryPlaceComes
    <2>3. After(n) = a
      BY <2>1, <2>2 DEF After
    <2>4. QED
      BY <2>3
  <1>5. CASE calling = {}
    <2>1. seen.calls \cap ToSet(Ids) = {}
      BY <1>4, <1>5
    <2>2. QED
      BY <1>2, <1>5, <2>1
  <1>6. CASE calling # {}
    <2> DEFINE n == Min(calling)
    <2>1. calling \subseteq Nat
      BY <1>1
    <2> HIDE DEF calling
    <2>2. n \in calling /\ \A m \in calling : n <= m
      BY <1>6, <2>1, Least
    <2>3. Chosen(Key("review")) = After(n)
      BY <1>2, <1>6
    <2> HIDE DEF n
    <2>4. n \in 1 .. Len(Ids) /\ After(n) \in seen.calls
      BY <2>2 DEF calling
    <2>5. ASSUME NEW m \in 1 .. n - 1
          PROVE  After(m) \notin seen.calls
      <3>1. m \in 1 .. Len(Ids) /\ ~(n <= m)
        BY <1>1, <2>4
      <3>2. m \notin calling
        BY <2>2, <3>1
      <3>3. QED
        BY <3>1, <3>2 DEF calling
    <2>6. After(n) \in seen.calls \cap ToSet(Ids)
      BY <1>3, <2>4
    <2>7. QED
      BY <2>3, <2>4, <2>5, <2>6
  <1>7. QED
    BY <1>5, <1>6
=============================================================================
