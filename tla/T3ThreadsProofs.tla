-------------------------- MODULE T3ThreadsProofs --------------------------
(***************************************************************************)
(* Proofs about T3 Code's threads on the portal and about the order of the *)
(* cards.  The two comparisons of cards are strict total orders, so a sort *)
(* by them has one result, whatever order the sources were read in; and    *)
(* for every number of threads and every history of T3 Code, requests are  *)
(* shown, an outcome nobody has seen asks for review, and a seen one does  *)
(* not.                                                                    *)
(***************************************************************************)
EXTENDS T3Threads, TLAPS

----------------------------------------------------------------------------
(* The order of the cards                                                   *)

\* A card falls into one of five ranks.
LEMMA RankIsNat == \A a \in Card : AttentionRank(a) \in 0 .. 4
  BY DEF Card, Status, AttentionRank, StatusRank

LEMMA GroupedIsOrder ==
  ASSUME NEW a \in Card, NEW b \in Card, NEW c \in Card
  PROVE  /\ ~Grouped(a, a)
         /\ Grouped(a, b) /\ Grouped(b, c) => Grouped(a, c)
         /\ a.id # b.id => Grouped(a, b) \/ Grouped(b, a)
  BY DEF Card, Grouped

LEMMA ByAttentionIsOrder ==
  ASSUME NEW a \in Card, NEW b \in Card, NEW c \in Card
  PROVE  /\ ~ByAttention(a, a)
         /\ ByAttention(a, b) /\ ByAttention(b, c) => ByAttention(a, c)
         /\ a.id # b.id => ByAttention(a, b) \/ ByAttention(b, a)
  <1>1. /\ AttentionRank(a) \in Nat /\ AttentionRank(b) \in Nat /\ AttentionRank(c) \in Nat
        /\ a.seq \in Nat /\ b.seq \in Nat /\ c.seq \in Nat
    BY RankIsNat DEF Card
  <1>2. QED
    BY <1>1, GroupedIsOrder DEF ByAttention

\* Whichever way the manager orders its cards, no card comes before itself, the order is
\* transitive, and of two cards with different identifiers one comes first: the last key
\* of either comparison decides what the others leave open.
THEOREM CardsHaveOneOrder ==
  ASSUME NEW order \in {"grouped", "priority"},
         NEW a \in Card, NEW b \in Card, NEW c \in Card
  PROVE  /\ ~Before(order, a, a)
         /\ Before(order, a, b) /\ Before(order, b, c) => Before(order, a, c)
         /\ a.id # b.id => Before(order, a, b) \/ Before(order, b, a)
  BY GroupedIsOrder, ByAttentionIsOrder DEF Before

\* A card that waits for its owner comes before every card that does not, in the order by
\* attention, whenever either changed.
THEOREM BlockedComeFirst ==
  ASSUME NEW a \in Card, NEW b \in Card, a.status = "blocked", b.status # "blocked"
  PROVE  Before("priority", a, b)
  BY DEF Before, ByAttention, AttentionRank, StatusRank, Card, Status

----------------------------------------------------------------------------
(* Rows and their classification                                            *)

Readable == {"feed", "v2", "v1"}

\* Every record of a thread gives a well-formed row, or none: a settled thread of the
\* second version that neither asks nor works.
LEMMA RowType ==
  ASSUME NEW src \in Readable, NEW f \in Fact
  PROVE  /\ RowOf(src, f) \in Row \cup {None}
         /\ RowOf(src, f) = None =>
               src = "v2" /\ f.settled = "settled" /\ f.asks # "request" /\ ~Busy(f)
  <1> DEFINE turn(state, started) == IF f.run = "none" THEN None ELSE Turn(f, state, started)
  <1>1. \A state \in RunState \cup {"pending"}, started \in Nat :
           turn(state, started) \in TurnRow \cup {None}
    BY DEF Fact, Turn, TurnRow
  <1>2. f.run \in RunState /\ StateName(f.run) \in RunState \cup {"pending"}
    BY DEF Fact, StateName, RunState
  <1>3. FeedRow(f) \in Row
    <2>1. turn(StateName(f.run), f.updated) \in TurnRow \cup {None}
      BY <1>1, <1>2 DEF Fact
    <2> HIDE DEF turn
    <2>2. FeedRow(f) = [asks |-> f.asks = "request", plan |-> FALSE, work |-> Busy(f),
                        snoozed |-> f.snoozed, visited |-> f.visited,
                        settled |-> f.settled \in {"auto", "settled"}, settledAt |-> f.updated,
                        created |-> f.updated, session |-> "ready",
                        turn |-> turn(StateName(f.run), f.updated)]
      BY DEF FeedRow, turn
    <2>3. QED
      BY <2>1, <2>2 DEF Fact, Row, Busy
  <1>4. \/ V2Row(f) \in Row
        \/ V2Row(f) = None /\ f.settled = "settled" /\ f.asks # "request" /\ ~Busy(f)
    <2>1. turn(StateName(f.run), f.started) \in TurnRow \cup {None}
      BY <1>1, <1>2 DEF Fact
    <2> DEFINE session == IF Busy(f) THEN "running" ELSE "ready"
               working == Busy(f)
               settled == f.settled \in {"auto", "settled"}
               asks == f.asks = "request"
    <2>2. /\ session \in {"running", "ready", "stopped", "error"} /\ working \in BOOLEAN
          /\ settled \in BOOLEAN /\ asks \in BOOLEAN
          /\ f.snoozed \in BOOLEAN /\ f.visited \in Nat /\ f.settledAt \in Nat
      BY DEF Fact, Busy
    <2>3. f.settled = "settled" /\ f.asks # "request" /\ ~Busy(f) => V2Row(f) = None
      BY DEF V2Row
    <2>4. CASE ~(f.settled = "settled" /\ f.asks # "request" /\ ~Busy(f))
      <3>1. V2Row(f) = [asks |-> asks, plan |-> FALSE, work |-> working,
                        snoozed |-> f.snoozed, visited |-> f.visited,
                        settled |-> settled, settledAt |-> f.settledAt, created |-> 0,
                        session |-> session, turn |-> turn(StateName(f.run), f.started)]
        BY <2>4 DEF V2Row
      <3> HIDE DEF turn, session, working, settled, asks
      <3>2. V2Row(f) \in Row
        BY <2>1, <2>2, <3>1 DEF Row
      <3>3. QED
        BY <3>2
    <2>5. QED
      BY <2>3, <2>4
  <1>5. V1Row(f) \in Row
    <2>1. turn(StateName(f.run), f.started) \in TurnRow \cup {None}
      BY <1>1, <1>2 DEF Fact
    <2> HIDE DEF turn
    <2>2. V1Row(f) = [asks |-> f.asks = "request", plan |-> f.asks = "plan", work |-> FALSE,
                      snoozed |-> f.snoozed, visited |-> 0,
                      settled |-> f.settled \in {"auto", "settled"}, settledAt |-> f.settledAt,
                      created |-> 0, session |-> f.session,
                      turn |-> turn(StateName(f.run), f.started)]
      BY DEF V1Row, turn
    <2>3. QED
      BY <2>1, <2>2 DEF Fact, Row
  <1>6. QED
    BY <1>3, <1>4, <1>5, NoneAssumption DEF RowOf, Readable

\* When a row was started and when its turn ended.
LEMMA RowTimes ==
  ASSUME NEW row \in Row
  PROVE  /\ Started(row) \in Nat /\ Finish(row) \in Nat
         /\ StateOf(row) \in RunState \cup {"pending"}
  BY DEF Row, Started, Finish, StateOf, TurnRow, RunState

\* An outcome is done and unacknowledged, or idle and acknowledged.
LEMMA OutcomeType ==
  ASSUME NEW row \in Row
  PROVE  /\ Outcome(row) \in Standing
         /\ row.settled \/ Visited(row) => Outcome(row).status = "idle" /\ Outcome(row).acked
         /\ ~(row.settled \/ Visited(row)) => Outcome(row).status = "done" /\ ~Outcome(row).acked
  <1>1. Finish(row) \in Nat /\ row.settledAt \in Nat /\ row.settled \in BOOLEAN
    BY RowTimes DEF Row
  <1>2. QED
    BY <1>1 DEF Outcome, As, Standing, AgentStatus

\* A row is classified, or hidden; one that is done is not acknowledged.
LEMMA ClassifyType ==
  ASSUME NEW row \in Row
  PROVE  \/ Classify(row) = None
         \/ /\ Classify(row) \in Standing
            /\ Classify(row).status = "done" => ~Classify(row).acked
  <1>1. Started(row) \in Nat /\ Finish(row) \in Nat /\ row.created \in Nat /\ row.settled \in BOOLEAN
    BY RowTimes DEF Row
  <1>2. \A status \in AgentStatus, seq \in Nat, acked \in BOOLEAN :
           /\ As(status, seq, acked) \in Standing
           /\ As(status, seq, acked).status = status /\ As(status, seq, acked).acked = acked
    BY DEF As, Standing
  <1>3. {"blocked", "working", "idle", "unknown"} \subseteq AgentStatus
    BY DEF AgentStatus
  <1>4. /\ Outcome(row) \in Standing
        /\ Outcome(row).status = "done" => ~Outcome(row).acked
    BY OutcomeType
  <1>5. QED
    BY <1>1, <1>2, <1>3, <1>4 DEF Classify

LEMMA ClassType ==
  ASSUME NEW src \in Readable, NEW f \in Fact
  PROVE  \/ Class(src, f) = None
         \/ /\ Class(src, f) \in Standing
            /\ Class(src, f).status = "done" => ~Class(src, f).acked
  BY RowType, ClassifyType DEF Class

\* A request makes a thread blocked, whatever else its record says.
LEMMA RequestClass ==
  ASSUME NEW f \in Fact, source \in Readable, f.asks = "request", ~NoSession(f)
  PROVE  Class(source, f) # None /\ Class(source, f).status = "blocked"
  <1> DEFINE row == RowOf(source, f)
  <1>1. row \in Row /\ row # None
    BY RowType, NoneAssumption
  <1>2. row.asks
    BY <1>1 DEF RowOf, FeedRow, V2Row, V1Row
  <1>3. ~Hidden(row)
    BY <1>2 DEF Hidden
  <1>4. ~Dormant(row)
    <2>1. CASE source = "feed"
      BY <2>1 DEF RowOf, FeedRow, Dormant
    <2>2. CASE source = "v2"
      BY <2>2 DEF RowOf, V2Row, Dormant
    <2>3. CASE source = "v1"
      <3>1. f.run # "none" => Turn(f, StateName(f.run), f.started) \in TurnRow
        BY DEF Fact, Turn, TurnRow, StateName, RunState
      <3>2. /\ row.session = f.session
            /\ row.settled <=> f.settled \in {"auto", "settled"}
            /\ row.turn = IF f.run = "none" THEN None ELSE Turn(f, StateName(f.run), f.started)
        BY <2>3 DEF RowOf, V1Row
      <3>3. f.run \in Ended => row.turn # None
        BY <3>1, <3>2, NoneAssumption DEF Ended
      <3> HIDE DEF row
      <3>4. QED
        BY <2>3, <3>2, <3>3 DEF Dormant, NoSession
    <2>4. QED
      BY <2>1, <2>2, <2>3 DEF Readable
  <1>5. Class(source, f) = As("blocked", Started(row), FALSE)
    BY <1>1, <1>2, <1>3, <1>4 DEF Class, Classify
  <1>6. /\ As("blocked", Started(row), FALSE) \in Standing
        /\ As("blocked", Started(row), FALSE).status = "blocked"
    BY <1>1, RowTimes DEF As, Standing, AgentStatus
  <1>7. QED
    BY <1>5, <1>6, NoneAssumption

\* Whatever else is over, a run that ended is classified by its outcome, unless the thread
\* is hidden or dormant.
LEMMA QuietClass ==
  ASSUME NEW f \in Fact, source \in Readable, Quiet(f), f.finished > 0,
         Class(source, f) # None
  PROVE  /\ Seen(f) => Class(source, f).status = "idle" /\ Class(source, f).acked
         /\ ~Seen(f) => Class(source, f).status = "done" /\ ~Class(source, f).acked
  <1> DEFINE row == RowOf(source, f)
  <1>1. row \in Row /\ row # None
    BY RowType, NoneAssumption DEF Class
  <1>2. /\ ~row.asks /\ ~row.plan /\ ~row.work
        /\ row.session # "error"
        /\ row.settled = (f.settled \in {"auto", "settled"})
        /\ row.visited = IF source = "v1" THEN 0 ELSE f.visited
    BY <1>1 DEF RowOf, FeedRow, V2Row, V1Row, Quiet, Busy, Readable
  <1>3. StateOf(row) = f.run /\ Finish(row) = f.finished
    <2>1. \A started \in Nat : /\ Turn(f, StateName(f.run), started) \in TurnRow
                               /\ Turn(f, StateName(f.run), started).state = f.run
                               /\ Turn(f, StateName(f.run), started).finished = f.finished
      BY DEF Fact, Turn, TurnRow, StateName, RunState, Quiet, Ended
    <2>2. \E started \in Nat : row.turn = Turn(f, StateName(f.run), started)
      <3>1. f.updated \in Nat /\ f.started \in Nat /\ f.run # "none"
        BY DEF Fact, Quiet
      <3>2. row.turn \in {Turn(f, StateName(f.run), f.updated), Turn(f, StateName(f.run), f.started)}
        BY <1>1, <3>1 DEF RowOf, FeedRow, V2Row, V1Row
      <3>3. QED
        BY <3>1, <3>2
    <2>3. QED
      BY <2>1, <2>2, NoneAssumption DEF StateOf, Finish
  <1>4. Class(source, f) = Outcome(row)
    BY <1>1, <1>2, <1>3 DEF Class, Classify, Quiet
  <1>5. (row.settled \/ Visited(row)) <=> Seen(f)
    <2>1. f.visited \in Nat /\ f.finished \in Nat
      BY DEF Fact
    <2>2. row.settled <=> f.settled \in {"auto", "settled"}
      BY <1>2
    <2>3. CASE source = "v1"
      <3>1. row.visited = 0
        BY <1>2, <2>3
      <3>2. QED
        BY <2>2, <2>3, <3>1 DEF Seen, Visited
    <2>4. CASE source # "v1"
      <3>1. row.visited = f.visited
        BY <1>2, <2>4
      <3> HIDE DEF row
      <3>2. Visited(row) <=> f.visited >= f.finished
        BY <1>3, <2>1, <3>1 DEF Visited
      <3>3. QED
        BY <2>2, <2>4, <3>2 DEF Seen
    <2>5. QED
      BY <2>3, <2>4
  <1>6. QED
    BY <1>1, <1>4, <1>5, OutcomeType

\* An unseen outcome is hidden only by a snooze.
LEMMA UnseenClass ==
  ASSUME NEW f \in Fact, source \in Readable, Quiet(f), ~Seen(f), ~f.snoozed
  PROVE  Class(source, f) # None
  <1> DEFINE row == RowOf(source, f)
  <1>1. row \in Row /\ row # None
    BY RowType, NoneAssumption DEF Seen
  <1>2. ~Hidden(row)
    BY <1>1 DEF RowOf, FeedRow, V2Row, V1Row, Hidden
  <1>3. row.turn # None /\ ~row.settled
    <2>1. \A started \in Nat : Turn(f, StateName(f.run), started) \in TurnRow
      BY DEF Fact, Turn, TurnRow, StateName, RunState
    <2>2. QED
      BY <1>1, <2>1, NoneAssumption DEF RowOf, FeedRow, V2Row, V1Row, Quiet, Seen, Fact
  <1>4. ~Dormant(row)
    BY <1>3 DEF Dormant
  <1>5. Class(source, f) = Classify(row) /\ StateOf(row) = f.run
    BY <1>1, <1>3 DEF Class, StateOf, RowOf, FeedRow, V2Row, V1Row, Turn, StateName, Quiet
  <1>6. \A status \in AgentStatus, seq \in Nat, acked \in BOOLEAN : As(status, seq, acked) # None
    BY NoneAssumption DEF As, Standing
  <1>7. Outcome(row) # None
    BY <1>1, OutcomeType, NoneAssumption
  <1>8. Started(row) \in Nat /\ Finish(row) \in Nat
    BY <1>1, RowTimes
  <1>9. QED
    BY <1>2, <1>4, <1>5, <1>6, <1>7, <1>8 DEF Classify, Quiet, AgentStatus

----------------------------------------------------------------------------
(* What a reconciliation makes of them                                      *)

LEMMA EmptyFacts == DOMAIN Empty = {} /\ Live(Empty) = {}
  BY DEF Empty, Live

\* The threads that are found: each as it is classified, all of them with targets.
LEMMA FoundFacts ==
  ASSUME TypeOK
  PROVE  /\ DOMAIN Found = {t \in T3Thread : Class(source, fact[t]) # None}
         /\ Live(Found) = DOMAIN Found
         /\ \A t \in DOMAIN Found :
              /\ Class(source, fact[t]) \in Standing
              /\ Found[t].status = Class(source, fact[t]).status
              /\ Found[t].seq = Class(source, fact[t]).seq
              /\ Found[t].acked = Class(source, fact[t]).acked
              /\ Found[t].status = "done" => ~Found[t].acked
  <1>1. source \in Readable /\ \A t \in T3Thread : fact[t] \in Fact
    BY ThreadsAssumption DEF TypeOK, Readable
  <1>2. \A t \in T3Thread :
          Class(source, fact[t]) # None =>
            /\ Class(source, fact[t]) \in Standing
            /\ Class(source, fact[t]).status = "done" => ~Class(source, fact[t]).acked
    BY <1>1, ClassType
  <1>3. /\ DOMAIN Found = {t \in T3Thread : Class(source, fact[t]) # None}
        /\ \A t \in DOMAIN Found :
             /\ Found[t].status = Class(source, fact[t]).status
             /\ Found[t].seq = Class(source, fact[t]).seq
             /\ Found[t].acked = Class(source, fact[t]).acked
             /\ Found[t].live
    BY DEF Found
  <1>4. QED
    BY <1>2, <1>3 DEF Live

\* The cards that stay have no targets, so nothing of them is observed anew.
LEMMA KeptFacts ==
  /\ DOMAIN Kept = DOMAIN cards /\ Live(Kept) = {}
  /\ \A t \in DOMAIN cards : Kept[t].status = cards[t].status /\ Kept[t].review = cards[t].review
  BY DEF Kept, Live

\* No focus is known of T3 Code: a latch is cleared by its own records alone.
LEMMA ThreadLatch ==
  ASSUME NEW S, NEW O, NEW t
  PROVE  /\ Latch(S, O, Empty, t) \in BOOLEAN
         /\ S[t].acked => ~Latch(S, O, Empty, t)
         /\ /\ S[t].status = "done" /\ ~S[t].acked
            /\ t \in DOMAIN O /\ O[t].status = "done" => O[t].review
            => Latch(S, O, Empty, t)
  <1>1. ~FocusAcknowledges(S, Empty, t)
    BY EmptyFacts DEF FocusAcknowledges
  <1>2. QED
    BY <1>1 DEF Latch, Unchanged, NextReviewReady

----------------------------------------------------------------------------
(* The inductive invariant                                                  *)

\* A run that has ended ended at some time after the beginning.
Timed(f) == f.run \in Ended => f.finished > 0
TimesInv ==
    /\ \A t \in T3Thread : Timed(fact[t])
    /\ read # None => \A t \in T3Thread : Timed(read[t])

\* The cards and what is observed are one; done asks for review; and the cards are those
\* of the roster that was read last, though it could not be read since.
CardsInv ==
    /\ DOMAIN observed = DOMAIN cards
    /\ \A t \in DOMAIN cards :
          /\ observed[t].status = cards[t].status /\ observed[t].review = cards[t].review
          /\ cards[t].status = "done" => cards[t].review
    /\ read # None => \A t \in T3Thread :
          LET class == Class(source, read[t])
          IN  /\ t \in DOMAIN cards <=> class # None
              /\ t \in DOMAIN cards =>
                    cards[t].status = class.status /\ (class.acked => ~cards[t].review)

T3Inv == TypeOK /\ TimesInv /\ CardsInv

LEMMA T3Init == Init => T3Inv
  <1> SUFFICES ASSUME Init PROVE T3Inv
    OBVIOUS
  <1>1. New \in Fact /\ Timed(New)
    BY DEF New, Fact, RunState, Timed, Ended
  <1>2. TypeOK
    BY <1>1, EmptyFacts, ThreadsAssumption DEF Init, TypeOK, Empty
  <1>3. QED
    BY <1>1, <1>2, EmptyFacts DEF Init, T3Inv, TimesInv, CardsInv

\* A reading of T3 Code.
LEMMA T3Reads == T3Inv /\ Reads => T3Inv'
  <1> SUFFICES ASSUME T3Inv, Reads PROVE T3Inv'
    OBVIOUS
  <1> DEFINE latch(t) == Latch(Found, observed, Empty, t)
  <1>0. TypeOK /\ TimesInv /\ CardsInv /\ UNCHANGED t3 /\ read' = fact
    BY DEF T3Inv, Reads, Reconcile
  <1>1. /\ DOMAIN cards' = DOMAIN Found
        /\ \A t \in DOMAIN Found :
             cards'[t] = [status |-> Found[t].status, live |-> Found[t].live, review |-> latch(t)]
    BY <1>0, FoundFacts DEF Reads, Reconcile, NextCards
  <1>2. /\ DOMAIN observed' = DOMAIN Found
        /\ \A t \in DOMAIN Found :
             observed'[t] = [status |-> Found[t].status, seq |-> Found[t].seq, review |-> latch(t)]
    BY <1>0, FoundFacts DEF Reads, Reconcile, NextObserved
  <1>3. \A t \in DOMAIN Found : latch(t) \in BOOLEAN /\ Found[t].live \in BOOLEAN
    BY ThreadLatch DEF Found
  <1>4. \A t \in DOMAIN Found : Found[t].status \in AgentStatus /\ Found[t].seq \in Nat
    BY <1>0, FoundFacts DEF Standing
  <1> HIDE DEF latch
  <1>5. TypeOK'
    <2>1. cards' = [t \in DOMAIN cards' |-> cards'[t]] /\ observed' = [t \in DOMAIN observed' |-> observed'[t]]
      BY DEF Reads, Reconcile, NextCards, NextObserved
    <2>2. cards' \in [DOMAIN cards' -> [status : AgentStatus, live : BOOLEAN, review : BOOLEAN]]
      BY <1>1, <1>3, <1>4, <2>1
    <2>3. observed' \in [DOMAIN observed' -> [status : AgentStatus, seq : Nat, review : BOOLEAN]]
      BY <1>2, <1>3, <1>4, <2>1
    <2>4. QED
      BY <1>0, <1>1, <1>2, <2>2, <2>3, FoundFacts DEF TypeOK, t3
  <1>6. TimesInv'
    BY <1>0 DEF TimesInv, t3
  <1>7. CardsInv'
    <2>1. \A t \in DOMAIN Found : Found[t].status = "done" => latch(t)
      BY <1>0, FoundFacts, ThreadLatch DEF CardsInv, latch
    <2>2. \A t \in DOMAIN Found : Found[t].acked => ~latch(t)
      BY ThreadLatch DEF latch
    <2>3. QED
      BY <1>0, <1>1, <1>2, <2>1, <2>2, FoundFacts DEF CardsInv, t3
  <1>8. QED
    BY <1>5, <1>6, <1>7 DEF T3Inv

\* T3 Code cannot be read: the cards stay, and so does what was observed.
LEMMA T3Unreadable == T3Inv /\ Unreadable => T3Inv'
  <1> SUFFICES ASSUME T3Inv, Unreadable PROVE T3Inv'
    OBVIOUS
  <1>1. TypeOK /\ TimesInv /\ CardsInv /\ UNCHANGED <<t3, read>>
    BY DEF T3Inv, Unreadable, Reconcile
  <1>2. DOMAIN observed' = DOMAIN observed /\ \A t \in DOMAIN observed : observed'[t] = observed[t]
    BY <1>1, KeptFacts DEF Unreadable, Reconcile, NextObserved, CardsInv
  <1>3. /\ DOMAIN cards' = DOMAIN cards
        /\ \A t \in DOMAIN cards : cards'[t] = [status |-> cards[t].status, live |-> FALSE,
                                                review |-> observed[t].review]
    <2>1. \A t \in DOMAIN Kept : ~Kept[t].live
      BY DEF Kept
    <2>2. QED
      BY <1>1, <2>1, KeptFacts DEF Unreadable, Reconcile, NextCards, CardsInv, Kept
  <1>4. TypeOK'
    <2>1. cards' = [t \in DOMAIN cards' |-> cards'[t]] /\ observed' = [t \in DOMAIN observed' |-> observed'[t]]
      BY DEF Unreadable, Reconcile, NextCards, NextObserved
    <2>2. \A t \in DOMAIN cards : cards[t].status \in AgentStatus /\ observed[t].review \in BOOLEAN
      BY <1>1 DEF TypeOK, CardsInv
    <2>3. cards' \in [DOMAIN cards' -> [status : AgentStatus, live : BOOLEAN, review : BOOLEAN]]
      <3>1. ASSUME NEW t \in DOMAIN cards'
            PROVE  cards'[t] \in [status : AgentStatus, live : BOOLEAN, review : BOOLEAN]
        <4>1. \A s \in AgentStatus, r \in BOOLEAN :
                 [status |-> s, live |-> FALSE, review |-> r]
                    \in [status : AgentStatus, live : BOOLEAN, review : BOOLEAN]
          OBVIOUS
        <4>2. /\ cards[t].status \in AgentStatus /\ observed[t].review \in BOOLEAN
              /\ cards'[t] = [status |-> cards[t].status, live |-> FALSE,
                              review |-> observed[t].review]
          BY <1>3, <2>2
        <4>3. QED
          BY <4>1, <4>2
      <3>2. QED
        BY <2>1, <3>1
    <2>4. observed' \in [DOMAIN observed' -> [status : AgentStatus, seq : Nat, review : BOOLEAN]]
      BY <1>1, <1>2, <2>1 DEF TypeOK
    <2>5. QED
      BY <1>1, <1>2, <1>3, <2>3, <2>4 DEF TypeOK, t3
  <1>5. CardsInv'
    BY <1>1, <1>2, <1>3 DEF CardsInv, t3
  <1>6. QED
    BY <1>1, <1>4, <1>5 DEF T3Inv, TimesInv, t3

LEMMA T3Gone == T3Inv /\ Gone => T3Inv'
  <1> SUFFICES ASSUME T3Inv, Gone PROVE T3Inv'
    OBVIOUS
  <1>1. TypeOK /\ TimesInv /\ CardsInv /\ UNCHANGED t3 /\ read' = None
    BY DEF T3Inv, Gone, Reconcile
  <1>2. cards' = [t \in {} |-> cards'[t]] /\ observed' = [t \in {} |-> observed'[t]]
    BY EmptyFacts DEF Gone, Reconcile, NextCards, NextObserved
  <1>3. DOMAIN cards' = {} /\ DOMAIN observed' = {}
    BY EmptyFacts DEF Gone, Reconcile, NextCards, NextObserved
  <1>4. QED
    BY <1>1, <1>2, <1>3 DEF T3Inv, TypeOK, TimesInv, CardsInv, t3

\* T3 Code's own steps keep its records well formed; no card depends on them.
LEMMA T3Update ==
  ASSUME T3Inv, NEW t \in T3Thread, NEW f \in Fact, Timed(f), Update(t, f)
  PROVE  T3Inv'
  <1>1. time' \in 0 .. MaxTime /\ time' = time + 1 /\ time + 1 \in Nat
    BY ThreadsAssumption DEF T3Inv, TypeOK, Update
  <1>2. [f EXCEPT !.updated = time + 1] \in Fact /\ Timed([f EXCEPT !.updated = time + 1])
    BY <1>1 DEF Fact, Timed
  <1>3. fact' \in [T3Thread -> Fact] /\ \A u \in T3Thread : Timed(fact'[u])
    BY <1>2 DEF T3Inv, TypeOK, TimesInv, Update
  <1>4. UNCHANGED <<source, read, cards, observed>>
    BY DEF Update
  <1>5. QED
    BY <1>1, <1>3, <1>4 DEF T3Inv, TypeOK, TimesInv, CardsInv

LEMMA T3Steps == T3Inv /\ T3Code => T3Inv'
  <1> SUFFICES ASSUME T3Inv, NEW t \in T3Thread,
                      \/ RunStarts(t) \/ RunEnds(t) \/ RunTurns(t) \/ Asks(t) \/ WorksBehind(t)
                      \/ Visits(t) \/ Settles(t) \/ Snoozes(t) \/ SessionChanges(t)
               PROVE  T3Inv'
    BY DEF T3Code
  <1>1. fact[t] \in Fact /\ Timed(fact[t]) /\ time + 1 \in Nat /\ time + 1 > 0
    BY DEF T3Inv, TypeOK, TimesInv
  <1>2. CASE RunStarts(t)
    <2>1. PICK state \in {"queued", "running"} :
            Update(t, [fact[t] EXCEPT !.run = state, !.started = time + 1, !.session = "running"])
      BY <1>2 DEF RunStarts
    <2> DEFINE f == [fact[t] EXCEPT !.run = state, !.started = time + 1, !.session = "running"]
    <2>2. f \in Fact /\ Timed(f)
      BY <1>1 DEF Fact, RunState, Timed, Ended
    <2> HIDE DEF f
    <2>3. QED
      BY <2>1, <2>2, T3Update DEF f
  <1>3. CASE RunEnds(t)
    <2>1. PICK state \in Ended :
            Update(t, [fact[t] EXCEPT !.run = state, !.finished = time + 1,
                                      !.session = IF state = "error" THEN "error" ELSE "ready"])
      BY <1>3 DEF RunEnds
    <2> DEFINE f == [fact[t] EXCEPT !.run = state, !.finished = time + 1,
                                    !.session = IF state = "error" THEN "error" ELSE "ready"]
    <2>2. f \in Fact /\ Timed(f)
      BY <1>1 DEF Fact, RunState, Timed, Ended
    <2> HIDE DEF f
    <2>3. QED
      BY <2>1, <2>2, T3Update DEF f
  <1>4. CASE Asks(t)
    <2>1. PICK asks \in {"nothing", "request", "plan"} : Update(t, [fact[t] EXCEPT !.asks = asks])
      BY <1>4 DEF Asks
    <2>2. [fact[t] EXCEPT !.asks = asks] \in Fact /\ Timed([fact[t] EXCEPT !.asks = asks])
      BY <1>1 DEF Fact, Timed
    <2>3. QED
      BY <2>1, <2>2, T3Update
  <1>5. CASE WorksBehind(t)
    <2>1. /\ [fact[t] EXCEPT !.work = ~@] \in Fact
          /\ Timed([fact[t] EXCEPT !.work = ~@])
      BY <1>1 DEF Fact, Timed
    <2>2. QED
      BY <1>5, <2>1, T3Update DEF WorksBehind
  <1>6. CASE Visits(t)
    <2>1. /\ [fact[t] EXCEPT !.visited = time + 1] \in Fact
          /\ Timed([fact[t] EXCEPT !.visited = time + 1])
      BY <1>1 DEF Fact, Timed
    <2>2. QED
      BY <1>6, <2>1, T3Update DEF Visits
  <1>7. CASE Settles(t)
    <2>1. /\ [fact[t] EXCEPT !.settled = "reopened"] \in Fact
          /\ Timed([fact[t] EXCEPT !.settled = "reopened"])
          /\ \A how \in {"auto", "settled"} :
               /\ [fact[t] EXCEPT !.settled = how, !.settledAt = time + 1] \in Fact
               /\ Timed([fact[t] EXCEPT !.settled = how, !.settledAt = time + 1])
      BY <1>1 DEF Fact, Timed
    <2>2. QED
      BY <1>7, <2>1, T3Update DEF Settles
  <1>8. CASE Snoozes(t)
    <2>1. /\ [fact[t] EXCEPT !.snoozed = ~@] \in Fact
          /\ Timed([fact[t] EXCEPT !.snoozed = ~@])
      BY <1>1 DEF Fact, Timed
    <2>2. QED
      BY <1>8, <2>1, T3Update DEF Snoozes
  <1>9. CASE SessionChanges(t)
    <2>1. \A session \in {"running", "ready", "stopped", "error"} :
             /\ [fact[t] EXCEPT !.session = session] \in Fact
             /\ Timed([fact[t] EXCEPT !.session = session])
      BY <1>1 DEF Fact, Timed
    <2>2. QED
      BY <1>9, <2>1, T3Update DEF SessionChanges
  <1>10. CASE RunTurns(t)
    <2>1. PICK state \in {"other", "blocked"} : Update(t, [fact[t] EXCEPT !.run = state])
      BY <1>10 DEF RunTurns
    <2>2. [fact[t] EXCEPT !.run = state] \in Fact /\ Timed([fact[t] EXCEPT !.run = state])
      BY <1>1 DEF Fact, RunState, Timed, Ended
    <2>3. QED
      BY <2>1, <2>2, T3Update
  <1>11. QED
    BY <1>2, <1>3, <1>4, <1>5, <1>6, <1>7, <1>8, <1>9, <1>10

LEMMA T3Always == Spec => []T3Inv
  <1>1. T3Inv /\ UNCHANGED vars => T3Inv'
    BY DEF T3Inv, TypeOK, TimesInv, CardsInv, vars, t3
  <1>2. T3Inv /\ [Next]_vars => T3Inv'
    BY <1>1, T3Reads, T3Unreadable, T3Gone, T3Steps DEF Next
  <1>3. QED
    BY <1>2, T3Init, PTL DEF Spec

----------------------------------------------------------------------------
(* What the portal promises                                                 *)

\* Every state is well typed: whatever is read of T3 Code, by whichever source, the cards
\* are those of its threads and what is observed is of cards on the roster.
THEOREM ThreadsTypeCorrect == Spec => []TypeOK
  BY T3Always, PTL DEF T3Inv

\* A request a person has to answer is on the portal before every card that waits for
\* nobody, whatever else the records of a thread that is not snoozed say, for any number
\* of threads.
THEOREM RequestsShown == Spec => []RequestsAreShown
  <1>1. T3Inv => RequestsAreShown
    <2> SUFFICES ASSUME T3Inv, read # None, NEW t \in T3Thread,
                        read[t].asks = "request", ~read[t].snoozed, ~NoSession(read[t])
                 PROVE  /\ t \in DOMAIN cards
                        /\ Ahead(cards[t], States(Status \ {"blocked"}, BOOLEAN))
      BY DEF RequestsAreShown, Known
    <2>1. read[t] \in Fact /\ source \in Readable
      BY ThreadsAssumption DEF T3Inv, TypeOK, Readable
    <2>2. t \in DOMAIN cards /\ cards[t].status = "blocked"
      BY <2>1, RequestClass DEF T3Inv, CardsInv
    <2>3. AttentionRank(cards[t]) = 0
      BY <2>2 DEF AttentionRank, StatusRank
    <2>4. \A other \in States(Status \ {"blocked"}, BOOLEAN) : 0 < AttentionRank(other)
      BY DEF States, Status, AttentionRank, StatusRank
    <2>5. QED
      BY <2>2, <2>3, <2>4 DEF Ahead
  <1>2. QED
    BY <1>1, T3Always, PTL

\* A run that ended and that nobody has looked at or settled asks for review, before every
\* card that asks for nothing, for any number of threads and every history of each.
THEOREM UnseenOutcomesAsk == Spec => []UnseenOutcomeAsks
  <1>1. T3Inv => UnseenOutcomeAsks
    <2> SUFFICES ASSUME T3Inv, read # None, NEW t \in T3Thread,
                        Quiet(read[t]), ~Seen(read[t]), ~read[t].snoozed
                 PROVE  /\ t \in DOMAIN cards /\ cards[t].review
                        /\ Ahead(cards[t], States(Status \ {"blocked"}, {FALSE}))
      BY DEF UnseenOutcomeAsks, Known
    <2>1. read[t] \in Fact /\ source \in Readable /\ read[t].finished > 0
      BY ThreadsAssumption DEF T3Inv, TypeOK, Readable, TimesInv, Timed, Quiet, Ended
    <2>2. t \in DOMAIN cards /\ cards[t].status = "done" /\ cards[t].review
      BY <2>1, UnseenClass, QuietClass DEF T3Inv, CardsInv
    <2>3. AttentionRank(cards[t]) = 1
      BY <2>2 DEF AttentionRank, StatusRank
    <2>4. \A other \in States(Status \ {"blocked"}, {FALSE}) : 1 < AttentionRank(other)
      <3>1. \A other \in States(Status \ {"blocked"}, {FALSE}) :
               /\ other.review = FALSE /\ other.status \in {"done", "working", "idle", "unknown"}
        BY DEF States, Status
      <3>2. QED
        BY <3>1 DEF AttentionRank, StatusRank
    <2>5. QED
      BY <2>2, <2>3, <2>4 DEF Ahead
  <1>2. QED
    BY <1>1, T3Always, PTL

\* An outcome its user has visited or settled asks no more and stands behind the threads
\* at work, and no later reading of the same records brings it back.
THEOREM SeenOutcomesAreQuiet == Spec => []SeenOutcomeIsQuiet
  <1>1. T3Inv => SeenOutcomeIsQuiet
    <2> SUFFICES ASSUME T3Inv, read # None, NEW t \in T3Thread,
                        Quiet(read[t]), Seen(read[t]), t \in DOMAIN cards
                 PROVE  /\ ~cards[t].review
                        /\ Ahead([status |-> "working", review |-> FALSE], {cards[t]})
      BY DEF SeenOutcomeIsQuiet, Known
    <2>1. read[t] \in Fact /\ source \in Readable /\ read[t].finished > 0
      BY ThreadsAssumption DEF T3Inv, TypeOK, Readable, TimesInv, Timed, Quiet, Ended
    <2>2. cards[t].status = "idle" /\ ~cards[t].review
      BY <2>1, QuietClass DEF T3Inv, CardsInv
    <2>3. QED
      BY <2>2 DEF Ahead, AttentionRank, StatusRank
  <1>2. QED
    BY <1>1, T3Always, PTL
=============================================================================
