------------------------- MODULE WindowChoiceProofs -------------------------
(***************************************************************************)
(* Which session a Herdr client serves is decided, for any command line    *)
(* and environment, and only a window of that session is focused for it.   *)
(* A choice that was focused is made again, and a complete focus history   *)
(* always decides.                                                         *)
(***************************************************************************)
EXTENDS WindowChoice, FiniteSetTheorems, WellFoundedInduction, TLAPS

\* A client serves one session at most, whether its command line, its environment or the
\* default decides: its window is never taken for that of another session.
THEOREM ClientServesOne ==
  ASSUME NEW a \in ArgumentRecord \cup {NotHerdr}, NEW env \in EnvironmentRecord,
         NEW s \in HerdrSession, NEW t \in HerdrSession,
         Serves(a, env, s), Serves(a, env, t)
  PROVE  s = t
  <1>1. CASE a.named # Unset
    BY <1>1 DEF Serves
  <1>2. CASE a.named = Unset /\ env.session # Unset
    BY <1>2 DEF Serves
  <1>3. CASE a.named = Unset /\ env.session = Unset /\ env.socket # Unset
    BY <1>3, WindowAssumption DEF Serves
  <1>4. CASE a.named = Unset /\ env.session = Unset /\ env.socket = Unset
    BY <1>4 DEF Serves
  <1>5. QED
    BY <1>1, <1>2, <1>3, <1>4

\* A preference narrows a choice, and never to nothing.
LEMMA NarrowKeeps ==
  ASSUME NEW S, NEW T
  PROVE  Narrow(S, T) \subseteq S /\ (S # {} => Narrow(S, T) # {})
  BY DEF Narrow

\* What is picked is one of the windows left, or the choice is refused.
LEMMA PickIsAmong ==
  ASSUME NEW S, NEW hist
  PROVE  Pick(S, hist) \in S \cup {Ambiguous}
  <1> DEFINE recent == IF Cardinality(S) = 1 THEN S
                       ELSE IF \E w \in S : hist[w] = NoHistory THEN {}
                       ELSE MostRecent(S, hist)
  <1>1. recent \subseteq S
    BY DEF MostRecent
  <1>2. CASE Cardinality(recent) = 1
    <2>1. recent # {}
      BY <1>2, FS_EmptySet
    <2>2. (CHOOSE w \in recent : TRUE) \in recent
      BY <2>1
    <2>3. QED
      BY <1>1, <1>2, <2>2 DEF Pick
  <1>3. CASE Cardinality(recent) # 1
    BY <1>3 DEF Pick
  <1>4. QED
    BY <1>2, <1>3

\* The window focused for a Herdr session hosts a client of that session; with none the
\* command fails and with several it is refused, and no other window is ever chosen.
THEOREM ChosenWindowHostsSession ==
  ASSUME NEW s \in HerdrSession, NEW hist, HerdrChoice(s, hist) \notin {Nothing, Ambiguous}
  PROVE  HerdrChoice(s, hist) \in DOMAIN hist \cap Hosts[s]
  <1> DEFINE S == DOMAIN hist \cap Hosts[s]
  <1>1. S # {} /\ HerdrChoice(s, hist) = Pick(Narrow(S, Hinted), hist)
    BY DEF HerdrChoice
  <1>2. Pick(Narrow(S, Hinted), hist) \in Narrow(S, Hinted) \cup {Ambiguous}
    BY PickIsAmong
  <1>3. QED
    BY <1>1, <1>2, NarrowKeeps

\* The window focused for a desktop application has that application's class.
THEOREM ChosenWindowIsTheApps ==
  ASSUME NEW a \in App, NEW hist, DesktopChoice(a, hist) \notin {Nothing, Ambiguous}
  PROVE  DesktopChoice(a, hist) \in DOMAIN hist /\ AppOf[DesktopChoice(a, hist)] = a
  <1> DEFINE S == {w \in DOMAIN hist : AppOf[w] = a}
             N == Narrow(Narrow(S, Main), Window \ Floating)
  <1>1. DesktopChoice(a, hist) = Pick(N, hist)
    BY DEF DesktopChoice
  <1>2. N \subseteq S
    BY NarrowKeeps
  <1>3. Pick(N, hist) \in N \cup {Ambiguous}
    BY PickIsAmong
  <1>4. QED
    BY <1>1, <1>2, <1>3

-----------------------------------------------------------------------------
(* Choosing again                                                           *)

\* A window that was picked is picked again when it comes to the front of the history and
\* the others keep one, behind it.
LEMMA PickedAgain ==
  ASSUME NEW S, NEW hist, NEW again,
         Pick(S, hist) \in S \ {Ambiguous},
         again[Pick(S, hist)] = 0,
         \A v \in S \ {Pick(S, hist)} :
            hist[v] # NoHistory => again[v] \in Nat \ {0}
  PROVE  Pick(S, again) = Pick(S, hist)
  <1> DEFINE w == Pick(S, hist)
  <1>1. CASE Cardinality(S) = 1
    BY <1>1 DEF Pick
  <1>2. CASE Cardinality(S) # 1
    <2>1. ~ \E v \in S : hist[v] = NoHistory
      <3>1. Cardinality({}) # 1
        BY FS_EmptySet
      <3>2. QED
        BY <1>2, <3>1 DEF Pick
    <2>2. w \in S /\ again[w] = 0 /\ \A v \in S \ {w} : again[v] \in Nat \ {0}
      BY <2>1
    <2> HIDE DEF w
    <2>3. ~ \E v \in S : again[v] = NoHistory
      BY <2>2, WindowAssumption
    <2>4. MostRecent(S, again) = {w}
      BY <2>2 DEF MostRecent
    <2>5. Cardinality({w}) = 1
      BY FS_Singleton
    <2>6. Pick(S, again) = w
      BY <1>2, <2>3, <2>4, <2>5 DEF Pick
    <2>7. QED
      BY <2>6 DEF w
  <1>3. QED
    BY <1>1, <1>2

LEMMA ChoiceAgain ==
  ASSUME NEW a \in App, NEW hist, NEW again, DOMAIN again = DOMAIN hist,
         DesktopChoice(a, hist) \notin {Nothing, Ambiguous},
         again[DesktopChoice(a, hist)] = 0,
         \A v \in DOMAIN hist \ {DesktopChoice(a, hist)} :
            hist[v] # NoHistory => again[v] \in Nat \ {0}
  PROVE  DesktopChoice(a, again) = DesktopChoice(a, hist)
  <1> DEFINE S == {w \in DOMAIN hist : AppOf[w] = a}
             N == Narrow(Narrow(S, Main), Window \ Floating)
  <1>1. S # {} /\ DesktopChoice(a, hist) = Pick(N, hist) /\ DesktopChoice(a, again) = Pick(N, again)
    BY DEF DesktopChoice
  <1>2. N \subseteq DOMAIN hist
    BY NarrowKeeps
  <1>3. Pick(N, hist) \in N \ {Ambiguous}
    BY <1>1, PickIsAmong
  <1> HIDE DEF N
  <1>4. again[Pick(N, hist)] = 0
    BY <1>1
  <1>5. \A v \in N \ {Pick(N, hist)} : hist[v] # NoHistory => again[v] \in Nat \ {0}
    BY <1>1, <1>2
  <1>6. Pick(N, again) = Pick(N, hist)
    BY <1>3, <1>4, <1>5, PickedAgain
  <1>7. QED
    BY <1>1, <1>6

-----------------------------------------------------------------------------
(* A complete history decides                                               *)

Smaller == {p \in Nat \X Nat : p[1] < p[2]}

LEMMA SmallestOf ==
  ASSUME NEW T, T \subseteq Nat, T # {}
  PROVE  \E x \in T : \A y \in T : x <= y
  <1>1. OpToRel(<, Nat) = Smaller
    BY DEF OpToRel, Smaller
  <1>2. IsWellFoundedOn(Smaller, Nat)
    BY <1>1, NatLessThanWellFounded
  <1>3. PICK x \in T : \A y \in T : ~(<<y, x>> \in Smaller)
    BY <1>2, WFMin
  <1>4. ASSUME NEW y \in T PROVE x <= y
    <2>1. <<y, x>> \notin Smaller /\ <<y, x>> \in Nat \X Nat
      BY <1>3
    <2>2. ~(y < x)
      BY <2>1 DEF Smaller
    <2>3. QED
      BY <2>2
  <1>5. QED
    BY <1>4

\* Each window of S has a place in the focus history, and no two the same.
RanksAll(S, hist) ==
    /\ \A w \in S : hist[w] \in Nat
    /\ \A v, w \in S : hist[v] = hist[w] => v = w

\* Windows that all have a place of their own are never refused: one is the most recent.
LEMMA PickDecides ==
  ASSUME NEW S, NEW hist, S # {}, RanksAll(S, hist)
  PROVE  Pick(S, hist) \in S
  <1>1. CASE Cardinality(S) = 1
    BY <1>1 DEF Pick
  <1>2. CASE Cardinality(S) # 1
    <2> DEFINE T == {hist[w] : w \in S}
    <2>1. T \subseteq Nat /\ T # {}
      BY DEF RanksAll
    <2> HIDE DEF T
    <2>2. PICK x \in T : \A y \in T : x <= y
      BY <2>1, SmallestOf
    <2>3. PICK w \in S : hist[w] = x
      BY DEF T
    <2>4. \A v \in S : hist[w] <= hist[v]
      BY <2>2, <2>3 DEF T
    <2>5. \A v \in S : hist[v] <= hist[w] => v = w
      BY <2>4 DEF RanksAll
    <2>6. MostRecent(S, hist) = {w}
      BY <2>4, <2>5 DEF MostRecent
    <2>7. ~ \E v \in S : hist[v] = NoHistory
      BY WindowAssumption DEF RanksAll
    <2>8. Cardinality({w}) = 1
      BY FS_Singleton
    <2>9. QED
      BY <1>2, <2>6, <2>7, <2>8 DEF Pick
  <1>3. QED
    BY <1>1, <1>2

\* An application whose windows all have a place in the history gets one of them, however
\* its windows are titled or tiled.
LEMMA DesktopDecides ==
  ASSUME NEW a \in App, NEW hist, DOMAIN hist \subseteq Window,
         RanksAll({w \in DOMAIN hist : AppOf[w] = a}, hist)
  PROVE  DesktopChoice(a, hist) # Ambiguous
  <1> DEFINE S == {w \in DOMAIN hist : AppOf[w] = a}
             N == Narrow(Narrow(S, Main), Window \ Floating)
  <1>1. CASE S = {}
    BY <1>1, WindowAssumption DEF DesktopChoice
  <1>2. CASE S # {}
    <2>1. N \subseteq S /\ N # {}
      BY <1>2, NarrowKeeps
    <2>2. DesktopChoice(a, hist) = Pick(N, hist)
      BY <1>2 DEF DesktopChoice
    <2> HIDE DEF N
    <2>3. RanksAll(N, hist)
      BY <2>1 DEF RanksAll
    <2>4. Pick(N, hist) \in Window
      BY <2>1, <2>3, PickDecides
    <2>5. QED
      BY <2>2, <2>4, WindowAssumption
  <1>3. QED
    BY <1>1, <1>2

\* And so does a Herdr session.
LEMMA HerdrDecides ==
  ASSUME NEW s \in HerdrSession, NEW hist, DOMAIN hist \subseteq Window,
         RanksAll(DOMAIN hist \cap Hosts[s], hist)
  PROVE  HerdrChoice(s, hist) # Ambiguous
  <1> DEFINE S == DOMAIN hist \cap Hosts[s]
             N == Narrow(S, Hinted)
  <1>1. CASE S = {}
    BY <1>1, WindowAssumption DEF HerdrChoice
  <1>2. CASE S # {}
    <2>1. N \subseteq S /\ N # {}
      BY <1>2, NarrowKeeps
    <2>2. HerdrChoice(s, hist) = Pick(N, hist)
      BY <1>2 DEF HerdrChoice
    <2> HIDE DEF N, S
    <2>3. RanksAll(N, hist)
      BY <2>1 DEF RanksAll, S
    <2>4. Pick(N, hist) \in Window
      BY <2>1, <2>3, PickDecides DEF S
    <2>5. QED
      BY <2>2, <2>4, WindowAssumption
  <1>3. QED
    BY <1>1, <1>2
=============================================================================
