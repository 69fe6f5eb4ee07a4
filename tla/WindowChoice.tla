---------------------------- MODULE WindowChoice ----------------------------
(***************************************************************************)
(* Which compositor window the daemon focuses (desktop.rs): the one of a   *)
(* desktop application by its class, narrowed by title, tiling and focus   *)
(* history; the one of a Herdr session by the client process in its tree.  *)
(* More than one window left, or an incomplete history, is an error.       *)
(***************************************************************************)
EXTENDS Naturals, FiniteSets

CONSTANTS
    App,            \* desktop applications
    Window,         \* compositor windows
    AppOf,          \* the application whose class a window has, if any
    Main,           \* windows with their application's main title
    Floating,       \* windows that float
    Hinted,         \* windows whose class or title has the Herdr hint
    Process,        \* process identifiers
    PidOf,          \* of each window
    Parent,         \* of each process
    Arguments,      \* of each process: a record, or NotHerdr
    Environment,    \* of each process
    HerdrSession,        \* Herdr session names
    SocketOf,       \* the socket of each session
    Default,        \* the session named "default"
    Unset, NotHerdr, NoHistory, Nothing, Ambiguous

\* How many parents is_descendant follows.
MaxHops == 32

\* The arguments of a Herdr client, as interactive_herdr_session reads them:
\* the one name given with --session or "session attach", and whether there is
\* anything else but --handoff, a second name included.
ArgumentRecord == [named : HerdrSession \cup {Unset}, other : BOOLEAN]
EnvironmentRecord == [session : HerdrSession \cup {Unset},
                      socket : {SocketOf[s] : s \in HerdrSession} \cup {Unset}]

ASSUME WindowAssumption ==
    /\ AppOf \in [Window -> App \cup {Nothing}]
    /\ Main \subseteq Window /\ Floating \subseteq Window /\ Hinted \subseteq Window
    /\ Process \subseteq Nat /\ PidOf \in [Window -> Nat] /\ Parent \in [Process -> Nat]
    /\ Arguments \in [Process -> ArgumentRecord \cup {NotHerdr}]
    /\ Environment \in [Process -> EnvironmentRecord]
    /\ Default \in HerdrSession /\ Unset \notin HerdrSession
    /\ \A s \in HerdrSession : SocketOf[s] # Unset
    /\ \A s, t \in HerdrSession : SocketOf[s] = SocketOf[t] => s = t
    /\ NoHistory \notin Nat /\ {Nothing, Ambiguous} \cap Window = {}
    /\ Nothing \notin App /\ Nothing # Ambiguous

-----------------------------------------------------------------------------
\* The session a Herdr client serves.

\* A client of the local persistent session: no subcommand, no remote or
\* informational flag, at most one session name.
Interactive(a) == a # NotHerdr /\ ~a.other

\* The name on the command line counts, unless the environment contradicts
\* it; without one the environment decides, and without either the session
\* is the default one.
Serves(a, env, s) ==
    /\ Interactive(a)
    /\ env.session \in {Unset, s}
    /\ IF a.named # Unset THEN a.named = s
       ELSE /\ env.socket \in {Unset, SocketOf[s]}
            /\ env.session = Unset /\ env.socket = Unset => s = Default

\* The processes from p up, as far as the table knows them; never init.
Ancestors(p) ==
    LET above[k \in 0..MaxHops - 1] ==
            IF k = 0 THEN {p}
            ELSE {Parent[q] : q \in {x \in above[k - 1] \cap Process : Parent[x] > 1}}
    IN UNION {above[k] : k \in 0..MaxHops - 1}

\* The windows that host a client of each session: the process table.
Hosts ==
    [s \in HerdrSession |->
        {w \in Window : \E p \in Process :
            PidOf[w] \in Ancestors(p) /\ Serves(Arguments[p], Environment[p], s)}]

-----------------------------------------------------------------------------
\* The choice among windows; hist gives the focus history of those mapped,
\* 0 for the focused one.

\* A preference that no window meets is no preference.
Narrow(S, T) == IF S \cap T = {} THEN S ELSE S \cap T

\* Mutant: the window focused longest ago.
LeastRecent(S, hist) == {w \in S : \A v \in S : hist[w] >= hist[v]}

MostRecent(S, hist) == {w \in S : \A v \in S : hist[w] <= hist[v]}

Pick(S, hist) ==
    LET recent == IF Cardinality(S) = 1 THEN S
                  ELSE IF \E w \in S : hist[w] = NoHistory THEN {}
                  ELSE MostRecent(S, hist)
    IN IF Cardinality(recent) = 1 THEN CHOOSE w \in recent : TRUE ELSE Ambiguous

DesktopChoice(a, hist) ==
    LET S == {w \in DOMAIN hist : AppOf[w] = a}
    IN IF S = {} THEN Nothing
       ELSE Pick(Narrow(Narrow(S, Main), Window \ Floating), hist)

HerdrChoice(s, hist) ==
    LET S == DOMAIN hist \cap Hosts[s]
    IN IF S = {} THEN Nothing ELSE Pick(Narrow(S, Hinted), hist)
=============================================================================
