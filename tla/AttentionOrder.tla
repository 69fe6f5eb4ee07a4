--------------------------- MODULE AttentionOrder ---------------------------
(***************************************************************************)
(* The order of the cards (model.rs sort_agents, runtime.rs                *)
(* apply_agent_order): by what needs attention first, or as the manager    *)
(* groups them.                                                            *)
(***************************************************************************)
EXTENDS Naturals

Status == {"blocked", "done", "working", "idle", "unknown"}

\* id stands for the identifier, of which only the order counts.
Card == [status : Status, review : BOOLEAN, seq : Nat, at : Nat, id : Nat]

StatusRank(status) ==
    CASE status = "blocked" -> 0 [] status = "done" -> 1 [] status = "working" -> 2
      [] status = "idle" -> 3 [] OTHER -> 4

\* Done counts only while it asks for review.
AttentionRank(card) ==
    CASE card.review /\ card.status \in {"done", "idle"} -> StatusRank("done")
      [] ~card.review /\ card.status = "done" -> StatusRank("idle")
      [] OTHER -> StatusRank(card.status)

Grouped(a, b) == a.at < b.at \/ (a.at = b.at /\ a.id < b.id)

\* The latest change of a rank first.
ByAttention(a, b) ==
    \/ AttentionRank(a) < AttentionRank(b)
    \/ /\ AttentionRank(a) = AttentionRank(b)
       /\ a.seq > b.seq \/ (a.seq = b.seq /\ Grouped(a, b))

Before(order, a, b) ==
    IF order = "grouped" THEN Grouped(a, b) ELSE ByAttention(a, b)
=============================================================================
