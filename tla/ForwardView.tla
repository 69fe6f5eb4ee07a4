---------------------------- MODULE ForwardView ----------------------------
(***************************************************************************)
(* What a portal may show, told by its position alone: the daemon run, the *)
(* action sequence and the time of the snapshot.  It moves forward in that *)
(* order, or the portal itself starts afresh.                              *)
(***************************************************************************)
EXTENDS Naturals

CONSTANT Nothing    \* the portal has no snapshot

VARIABLE view

View == [epoch : Nat, seq : Nat, gen : Nat]

Later(v, w) ==
    \/ v.epoch > w.epoch
    \/ v.epoch = w.epoch /\ v.seq > w.seq
    \/ v.epoch = w.epoch /\ v.seq = w.seq /\ v.gen > w.gen

Init == view = Nothing

Show == view' \in View /\ (view # Nothing => Later(view', view))
Forget == view' = Nothing

Spec == Init /\ [][Show \/ Forget]_view
=============================================================================
