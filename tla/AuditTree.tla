----------------------------- MODULE AuditTree -----------------------------
(***************************************************************************)
(* What the audit trail of an organization promises under any interleaving *)
(* of its writers: it only grows, and every event names as its predecessor *)
(* the genesis value or an older event that is itself in the trail.  The   *)
(* events form a tree rooted in genesis; nothing here makes it a chain.    *)
(*                                                                         *)
(* An event is [at, prev]: its created_at, which identifies it, and the    *)
(* created_at of the event whose hash it carries as prev_hash.             *)
(***************************************************************************)
EXTENDS Naturals

VARIABLE tree

Genesis   == 0
Stamps(S) == {e.at : e \in S}

\* e may join the trail S: its predecessor is there and older.
Rooted(S, e) == e.prev \in {Genesis} \cup Stamps(S) /\ e.prev < e.at

Init == tree = {}

Grow ==
    /\ tree \subseteq tree'
    /\ \A e \in tree' \ tree : e.at \notin Stamps(tree) /\ Rooted(tree', e)

Spec == Init /\ [][Grow]_tree
=============================================================================
