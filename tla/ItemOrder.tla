----------------------------- MODULE ItemOrder -----------------------------
(***************************************************************************)
(* How both outboxes order work: items are numbered in the order they were *)
(* enqueued, which is the order of created_at (create_date in the table),  *)
(* and a batch is the head of that order.                                  *)
(***************************************************************************)
EXTENDS Naturals, FiniteSets

(* The item a batch is started, or continued, with.                        *)
Oldest(S) == CHOOSE i \in S : \A j \in S : i <= j

(* The first n of S in created_at order.                                   *)
FirstOf(S, n) == {i \in S : Cardinality({j \in S : j < i}) < n}

=============================================================================
