------------------------------ MODULE MCOutbox ------------------------------
(* Small instances of Outbox for TLC: two worker threads, and one or two   *)
(* items whose external ids differ or are shared.                          *)
EXTENDS Outbox, TLC

CONSTANTS e1, e2

OwnExtIds == [i \in Items |-> IF i = 1 THEN e1 ELSE e2]

SharedExtId == [i \in Items |-> e1]

(* Worker threads are interchangeable.                                     *)
WorkerSymmetry == Permutations(Workers)
=============================================================================
