--------------------------- MODULE MCOutboxTable ---------------------------
(* Small instances of OutboxTable for TLC: two cron workers, and items     *)
(* whose external ids differ.                                              *)
EXTENDS OutboxTable, TLC

CONSTANTS e1, e2

OwnExtIds == [i \in Items |-> IF i = 1 THEN e1 ELSE e2]

(* Workers are interchangeable.                                            *)
WorkerSymmetry == Permutations(Workers)
=============================================================================
