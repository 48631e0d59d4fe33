-------------------------- MODULE MCOrderIngress --------------------------
(* Small instances of OrderIngress for TLC: three events on one key, and   *)
(* one that fails a check.                                                 *)
EXTENDS OrderIngress, TLC

AllOneKey == [e \in Events |-> "k"]

(* e1 and e2 are the same order, of which e2 gives the total as a float,   *)
(* which the column keeps as an integer; e3 has other items.               *)
ThreeContents ==
  [e \in Events |-> CASE e = "e2" -> "pizza, 30.0" [] e = "e3" -> "burger, 30"
                      [] OTHER -> "pizza, 30"]

IntegerTotals == [c \in Contents |-> IF c = "pizza, 30.0" THEN "pizza, 30" ELSE c]

OnlyE4Refused ==
  [e \in Events |-> IF e = "e4" THEN "validation_error" ELSE Accepted]
=============================================================================
