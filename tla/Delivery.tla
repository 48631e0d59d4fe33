------------------------------ MODULE Delivery ------------------------------
(***************************************************************************)
(* What an outbox promises, without cycles, locks, timers or retries       *)
(* (outbox_item.py:10-15): an accepted order stays open until it is        *)
(* settled once and for all, and it is settled as delivered only when the  *)
(* point of sale has received it.                                          *)
(***************************************************************************)
CONSTANT Items

VARIABLES
  stage,      \* what has been decided about an item
  received    \* the items the point of sale has registered

Stages == {"absent", "open", "delivered", "abandoned"}

TypeOK == stage \in [Items -> Stages] /\ received \subseteq Items

Init == stage = [i \in Items |-> "absent"] /\ received = {}

Submit(i) ==
  /\ stage[i] = "absent"
  /\ stage' = [stage EXCEPT ![i] = "open"]
  /\ UNCHANGED received

(* A submitted order reaches the point of sale, once, perhaps after it was *)
(* given up.                                                               *)
Receive(i) ==
  /\ stage[i] # "absent" /\ i \notin received
  /\ received' = received \cup {i}
  /\ UNCHANGED stage

(* One transaction may settle several open items.                          *)
Settle(delivered, abandoned) ==
  /\ delivered \subseteq received
  /\ delivered \cap abandoned = {}
  /\ \A i \in delivered \cup abandoned : stage[i] = "open"
  /\ stage' = [i \in Items |-> IF i \in delivered THEN "delivered"
                               ELSE IF i \in abandoned THEN "abandoned" ELSE stage[i]]
  /\ UNCHANGED received

Next ==
  \/ \E i \in Items : Submit(i) \/ Receive(i)
  \/ \E delivered, abandoned \in SUBSET Items : Settle(delivered, abandoned)

Spec == Init /\ [][Next]_<<stage, received>>

=============================================================================
