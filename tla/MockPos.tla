------------------------------ MODULE MockPos ------------------------------
(***************************************************************************)
(* The point-of-sale service the outbox delivers to, and the HTTP adapter  *)
(* in front of it (tools/mock_pos/mock_pos_service.py and                  *)
(* octa_hub_api/lib/mock_pos_adapter.py).                                  *)
(*                                                                         *)
(* The service keeps two maps behind one lock: the orders it registered,   *)
(* by external order id, and the external id each idempotency key was      *)
(* first used for.  It never forgets either (reset_state is a test hook).  *)
(* A payload is represented by the outbox item it belongs to, so that      *)
(* posOrders also says WHOSE order is registered under an external id.     *)
(***************************************************************************)
EXTENDS Naturals

CONSTANTS
  Items,    \* outbox items, each with its own payload
  ExtIds,   \* external order ids
  ExtId,    \* the external order id in each item's payload
  None      \* "no value"

ASSUME ExtIdAssumption == ExtId \in [Items -> ExtIds]
ASSUME NoneAssumption == None \notin Items /\ None \notin ExtIds

VARIABLES
  posOrders,   \* whose payload is registered under an external id, or None
  posKeys,     \* the external id an idempotency key was used for, or None
  effects      \* history: how often an order was created under an external id

posVars == <<posOrders, posKeys, effects>>

(* The adapter derives the key from the external id alone.                 *)
IdempotencyKey(e) == <<"outbox", e>>

Keys == {IdempotencyKey(e) : e \in ExtIds}

PosTypeOK ==
  /\ posOrders \in [ExtIds -> Items \cup {None}]
  /\ posKeys \in [Keys -> ExtIds \cup {None}]
  /\ effects \in [ExtIds -> Nat]

PosInit ==
  /\ posOrders = [e \in ExtIds |-> None]
  /\ posKeys = [k \in Keys |-> None]
  /\ effects = [e \in ExtIds |-> 0]

(* A mutant: the service does not recognise repeats.                       *)
PostReply_MutantNoDuplicateCheck(k, e) == 201

(* The status the service answers a POST with: a known key is recognised   *)
(* before the external id is looked at.                                    *)
PostReply(k, e) ==
  IF posKeys[k] # None THEN IF posKeys[k] = e THEN 200 ELSE 409
  ELSE IF posOrders[e] # None THEN 409
  ELSE 201

(* The service handles the POST of item i.  The lock makes this one step;  *)
(* the answer may still be lost on its way (the service's drop hook, or    *)
(* the network), which is the caller's concern.                            *)
PosPost(i) ==
  LET e == ExtId[i]
      k == IdempotencyKey(e)
  IN  IF PostReply(k, e) = 201
      THEN /\ posOrders' = [posOrders EXCEPT ![e] = i]
           /\ posKeys' = [posKeys EXCEPT ![k] = e]
           /\ effects' = [effects EXCEPT ![e] = @ + 1]
      ELSE UNCHANGED posVars

(* What the adapter makes of a delivered answer to its POST ...            *)
PostOutcome(i) ==
  IF PostReply(IdempotencyKey(ExtId[i]), ExtId[i]) \in {200, 201}
  THEN "success" ELSE "failure"

(* ... and to its GET by external reference: 404 is not a refusal.  An     *)
(* item without a reference is refused before anything is sent.            *)
QueryOutcome(ref) ==
  IF ref = None THEN "failure"
  ELSE IF posOrders[ref] # None THEN "success"
  ELSE "unknown"

=============================================================================
