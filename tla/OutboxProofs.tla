---------------------------- MODULE OutboxProofs ----------------------------
(***************************************************************************)
(* What holds of Outbox for every set of items and workers, every batch    *)
(* size and every cap.                                                     *)
(***************************************************************************)
EXTENDS Outbox, WellFoundedInduction, TLAPS

USE DEF Keys, IdempotencyKey

-----------------------------------------------------------------------------
(* A set of items has an oldest one: the item a worker is working on is    *)
(* one of its batch.                                                       *)
LEMMA OldestIsMember ==
  ASSUME NEW S \in SUBSET Items, S # {}
  PROVE  Oldest(S) \in S
<1>1. IsWellFoundedOn(OpToRel(<, Nat), Nat)
  BY NatLessThanWellFounded
<1>2. S \subseteq Nat
  BY ItemsAssumption
<1>3. PICK i \in S : \A j \in S : ~(<<j, i>> \in OpToRel(<, Nat))
  BY <1>1, <1>2, WFMin
<1>4. \A j \in S : ~(j < i)
  <2>. SUFFICES ASSUME NEW j \in S, j < i PROVE FALSE
    OBVIOUS
  <2>1. <<j, i>> \in {ss \in Nat \X Nat : ss[1] < ss[2]}
    BY <1>2
  <2>2. QED
    BY <2>1, <1>3, Zenon DEF OpToRel
<1>5. \A j \in S : i <= j
  BY <1>2, <1>4
<1>6. QED
  BY <1>5 DEF Oldest

(* FirstOf selects from the set it is given.                               *)
LEMMA FirstOfIsSubset ==
  ASSUME NEW S, NEW n
  PROVE  FirstOf(S, n) \subseteq S
BY DEF FirstOf

-----------------------------------------------------------------------------
(* The control state of the workers: a worker is in a cycle exactly while  *)
(* it has items left, and it has a verdict only about one of them.         *)
Control ==
  \A w \in Workers :
    /\ mode[w] = "idle" <=> batch[w] = {}
    /\ mode[w] = "idle" => verdict[w] = None
    /\ mode[w] = "dispatch" => verdict[w] \in {None, "done", "failed", "awaiting"}
    /\ mode[w] = "query" => verdict[w] \in {None, "done", "failed", "inconclusive"}

Shape == TypeOK /\ Control

(* The records the outbox writes are item records.                         *)
LEMMA ReclaimedType ==
  ASSUME NEW r \in ItemRecord
  PROVE  Reclaimed(r) \in ItemRecord
BY DEF Reclaimed, ItemRecord, Statuses

LEMMA ClaimedType ==
  ASSUME NEW r \in ItemRecord, NEW w \in Workers
  PROVE  Claimed(r, w) \in ItemRecord
BY DEF Claimed, ItemRecord, Statuses

LEMMA MarkedType ==
  ASSUME NEW r \in ItemRecord, NEW v \in Verdicts, NEW i \in Items
  PROVE  Marked(r, v, i) \in ItemRecord
<1>1. MarkDone(r) \in ItemRecord
  BY DEF MarkDone, ItemRecord, Statuses
<1>2. MarkFailed(r) \in ItemRecord
  <2>1. r.attempts + 1 \in Nat
    BY DEF ItemRecord
  <2>2. (IF r.attempts + 1 >= MaxAttempts THEN "dead_letter" ELSE "pending") \in Statuses
    BY DEF Statuses
  <2>3. QED
    BY <2>1, <2>2, Zenon DEF MarkFailed, ItemRecord
<1>3. MarkAwaiting(r, ExtId[i]) \in ItemRecord
  BY ExtIdAssumption DEF MarkAwaiting, ItemRecord, Statuses
<1>4. MarkInconclusive(r) \in ItemRecord
  <2>1. r.queries + 1 \in Nat
    BY DEF ItemRecord
  <2>2. "dead_letter" \in Statuses /\ "awaiting_confirmation" \in Statuses
    BY DEF Statuses
  <2>3. QED
    BY <2>1, <2>2, Zenon DEF MarkInconclusive, ItemRecord
<1>5. QED
  BY <1>1, <1>2, <1>3, <1>4 DEF Marked, Verdicts

LEMMA NewItemType == NewItem \in ItemRecord /\ AbsentItem \in ItemRecord
BY DEF NewItem, AbsentItem, ItemRecord, Statuses

(* A POST leaves the point of sale's maps well formed.                     *)
LEMMA PosPostType ==
  ASSUME PosTypeOK, NEW i \in Items, PosPost(i)
  PROVE  PosTypeOK'
BY ExtIdAssumption DEF PosTypeOK, PosPost, posVars

(* A worker in a cycle works on an item of its batch.                      *)
LEMMA CurrentInBatch ==
  ASSUME Shape, NEW w \in Workers, mode[w] # "idle"
  PROVE  Current(w) \in batch[w] /\ Current(w) \in Items
BY OldestIsMember DEF Shape, TypeOK, Control, Current

LEMMA InitShape == Init => Shape
<1>. SUFFICES ASSUME Init PROVE Shape
  OBVIOUS
<1>1. item \in [Items -> ItemRecord]
  BY NewItemType DEF Init
<1>2. PosTypeOK
  BY DEF Init, PosInit, PosTypeOK
<1>3. stops \in 0 .. MaxStops
  BY LimitsAssumption DEF Init
<1>4. QED
  BY <1>1, <1>2, <1>3 DEF Init, Shape, TypeOK, Control

LEMMA NextShape == Shape /\ [Next]_vars => Shape'
<1>. SUFFICES ASSUME Shape, [Next]_vars PROVE Shape'
  OBVIOUS
<1>. USE DEF Shape
<1>1. ASSUME NEW i \in Items, Enqueue(i) PROVE Shape'
  BY <1>1, NewItemType DEF Enqueue, workerVars, posVars, TypeOK, PosTypeOK, Control
<1>2. ASSUME NEW i \in Items, TimerLapses(i) PROVE Shape'
  <2>1. [item[i] EXCEPT !.due = TRUE] \in ItemRecord
    BY DEF TypeOK, ItemRecord
  <2>2. item' = [item EXCEPT ![i] = [item[i] EXCEPT !.due = TRUE]]
    BY <1>2 DEF TimerLapses, TypeOK, ItemRecord
  <2>3. overrun' \in BOOLEAN
    BY <1>2 DEF TimerLapses, TypeOK
  <2>4. QED
    BY <1>2, <2>1, <2>2, <2>3
       DEF TimerLapses, workerVars, posVars, TypeOK, PosTypeOK, Control
<1>3. ASSUME NEW i \in Items, LateArrival(i) PROVE Shape'
  <2>1. PosTypeOK'
    BY <1>3, PosPostType DEF LateArrival, TypeOK, posVars, PosTypeOK
  <2>2. QED
    BY <1>3, <2>1 DEF LateArrival, workerVars, TypeOK, Control
<1>4. ASSUME NEW w \in Workers, ClaimBatch(w) PROVE Shape'
  <2>. DEFINE reclaimed == [i \in Items |-> Reclaimed(item[i])]
              taken == DispatchClaim(reclaimed)
  <2>1. taken \subseteq Items
    BY FirstOfIsSubset DEF DispatchClaim
  <2>2. \A i \in Items : reclaimed[i] \in ItemRecord
    BY ReclaimedType DEF TypeOK
  <2>3. item' \in [Items -> ItemRecord]
    <3>1. item' = [i \in Items |-> IF i \in taken THEN Claimed(reclaimed[i], w)
                                   ELSE reclaimed[i]]
      BY <1>4 DEF ClaimBatch
    <3>2. QED
      BY <3>1, <2>2, ClaimedType
  <2>4. /\ batch' = [batch EXCEPT ![w] = taken]
        /\ mode' = [mode EXCEPT ![w] = IF taken = {} THEN "idle" ELSE "dispatch"]
        /\ mode[w] = "idle"
        /\ UNCHANGED <<verdict, late, stops, overrun, posVars>>
    BY <1>4 DEF ClaimBatch
  <2>. HIDE DEF reclaimed, taken
  <2>5. TypeOK'
    BY <2>1, <2>3, <2>4 DEF TypeOK, PosTypeOK, posVars
  <2>6. Control'
    BY <2>1, <2>4 DEF TypeOK, Control
  <2>7. QED
    BY <2>5, <2>6
<1>5. ASSUME NEW w \in Workers, ClaimForQuery(w) PROVE Shape'
  <2>1. QueryClaim \subseteq Items
    BY FirstOfIsSubset DEF QueryClaim
  <2>2. QED
    BY <1>5, <2>1 DEF ClaimForQuery, posVars, TypeOK, PosTypeOK, Control
<1>6. ASSUME NEW w \in Workers, Dispatch(w) PROVE Shape'
  <2>1. Current(w) \in Items
    BY <1>6, CurrentInBatch DEF Dispatch
  <2>2. \E o \in {"success", "failure", "unknown", "raised"} :
          verdict' = [verdict EXCEPT ![w] = DispatchVerdict(o)]
    BY <1>6 DEF Dispatch, PostOutcome
  <2>3. PosTypeOK'
    BY <1>6, <2>1, PosPostType DEF Dispatch, TypeOK, posVars, PosTypeOK
  <2>4. late' \subseteq Items
    BY <1>6, <2>1 DEF Dispatch, TypeOK
  <2>5. \A o \in {"success", "failure", "unknown", "raised"} :
          DispatchVerdict(o) \in {"done", "failed", "awaiting"}
    BY DEF DispatchVerdict
  <2>6. mode[w] = "dispatch" /\ UNCHANGED <<item, mode, batch, stops, overrun>>
    BY <1>6 DEF Dispatch
  <2>7. PICK v \in {"done", "failed", "awaiting"} : verdict' = [verdict EXCEPT ![w] = v]
    BY <2>2, <2>5
  <2>8. QED
    BY <2>3, <2>4, <2>6, <2>7 DEF TypeOK, Control, Verdicts
<1>7. ASSUME NEW w \in Workers, Query(w) PROVE Shape'
  <2>1. PICK o \in {"success", "failure", "unknown", "raised"} :
          verdict' = [verdict EXCEPT ![w] = QueryVerdict(o)]
    BY <1>7 DEF Query, QueryOutcome
  <2>2. QueryVerdict(o) \in {"done", "failed", "inconclusive"}
    BY DEF QueryVerdict
  <2>3. mode[w] = "query" /\ UNCHANGED <<item, mode, batch, late, stops, overrun, posVars>>
    BY <1>7 DEF Query
  <2>4. QED
    BY <2>1, <2>2, <2>3 DEF TypeOK, PosTypeOK, Control, Verdicts, posVars
<1>8. ASSUME NEW w \in Workers, Record(w) PROVE Shape'
  <2>1. mode[w] # "idle" /\ verdict[w] \in Verdicts
    BY <1>8 DEF Record, TypeOK, Control
  <2>2. Current(w) \in batch[w] /\ Current(w) \in Items
    BY <2>1, CurrentInBatch
  <2>3. Marked(item[Current(w)], verdict[w], Current(w)) \in ItemRecord
    BY <2>1, <2>2, MarkedType DEF TypeOK
  <2>4. /\ item' = [item EXCEPT ![Current(w)] =
                      Marked(item[Current(w)], verdict[w], Current(w))]
        /\ batch' = [batch EXCEPT ![w] = @ \ {Current(w)}]
        /\ verdict' = [verdict EXCEPT ![w] = None]
        /\ mode' = [mode EXCEPT ![w] = IF batch[w] = {Current(w)} THEN "idle" ELSE @]
        /\ UNCHANGED <<late, stops, overrun, posVars>>
    BY <1>8, <2>2 DEF Record, TypeOK
  <2>5. TypeOK'
    BY <2>3, <2>4 DEF TypeOK, PosTypeOK, posVars
  <2>6. Control'
    BY <2>1, <2>2, <2>4 DEF TypeOK, Control
  <2>7. QED
    BY <2>5, <2>6
<1>9. ASSUME NEW w \in Workers, Stop(w) PROVE Shape'
  BY <1>9, LimitsAssumption DEF Stop, posVars, TypeOK, PosTypeOK, Control
<1>10. CASE UNCHANGED vars
  BY <1>10 DEF vars, workerVars, posVars, TypeOK, PosTypeOK, Control
<1>11. QED
  BY <1>1, <1>2, <1>3, <1>4, <1>5, <1>6, <1>7, <1>8, <1>9, <1>10 DEF Next

(* The control invariant and the types hold in every reachable state.      *)
THEOREM TypeCorrect == Spec => [](TypeOK /\ Control)
<1>1. Shape => TypeOK /\ Control
  BY DEF Shape
<1>2. QED
  BY InitShape, NextShape, <1>1, PTL DEF Spec

-----------------------------------------------------------------------------
(* What marking an item for a verdict does to the fields the invariants    *)
(* speak of.                                                               *)
LEMMA MarkedFacts ==
  ASSUME NEW r \in ItemRecord, NEW v \in Verdicts, NEW i \in Items
  PROVE  LET m == Marked(r, v, i) IN
         /\ m.status = "done" <=> v = "done"
         /\ m.status \in {"pending", "awaiting_confirmation", "done", "dead_letter"}
         /\ m.reference = IF v = "awaiting" THEN ExtId[i] ELSE r.reference
         /\ m.status = "pending" => v = "failed" /\ m.attempts < MaxAttempts
         /\ m.status = "awaiting_confirmation" => v \in {"awaiting", "inconclusive"}
         /\ m.status = "dead_letter" =>
              m.attempts >= MaxAttempts \/ m.queries >= MaxQueryAttempts
<1>1. r.attempts \in Nat /\ r.queries \in Nat
  BY DEF ItemRecord
<1>2. CASE v = "done"
  BY <1>2 DEF Marked, MarkDone, ItemRecord
<1>3. CASE v = "failed"
  <2>1. Marked(r, v, i) = MarkFailed(r)
    BY <1>3 DEF Marked
  <2>2. /\ MarkFailed(r).attempts = r.attempts + 1
        /\ MarkFailed(r).reference = r.reference
        /\ MarkFailed(r).status = IF r.attempts + 1 >= MaxAttempts
                                  THEN "dead_letter" ELSE "pending"
    BY Zenon DEF MarkFailed, ItemRecord
  <2>3. r.attempts + 1 >= MaxAttempts \/ r.attempts + 1 < MaxAttempts
    BY <1>1, LimitsAssumption
  <2>4. QED
    BY <1>3, <2>1, <2>2, <2>3
<1>4. CASE v = "awaiting"
  BY <1>4 DEF Marked, MarkAwaiting, ItemRecord
<1>5. CASE v = "inconclusive"
  BY <1>1, <1>5, LimitsAssumption DEF Marked, MarkInconclusive, ItemRecord
<1>6. QED
  BY <1>2, <1>3, <1>4, <1>5 DEF Verdicts

(* A step of the outbox changes the record of an item in one of five ways. *)
LEMMA ItemStep ==
  ASSUME Shape, [Next]_vars, NEW i \in Items
  PROVE  \/ item'[i] = item[i]
         \/ item[i].status = "absent" /\ item'[i] = NewItem
         \/ item'[i] = [item[i] EXCEPT !.due = TRUE]
         \/ item'[i] = Reclaimed(item[i])
         \/ \E w \in Workers : /\ ClaimBatch(w)
                              /\ Reclaimed(item[i]).status = "pending"
                              /\ item'[i] = Claimed(Reclaimed(item[i]), w)
         \/ \E w \in Workers : /\ Record(w) /\ i = Current(w)
                              /\ item'[i] = Marked(item[i], verdict[w], i)
<1>0. item \in [Items -> ItemRecord]
  BY DEF Shape, TypeOK
<1>1. ASSUME NEW j \in Items, Enqueue(j) PROVE item'[i] = item[i] \/
             (item[i].status = "absent" /\ item'[i] = NewItem)
  BY <1>0, <1>1 DEF Enqueue
<1>2. ASSUME NEW j \in Items, TimerLapses(j) PROVE item'[i] = item[i] \/
             item'[i] = [item[i] EXCEPT !.due = TRUE]
  BY <1>0, <1>2 DEF TimerLapses
<1>3. ASSUME NEW w \in Workers, ClaimBatch(w)
      PROVE  \/ item'[i] = Reclaimed(item[i])
             \/ /\ Reclaimed(item[i]).status = "pending"
                /\ item'[i] = Claimed(Reclaimed(item[i]), w)
  <2>. DEFINE reclaimed == [j \in Items |-> Reclaimed(item[j])]
              taken == DispatchClaim(reclaimed)
  <2>1. item' = [j \in Items |-> IF j \in taken THEN Claimed(reclaimed[j], w)
                                 ELSE reclaimed[j]]
    BY <1>3 DEF ClaimBatch
  <2>2. i \in taken => reclaimed[i].status = "pending"
    BY FirstOfIsSubset DEF DispatchClaim
  <2>3. reclaimed[i] = Reclaimed(item[i])
    BY DEF Reclaimed
  <2>. HIDE DEF reclaimed, taken
  <2>4. QED
    BY <2>1, <2>2, <2>3
<1>4. ASSUME NEW w \in Workers, Record(w)
      PROVE  \/ item'[i] = item[i]
             \/ i = Current(w) /\ item'[i] = Marked(item[i], verdict[w], i)
  BY <1>0, <1>4 DEF Record
<1>5. ASSUME \/ \E j \in Items : LateArrival(j)
             \/ \E w \in Workers : ClaimForQuery(w) \/ Dispatch(w) \/ Query(w) \/ Stop(w)
             \/ UNCHANGED vars
      PROVE  item' = item
  BY <1>5 DEF LateArrival, ClaimForQuery, Dispatch, Query, Stop, vars
<1>6. QED
  BY <1>1, <1>2, <1>3, <1>4, <1>5 DEF Next

(* The same steps seen from the point of sale: at most one POST.           *)
LEMMA PosStep ==
  ASSUME Shape, [Next]_vars
  PROVE  UNCHANGED posVars \/ \E i \in Items : PosPost(i)
<1>1. ASSUME NEW w \in Workers, Dispatch(w)
      PROVE  UNCHANGED posVars \/ \E i \in Items : PosPost(i)
  <2>1. Current(w) \in Items
    BY <1>1, CurrentInBatch DEF Dispatch
  <2>2. QED
    BY <1>1, <2>1 DEF Dispatch
<1>2. QED
  BY <1>1 DEF Next, Enqueue, TimerLapses, LateArrival, ClaimBatch, ClaimForQuery,
              Query, Record, Stop, vars

-----------------------------------------------------------------------------
(* The point of sale's two maps agree, an order is filed under its own     *)
(* external id, and it was created exactly once.  This is what makes every *)
(* retry safe: a registered order is recognised by its key.                *)
Registration ==
  \A e \in ExtIds :
    /\ posKeys[IdempotencyKey(e)] = IF posOrders[e] = None THEN None ELSE e
    /\ posOrders[e] # None => ExtId[posOrders[e]] = e
    /\ effects[e] = IF posOrders[e] = None THEN 0 ELSE 1

LEMMA PosPostRegistration ==
  ASSUME PosTypeOK, Registration, NEW i \in Items, PosPost(i)
  PROVE  /\ Registration'
         /\ posOrders'[ExtId[i]] # None
         /\ \A e \in ExtIds : posOrders[e] # None => posOrders'[e] = posOrders[e]
<1>. DEFINE x == ExtId[i]
<1>1. x \in ExtIds /\ x # None /\ i # None
  BY ExtIdAssumption, NoneAssumption
<1>2. CASE posOrders[x] = None
  <2>1. PostReply(IdempotencyKey(x), x) = 201
    BY <1>1, <1>2 DEF PostReply, Registration
  <2>2. /\ posOrders' = [posOrders EXCEPT ![x] = i]
        /\ posKeys' = [posKeys EXCEPT ![IdempotencyKey(x)] = x]
        /\ effects' = [effects EXCEPT ![x] = @ + 1]
    BY <2>1 DEF PosPost
  <2>3. QED
    BY <1>1, <1>2, <2>2 DEF Registration, PosTypeOK
<1>3. CASE posOrders[x] # None
  <2>1. PostReply(IdempotencyKey(x), x) = 200
    BY <1>1, <1>3 DEF PostReply, Registration
  <2>2. UNCHANGED posVars
    BY <2>1 DEF PosPost
  <2>3. QED
    BY <1>3, <2>2 DEF Registration, posVars
<1>4. QED
  BY <1>2, <1>3

LEMMA RegistrationStep ==
  ASSUME Shape, Registration, [Next]_vars
  PROVE  /\ Registration'
         /\ \A e \in ExtIds : posOrders[e] # None => posOrders'[e] = posOrders[e]
<1>1. PosTypeOK
  BY DEF Shape, TypeOK
<1>2. CASE UNCHANGED posVars
  BY <1>2 DEF Registration, posVars
<1>3. QED
  BY <1>1, <1>2, PosStep, PosPostRegistration

LEMMA InitRegistration == Init => Registration
<1>. SUFFICES ASSUME Init, NEW e \in ExtIds
             PROVE  /\ posOrders[e] = None /\ effects[e] = 0
                    /\ posKeys[IdempotencyKey(e)] = None
  BY DEF Registration
<1>1. QED
  BY DEF Init, PosInit

(* Retries, overtaken workers and late arrivals create an order at most    *)
(* once (outbox.py:20-23).                                                 *)
THEOREM EffectOnce == Spec => []EffectAtMostOnce
<1>1. Shape /\ Registration /\ [Next]_vars => Registration'
  BY RegistrationStep
<1>2. Registration => EffectAtMostOnce
  <2>1. Registration => \A e \in ExtIds : effects[e] \in {0, 1}
    BY Zenon DEF Registration
  <2>2. (\A e \in ExtIds : effects[e] \in {0, 1}) => EffectAtMostOnce
    BY DEF EffectAtMostOnce
  <2>3. QED
    BY <2>1, <2>2
<1>3. QED
  BY InitShape, NextShape, InitRegistration, <1>1, <1>2, PTL DEF Spec

-----------------------------------------------------------------------------
(* Both caps are respected (outbox.py:61-63).                              *)
LEMMA BudgetsStep ==
  ASSUME Shape, BudgetsRespected, [Next]_vars
  PROVE  BudgetsRespected'
<1>. SUFFICES ASSUME NEW i \in Items
              PROVE  /\ item'[i].status \in {"pending", "processing"} =>
                          item'[i].attempts < MaxAttempts
                     /\ item'[i].status = "dead_letter" =>
                          \/ item'[i].attempts >= MaxAttempts
                          \/ item'[i].queries >= MaxQueryAttempts
  BY DEF BudgetsRespected
<1>1. /\ item[i] \in ItemRecord
      /\ item[i].status \in {"pending", "processing"} => item[i].attempts < MaxAttempts
      /\ item[i].status = "dead_letter" => \/ item[i].attempts >= MaxAttempts
                                         \/ item[i].queries >= MaxQueryAttempts
  BY DEF Shape, TypeOK, BudgetsRespected
<1>2. CASE item'[i] = item[i]
  BY <1>1, <1>2
<1>3. CASE item'[i] = NewItem
  BY <1>3, LimitsAssumption DEF NewItem
<1>4. CASE item'[i] = [item[i] EXCEPT !.due = TRUE]
  BY <1>1, <1>4 DEF ItemRecord
<1>5. /\ Reclaimed(item[i]) \in ItemRecord
      /\ Reclaimed(item[i]).attempts = item[i].attempts
      /\ Reclaimed(item[i]).queries = item[i].queries
      /\ Reclaimed(item[i]).status \in {item[i].status, "pending"}
      /\ Reclaimed(item[i]).status = "pending" =>
           item[i].status \in {"pending", "processing"}
  BY <1>1, ReclaimedType DEF Reclaimed, ItemRecord
<1>6. CASE item'[i] = Reclaimed(item[i])
  BY <1>1, <1>5, <1>6
<1>7. ASSUME NEW w \in Workers, Reclaimed(item[i]).status = "pending",
             item'[i] = Claimed(Reclaimed(item[i]), w)
      PROVE  item'[i].status = "processing" /\ item'[i].attempts < MaxAttempts
  BY <1>1, <1>5, <1>7 DEF Claimed, ItemRecord
<1>8. ASSUME NEW w \in Workers, Record(w), i = Current(w),
             item'[i] = Marked(item[i], verdict[w], i)
      PROVE  /\ item'[i].status # "processing"
             /\ item'[i].status = "pending" => item'[i].attempts < MaxAttempts
             /\ item'[i].status = "dead_letter" =>
                  \/ item'[i].attempts >= MaxAttempts
                  \/ item'[i].queries >= MaxQueryAttempts
  <2>1. verdict[w] \in Verdicts
    BY <1>8 DEF Record, Shape, TypeOK
  <2>2. QED
    BY <1>1, <1>8, <2>1, MarkedFacts
<1>9. QED
  BY ItemStep, <1>2, <1>3, <1>4, <1>6, <1>7, <1>8

THEOREM BudgetsKept == Spec => []BudgetsRespected
<1>1. Init => BudgetsRespected
  <2>1. AbsentItem.status = "absent"
    BY DEF AbsentItem, NewItem
  <2>2. QED
    BY <2>1 DEF Init, BudgetsRespected
<1>2. Shape /\ BudgetsRespected /\ [Next]_vars => BudgetsRespected'
  BY BudgetsStep
<1>3. QED
  BY InitShape, NextShape, <1>1, <1>2, PTL DEF Spec

-----------------------------------------------------------------------------
(* An item that awaits confirmation, or that some query cycle still holds, *)
(* carries the reference it is asked about by, so the adapter never        *)
(* refuses the question.                                                   *)
References ==
  /\ AwaitingHasReference
  /\ \A i \in Items : item[i].status = "absent" => item[i].reference = None
  /\ \A w \in Workers : mode[w] = "query" =>
       /\ \A i \in batch[w] : item[i].reference = ExtId[i]
       /\ verdict[w] # "failed"

(* A DONE item, and a recorded or coming "done" verdict, has an order      *)
(* under its external id to show for it.                                   *)
Vouched ==
  /\ \A i \in Items : item[i].status = "done" => posOrders[ExtId[i]] # None
  /\ \A w \in Workers : verdict[w] = "done" => posOrders[ExtId[Current(w)]] # None

(* Until a claim has run out, an item in a dispatching worker's hands is   *)
(* PROCESSING, freshly claimed by that worker, and one that a query cycle  *)
(* holds has left the dispatch queue for good.                             *)
Exclusion ==
  ~overrun =>
    \A w \in Workers :
      /\ mode[w] = "dispatch" => \A i \in batch[w] :
           item[i].status = "processing" /\ item[i].claimedBy = w /\ ~item[i].due
      /\ mode[w] = "query" => \A i \in batch[w] :
           item[i].status \in {"awaiting_confirmation", "done", "dead_letter"}

-----------------------------------------------------------------------------
LEMMA InitInvariants == Init => References /\ Vouched /\ Exclusion
<1>. SUFFICES ASSUME Init PROVE References /\ Vouched /\ Exclusion
  OBVIOUS
<1>1. \A i \in Items : item[i].status = "absent" /\ item[i].reference = None
  <2>1. AbsentItem.status = "absent" /\ AbsentItem.reference = None
    BY DEF AbsentItem, NewItem
  <2>2. QED
    BY <2>1 DEF Init
<1>2. \A w \in Workers : mode[w] = "idle" /\ verdict[w] = None
  BY DEF Init
<1>3. None # "done"
  BY NoneIsNoValue DEF Verdicts
<1>4. References
  BY <1>1, <1>2 DEF References, AwaitingHasReference
<1>5. Vouched
  BY <1>1, <1>2, <1>3 DEF Vouched
<1>6. Exclusion
  BY <1>2 DEF Exclusion
<1>7. QED
  BY <1>4, <1>5, <1>6

(* References is inductive beside Shape.                                   *)
LEMMA ReferencesStep ==
  ASSUME Shape, References, [Next]_vars
  PROVE  References'
<1>. USE ExtIdAssumption, NoneAssumption
<1>1. item \in [Items -> ItemRecord] /\ batch \in [Workers -> SUBSET Items]
  BY DEF Shape, TypeOK
<1>2. ASSUME NEW i \in Items
      PROVE  /\ item'[i].status = "awaiting_confirmation" => item'[i].reference = ExtId[i]
             /\ item'[i].status = "absent" => item'[i].reference = None
             /\ item[i].reference = ExtId[i] => item'[i].reference = ExtId[i]
  <2>1. /\ item[i] \in ItemRecord
        /\ item[i].status = "awaiting_confirmation" => item[i].reference = ExtId[i]
        /\ item[i].status = "absent" => item[i].reference = None
        /\ ExtId[i] # None
    BY <1>1 DEF References, AwaitingHasReference
  <2>2. CASE item'[i] = item[i]
    BY <2>1, <2>2
  <2>3. CASE item[i].status = "absent" /\ item'[i] = NewItem
    BY <2>1, <2>3 DEF NewItem
  <2>4. CASE item'[i] = [item[i] EXCEPT !.due = TRUE]
    BY <2>1, <2>4 DEF ItemRecord
  <2>5. /\ Reclaimed(item[i]) \in ItemRecord
        /\ Reclaimed(item[i]).reference = item[i].reference
        /\ Reclaimed(item[i]).status \in {item[i].status, "pending"}
    BY <2>1, ReclaimedType DEF Reclaimed, ItemRecord
  <2>6. CASE item'[i] = Reclaimed(item[i])
    BY <2>1, <2>5, <2>6
  <2>7. ASSUME NEW w \in Workers, item'[i] = Claimed(Reclaimed(item[i]), w)
        PROVE  item'[i].status = "processing" /\ item'[i].reference = item[i].reference
    BY <2>5, <2>7 DEF Claimed, ItemRecord
  <2>8. ASSUME NEW w \in Workers, Record(w), i = Current(w),
               item'[i] = Marked(item[i], verdict[w], i)
        PROVE  /\ item'[i].status = "awaiting_confirmation" => item'[i].reference = ExtId[i]
               /\ item'[i].status # "absent"
               /\ item[i].reference = ExtId[i] => item'[i].reference = ExtId[i]
    <3>1. verdict[w] \in Verdicts /\ mode[w] # "idle"
      BY <2>8 DEF Record, Shape, TypeOK, Control
    <3>2. /\ item'[i].reference = IF verdict[w] = "awaiting" THEN ExtId[i] ELSE item[i].reference
          /\ item'[i].status # "absent"
          /\ item'[i].status = "awaiting_confirmation" =>
               verdict[w] \in {"awaiting", "inconclusive"}
      BY <2>1, <2>8, <3>1, MarkedFacts
    <3>3. CASE verdict[w] = "inconclusive"
      <4>1. mode[w] = "query"
        BY <3>1, <3>3, NoneIsNoValue DEF Verdicts, Shape, TypeOK, Control
      <4>2. item[i].reference = ExtId[i]
        BY <4>1, <2>8, <3>1, CurrentInBatch DEF References
      <4>3. QED
        BY <3>2, <3>3, <4>2
    <3>4. CASE verdict[w] # "inconclusive"
      BY <3>2, <3>4
    <3>5. QED
      BY <3>3, <3>4
  <2>9. QED
    BY ItemStep, <2>1, <2>2, <2>3, <2>4, <2>6, <2>7, <2>8
<1>3. ASSUME NEW w \in Workers, mode'[w] = "query"
      PROVE  /\ \A i \in batch'[w] : i \in Items /\ item[i].reference = ExtId[i]
             /\ verdict'[w] # "failed"
  <2>. DEFINE Goal == /\ \A i \in batch'[w] : i \in Items /\ item[i].reference = ExtId[i]
                      /\ verdict'[w] # "failed"
  <2>1. mode[w] = "query" => /\ \A i \in batch[w] : i \in Items /\ item[i].reference = ExtId[i]
                             /\ verdict[w] # "failed"
    BY <1>1 DEF References
  <2>2. CASE UNCHANGED <<mode, batch, verdict>>
    BY <1>3, <2>1, <2>2
  <2>3. ASSUME NEW u \in Workers, ClaimBatch(u) PROVE Goal
    BY <1>3, <2>1, <2>3 DEF ClaimBatch, Shape, TypeOK
  <2>4. ASSUME NEW u \in Workers, ClaimForQuery(u) PROVE Goal
    <3>1. \A i \in QueryClaim : i \in Items /\ item[i].reference = ExtId[i]
      BY FirstOfIsSubset DEF QueryClaim, References, AwaitingHasReference
    <3>2. u = w => verdict'[w] = None
      BY <2>4 DEF ClaimForQuery, Shape, Control
    <3>. USE NoneIsNoValue DEF Verdicts
    <3>3. QED
      BY <1>3, <2>1, <2>4, <3>1, <3>2 DEF ClaimForQuery, Shape, TypeOK
  <2>5. ASSUME NEW u \in Workers, Dispatch(u) PROVE Goal
    <3>1. u # w
      BY <1>3, <2>5 DEF Dispatch
    <3>2. verdict'[w] = verdict[w] /\ UNCHANGED <<mode, batch>>
      BY <2>5, <3>1 DEF Dispatch, Shape, TypeOK
    <3>3. QED
      BY <1>3, <2>1, <3>2
  <2>6. ASSUME NEW u \in Workers, Query(u) PROVE Goal
    <3>1. mode[u] = "query" /\ Current(u) \in batch[u]
      BY <2>6, CurrentInBatch DEF Query
    <3>2. item[Current(u)].reference # None
      BY <3>1, <1>1 DEF References
    <3>3. PICK o \in {"success", "unknown", "raised"} :
            verdict' = [verdict EXCEPT ![u] = QueryVerdict(o)]
      BY <2>6, <3>2 DEF Query, QueryOutcome
    <3>4. QueryVerdict(o) # "failed"
      BY DEF QueryVerdict
    <3>5. UNCHANGED <<mode, batch>>
      BY <2>6 DEF Query
    <3>6. QED
      BY <1>3, <2>1, <3>3, <3>4, <3>5 DEF Shape, TypeOK
  <2>7. ASSUME NEW u \in Workers, Record(u) PROVE Goal
    BY <1>3, <2>1, <2>7, NoneIsNoValue DEF Verdicts, Record, Shape, TypeOK
  <2>8. ASSUME NEW u \in Workers, Stop(u) PROVE Goal
    BY <1>3, <2>1, <2>8 DEF Stop, Shape, TypeOK
  <2>9. QED
    BY <2>2, <2>3, <2>4, <2>5, <2>6, <2>7, <2>8
       DEF Next, Enqueue, TimerLapses, LateArrival, workerVars, vars
<1>4. \A i \in Items : item'[i].status = "awaiting_confirmation" =>
                         item'[i].reference = ExtId[i]
  BY <1>2
<1>5. \A w \in Workers : mode'[w] = "query" =>
         /\ \A i \in batch'[w] : item'[i].reference = ExtId[i]
         /\ verdict'[w] # "failed"
  BY <1>2, <1>3
<1>6. QED
  BY <1>2, <1>4, <1>5 DEF References, AwaitingHasReference

(* An item that awaits confirmation can always be asked about.             *)
THEOREM AwaitingAskable == Spec => []AwaitingHasReference
<1>1. References => AwaitingHasReference
  BY DEF References
<1>2. QED
  BY InitShape, NextShape, InitInvariants, ReferencesStep, <1>1, PTL DEF Spec

-----------------------------------------------------------------------------
(* Vouched is inductive beside Shape, References and Registration.         *)
LEMMA VouchedStep ==
  ASSUME Shape, References, Registration, Vouched, [Next]_vars
  PROVE  Vouched'
<1>. USE ExtIdAssumption
<1>1. \A e \in ExtIds : posOrders[e] # None => posOrders'[e] # None
  BY RegistrationStep
<1>2. ASSUME NEW i \in Items, item'[i].status = "done"
      PROVE  posOrders'[ExtId[i]] # None
  <2>1. item[i] \in ItemRecord
    BY DEF Shape, TypeOK
  <2>2. CASE item[i].status = "done"
    BY <2>2, <1>1 DEF Vouched
  <2>3. CASE item[i].status # "done"
    <3>1. item'[i] # item[i]
      BY <1>2, <2>3
    <3>2. item'[i] # NewItem
      BY <1>2 DEF NewItem
    <3>3. item'[i] # [item[i] EXCEPT !.due = TRUE]
      BY <1>2, <2>1, <2>3 DEF ItemRecord
    <3>4. Reclaimed(item[i]) \in ItemRecord /\ Reclaimed(item[i]).status # "done"
      BY <2>1, <2>3, ReclaimedType DEF Reclaimed, ItemRecord
    <3>5. \A w \in Workers : item'[i] # Claimed(Reclaimed(item[i]), w)
      BY <1>2, <3>4 DEF Claimed, ItemRecord
    <3>6. PICK w \in Workers : /\ Record(w) /\ i = Current(w)
                               /\ item'[i] = Marked(item[i], verdict[w], i)
      BY <1>2, <3>1, <3>2, <3>3, <3>4, <3>5, ItemStep
    <3>7. verdict[w] \in Verdicts
      BY <3>6 DEF Record, Shape, TypeOK
    <3>8. verdict[w] = "done"
      BY <1>2, <2>1, <3>6, <3>7, MarkedFacts
    <3>9. QED
      BY <3>6, <3>8, <1>1 DEF Vouched
  <2>4. QED
    BY <2>2, <2>3
<1>3. ASSUME NEW w \in Workers, verdict'[w] = "done"
      PROVE  posOrders'[ExtId[Current(w)']] # None
  <2>. DEFINE Goal == posOrders'[ExtId[Current(w)']] # None
  <2>. USE NoneIsNoValue DEF Verdicts
  <2>1. ASSUME verdict[w] = "done", batch'[w] = batch[w] PROVE Goal
    <3>1. Current(w)' = Current(w)
      BY <2>1 DEF Current
    <3>2. Current(w) \in Items
      BY <2>1, CurrentInBatch DEF Shape, TypeOK, Control
    <3>3. QED
      BY <2>1, <3>1, <3>2, <1>1 DEF Vouched
  <2>2. CASE UNCHANGED <<batch, verdict>>
    BY <1>3, <2>1, <2>2
  <2>3. ASSUME NEW u \in Workers, ClaimBatch(u) \/ ClaimForQuery(u) PROVE Goal
    <3>1. verdict' = verdict /\ verdict[u] = None
      BY <2>3 DEF ClaimBatch, ClaimForQuery, Shape, Control
    <3>2. u # w /\ batch'[w] = batch[w]
      BY <1>3, <2>3, <3>1 DEF ClaimBatch, ClaimForQuery, Shape, TypeOK
    <3>3. QED
      BY <1>3, <2>1, <3>1, <3>2
  <2>4. ASSUME NEW u \in Workers, Dispatch(u) PROVE Goal
    <3>1. batch' = batch /\ Current(w)' = Current(w)
      BY <2>4 DEF Dispatch, Current
    <3>2. CASE u # w
      BY <1>3, <2>1, <2>4, <3>1, <3>2 DEF Dispatch, Shape, TypeOK
    <3>3. CASE u = w
      <4>1. Current(w) \in Items
        BY <2>4, <3>3, CurrentInBatch DEF Dispatch
      <4>2. \A o \in {"failure", "unknown", "raised"} :
               verdict' # [verdict EXCEPT ![w] = DispatchVerdict(o)]
        BY <1>3 DEF DispatchVerdict, Shape, TypeOK
      <4>3. PosPost(Current(w))
        BY <2>4, <3>3, <4>2 DEF Dispatch
      <4>4. posOrders'[ExtId[Current(w)]] # None
        BY <4>1, <4>3, PosPostRegistration DEF Shape, TypeOK
      <4>5. QED
        BY <3>1, <4>4
    <3>4. QED
      BY <3>2, <3>3
  <2>5. ASSUME NEW u \in Workers, Query(u) PROVE Goal
    <3>1. /\ batch' = batch /\ Current(w)' = Current(w)
          /\ posOrders' = posOrders
      BY <2>5 DEF Query, Current, posVars
    <3>2. CASE u # w
      BY <1>3, <2>1, <2>5, <3>1, <3>2 DEF Query, Shape, TypeOK
    <3>3. CASE u = w
      <4>1. Current(w) \in batch[w] /\ mode[w] = "query"
        BY <2>5, <3>3, CurrentInBatch DEF Query
      <4>2. item[Current(w)].reference = ExtId[Current(w)]
        BY <4>1 DEF References
      <4>3. \A o \in {"failure", "unknown", "raised"} :
               verdict' # [verdict EXCEPT ![w] = QueryVerdict(o)]
        BY <1>3 DEF QueryVerdict, Shape, TypeOK
      <4>4. QueryOutcome(item[Current(w)].reference) \notin {"failure", "unknown", "raised"}
        BY <2>5, <3>3, <4>3 DEF Query
      <4>5. posOrders[ExtId[Current(w)]] # None
        BY <4>2, <4>4 DEF QueryOutcome
      <4>6. QED
        BY <3>1, <4>5
    <3>4. QED
      BY <3>2, <3>3
  <2>6. ASSUME NEW u \in Workers, Record(u) \/ Stop(u) PROVE Goal
    <3>1. u # w
      BY <1>3, <2>6 DEF Record, Stop, Shape, TypeOK
    <3>2. batch'[w] = batch[w] /\ verdict'[w] = verdict[w]
      BY <2>6, <3>1 DEF Record, Stop, Shape, TypeOK
    <3>3. QED
      BY <1>3, <2>1, <3>2
  <2>7. QED
    BY <2>2, <2>3, <2>4, <2>5, <2>6
       DEF Next, Enqueue, TimerLapses, LateArrival, workerVars, vars
<1>4. QED
  BY <1>2, <1>3 DEF Vouched

(* A DONE item is registered at the point of sale with its own payload,    *)
(* provided no two items carry the same external id (outbox.py:43,         *)
(* 137-138) -- whatever was lost, late, retried or recorded late.          *)
THEOREM DoneIsRegistered == Spec => []DoneMeansRegistered
<1>1. Shape /\ Registration /\ Vouched => DoneMeansRegistered
  <2>. SUFFICES ASSUME Shape, Registration, Vouched, Injective,
                       NEW i \in Items, item[i].status = "done"
                PROVE  posOrders[ExtId[i]] = i
    BY DEF DoneMeansRegistered
  <2>1. ExtId[i] \in ExtIds /\ posOrders[ExtId[i]] # None
    BY ExtIdAssumption DEF Vouched
  <2>2. posOrders[ExtId[i]] \in Items /\ ExtId[posOrders[ExtId[i]]] = ExtId[i]
    BY <2>1 DEF Registration, Shape, TypeOK, PosTypeOK
  <2>3. QED
    BY <2>2 DEF Injective
<1>2. Shape /\ References /\ Registration /\ Vouched /\ [Next]_vars => Vouched'
  BY VouchedStep
<1>3. Shape /\ Registration /\ [Next]_vars => Registration'
  BY RegistrationStep
<1>4. QED
  BY InitShape, NextShape, InitRegistration, InitInvariants, ReferencesStep,
     <1>1, <1>2, <1>3, PTL DEF Spec

-----------------------------------------------------------------------------
(* Exclusion is inductive beside Shape and References.                     *)
LEMMA ExclusionStep ==
  ASSUME Shape, References, Exclusion, [Next]_vars, ~overrun'
  PROVE  Exclusion'
<1>. DEFINE Open == {"awaiting_confirmation", "done", "dead_letter"}
            Mine(r, w) == r.status = "processing" /\ r.claimedBy = w /\ ~r.due
<1>. USE NoneIsNoValue DEF Verdicts
<1>1. ~overrun
  BY DEF Next, Enqueue, TimerLapses, LateArrival, ClaimBatch, ClaimForQuery, Dispatch,
         Query, Record, Stop, vars
<1>2. /\ item \in [Items -> ItemRecord] /\ batch \in [Workers -> SUBSET Items]
      /\ mode \in [Workers -> {"idle", "dispatch", "query"}]
  BY DEF Shape, TypeOK
<1>3. \A w \in Workers :
        /\ mode[w] = "dispatch" => \A i \in batch[w] : Mine(item[i], w)
        /\ mode[w] = "query" => \A i \in batch[w] : item[i].status \in Open
  BY <1>1 DEF Exclusion
<1>. DEFINE Goal(w) ==
       /\ mode'[w] = "dispatch" => \A i \in batch'[w] : Mine(item'[i], w)
       /\ mode'[w] = "query" => \A i \in batch'[w] : item'[i].status \in Open
<1>4. ASSUME NEW w \in Workers, UNCHANGED <<item, mode, batch>> PROVE Goal(w)
  BY <1>3, <1>4
<1>5. ASSUME NEW w \in Workers, NEW j \in Items, Enqueue(j) PROVE Goal(w)
  <2>1. /\ item' = [item EXCEPT ![j] = NewItem] /\ item[j].status = "absent"
        /\ mode' = mode /\ batch' = batch
    BY <1>5 DEF Enqueue, workerVars
  <2>2. mode[w] # "idle" => j \notin batch[w]
    BY <1>2, <1>3, <2>1
  <2>3. \A i \in batch[w] : i # j => item'[i] = item[i]
    BY <1>2, <2>1
  <2>4. QED
    BY <1>2, <1>3, <2>1, <2>2, <2>3
<1>6. ASSUME NEW w \in Workers, NEW j \in Items, TimerLapses(j) PROVE Goal(w)
  <2>1. /\ item' = [item EXCEPT ![j].due = TRUE]
        /\ mode' = mode /\ batch' = batch
        /\ ~(item[j].status = "processing" /\ mode[w] = "dispatch" /\ j \in batch[w])
    BY <1>6 DEF TimerLapses, workerVars
  <2>2. mode[w] = "dispatch" => j \notin batch[w]
    BY <1>3, <2>1
  <2>3. \A i \in batch[w] : /\ i # j => item'[i] = item[i]
                            /\ item'[i].status = item[i].status
    BY <1>2, <2>1 DEF ItemRecord
  <2>4. QED
    BY <1>2, <1>3, <2>1, <2>2, <2>3
<1>7. ASSUME NEW w \in Workers, NEW u \in Workers, ClaimBatch(u) PROVE Goal(w)
  <2>. DEFINE reclaimed == [i \in Items |-> Reclaimed(item[i])]
              taken == DispatchClaim(reclaimed)
  <2>1. /\ item' = [i \in Items |-> IF i \in taken THEN Claimed(reclaimed[i], u)
                                    ELSE reclaimed[i]]
        /\ batch' = [batch EXCEPT ![u] = taken]
        /\ mode' = [mode EXCEPT ![u] = IF taken = {} THEN "idle" ELSE "dispatch"]
        /\ mode[u] = "idle"
    BY <1>7 DEF ClaimBatch
  <2>2. /\ taken \subseteq Items
        /\ \A i \in taken : reclaimed[i].status = "pending"
    BY FirstOfIsSubset DEF DispatchClaim
  <2>3. \A i \in Items : /\ Mine(item[i], w) => reclaimed[i] = item[i]
                         /\ item[i].status \in Open => reclaimed[i] = item[i]
                         /\ reclaimed[i] \in ItemRecord
    BY <1>2, ReclaimedType DEF Reclaimed
  <2>. HIDE DEF reclaimed, taken
  <2>4. CASE u = w
    <3>1. mode'[w] # "query"
      BY <1>2, <2>1, <2>4
    <3>2. \A i \in taken : Mine(Claimed(reclaimed[i], w), w)
      BY <2>2, <2>3 DEF Claimed, ItemRecord
    <3>3. QED
      BY <1>2, <2>1, <2>2, <2>4, <3>1, <3>2
  <2>5. CASE u # w
    <3>1. mode'[w] = mode[w] /\ batch'[w] = batch[w]
      BY <1>2, <2>1, <2>5
    <3>2. \A i \in Items : Mine(item[i], w) \/ item[i].status \in Open
                           => item'[i] = item[i]
      BY <2>1, <2>2, <2>3
    <3>3. QED
      BY <1>2, <1>3, <3>1, <3>2
  <2>6. QED
    BY <2>4, <2>5
<1>8. ASSUME NEW w \in Workers, NEW u \in Workers, ClaimForQuery(u) PROVE Goal(w)
  <2>1. \A i \in QueryClaim : i \in Items /\ item[i].status \in Open
    BY FirstOfIsSubset DEF QueryClaim
  <2>2. QED
    BY <1>2, <1>3, <1>8, <2>1 DEF ClaimForQuery
<1>9. ASSUME NEW w \in Workers, NEW u \in Workers, Record(u) PROVE Goal(w)
  <2>. DEFINE c == Current(u)
  <2>1. verdict[u] \in Verdicts /\ mode[u] # "idle" /\ c \in batch[u] /\ c \in Items
    BY <1>9, CurrentInBatch DEF Record, Shape, TypeOK, Control
  <2>2. /\ item' = [item EXCEPT ![c] = Marked(@, verdict[u], c)]
        /\ batch' = [batch EXCEPT ![u] = @ \ {c}]
        /\ mode' = [mode EXCEPT ![u] = IF batch[u] = {c} THEN "idle" ELSE @]
    BY <1>9 DEF Record
  <2>. HIDE DEF c
  <2>3. \A i \in Items : i # c => item'[i] = item[i]
    BY <1>2, <2>2
  <2>4. CASE c \notin batch'[w]
    BY <1>2, <1>3, <2>2, <2>3, <2>4
  <2>5. CASE c \in batch'[w]
    <3>1. u # w /\ batch'[w] = batch[w] /\ mode'[w] = mode[w]
      BY <1>2, <2>2, <2>5
    <3>2. mode[w] # "dispatch"
      BY <1>2, <1>3, <2>1, <2>5, <3>1
    <3>3. CASE mode[w] = "query"
      <4>1. mode[u] = "query"
        BY <1>2, <1>3, <2>1, <2>5, <3>1, <3>3
      <4>2. verdict[u] \in {"done", "failed", "inconclusive"}
        BY <2>1, <4>1 DEF Shape, Control
      <4>3. item'[c].status \in Open
        <5>1. item'[c] = Marked(item[c], verdict[u], c)
          BY <1>2, <2>1, <2>2
        <5>2. item[c] \in ItemRecord /\ verdict[u] # "failed"
          BY <1>2, <2>1, <4>1 DEF References
        <5>3. QED
          BY <5>1, <5>2, <2>1, MarkedFacts
      <4>4. QED
        BY <1>2, <1>3, <2>3, <3>1, <3>3, <4>3
    <3>4. QED
      BY <1>2, <3>1, <3>2, <3>3
  <2>6. QED
    BY <2>4, <2>5
<1>10. ASSUME NEW w \in Workers, NEW u \in Workers, Stop(u) PROVE Goal(w)
  BY <1>2, <1>3, <1>10 DEF Stop
<1>11. \A w \in Workers : Goal(w)
  BY <1>4, <1>5, <1>6, <1>7, <1>8, <1>9, <1>10
     DEF Next, LateArrival, Dispatch, Query, workerVars, vars
<1>12. QED
  BY <1>11 DEF Exclusion

(* As long as no claim has run out under a running worker, no item is in   *)
(* the hands of two dispatching workers, and the outbox names the holder   *)
(* (outbox.py:107).                                                        *)
THEOREM DispatchIsExclusive == Spec => []ExclusiveDispatch
<1>1. Exclusion => ExclusiveDispatch
  BY DEF Exclusion, ExclusiveDispatch
<1>2. Shape /\ References /\ Exclusion /\ [Next]_vars => Exclusion'
  BY ExclusionStep DEF Exclusion
<1>3. QED
  BY InitShape, NextShape, InitInvariants, ReferencesStep, <1>1, <1>2, PTL DEF Spec
=============================================================================
