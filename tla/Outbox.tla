------------------------------- MODULE Outbox -------------------------------
(***************************************************************************)
(* octa_hub_api/lib/outbox.py: the thread-safe outbox that workers drain.  *)
(*                                                                         *)
(* A worker thread runs dispatch cycles (claim a batch, POST each item,    *)
(* record each result) and query cycles (take a batch of items that await  *)
(* confirmation, ask the point of sale about each, record each verdict).   *)
(* The outbox lock is held by a claim and by each recording, never across  *)
(* a call to the point of sale: between the two a worker can be overtaken. *)
(*                                                                         *)
(* Time.  The code compares `now` with next_retry_at in PENDING, with      *)
(* claimed_at plus the stuck timeout in PROCESSING and with next_query_at  *)
(* in AWAITING_CONFIRMATION, and every status change restarts the timer of *)
(* the status entered.  One flag `due` -- the timer of the current status  *)
(* has run out -- stands for the three.                                    *)
(***************************************************************************)
EXTENDS MockPos, ItemOrder

CONSTANTS
  Workers,           \* worker threads
  BatchSize,         \* batch_size of a cycle
  MaxAttempts,       \* OutboxItem.max_attempts
  MaxQueryAttempts,  \* OutboxItem.max_query_attempts
  MaxStops           \* bound: how many times a worker is stopped mid-cycle

ASSUME ItemsAssumption == Items \subseteq Nat
ASSUME LimitsAssumption ==
  /\ BatchSize \in Nat \ {0}
  /\ MaxAttempts \in Nat \ {0}
  /\ MaxQueryAttempts \in Nat \ {0}
  /\ MaxStops \in Nat

VARIABLES
  item,     \* the outbox: the record of every item
  mode,     \* what cycle a worker is in
  batch,    \* the items of its cycle it has not recorded a result for
  verdict,  \* what its cycle will record for the oldest of them, once it knows
  late,     \* items of which a POST given up on is still on its way
  stops,    \* how many workers were stopped mid-cycle so far
  overrun   \* history: some claim timed out under a worker still running

workerVars == <<mode, batch, verdict>>
vars == <<item, workerVars, late, stops, overrun, posVars>>

Statuses == {"absent", "pending", "processing", "awaiting_confirmation",
             "done", "dead_letter"}
Verdicts == {"done", "failed", "awaiting", "inconclusive"}

ASSUME NoneIsNoValue == None \notin Workers /\ None \notin Verdicts

ItemRecord ==
  [status : Statuses, attempts : Nat, queries : Nat, due : BOOLEAN,
   reference : ExtIds \cup {None}, claimedBy : Workers \cup {None}]

TypeOK ==
  /\ item \in [Items -> ItemRecord]
  /\ mode \in [Workers -> {"idle", "dispatch", "query"}]
  /\ batch \in [Workers -> SUBSET Items]
  /\ verdict \in [Workers -> Verdicts \cup {None}]
  /\ late \in SUBSET Items
  /\ stops \in 0 .. MaxStops
  /\ overrun \in BOOLEAN
  /\ PosTypeOK

(***************************************************************************)
(* The records the outbox writes.                                          *)
(***************************************************************************)
NewItem == [status |-> "pending", attempts |-> 0, queries |-> 0, due |-> TRUE,
            reference |-> None, claimedBy |-> None]

AbsentItem == [NewItem EXCEPT !.status = "absent"]

Claimed(r, w) == [r EXCEPT !.status = "processing", !.claimedBy = w, !.due = FALSE]

(* A mutant: stuck items are left as they are.                             *)
Reclaimed_MutantNever(r) == r

(* A stuck item goes back to PENDING, due at once, and no attempt is       *)
(* counted.                                                                *)
Reclaimed(r) ==
  IF r.status = "processing" /\ r.due
  THEN [r EXCEPT !.status = "pending", !.claimedBy = None]
  ELSE r

MarkDone(r) == [r EXCEPT !.status = "done", !.claimedBy = None, !.due = FALSE]

(* A mutant: the reference is not kept.                                    *)
MarkAwaiting_MutantNoReference(r, ref) ==
  [r EXCEPT !.status = "awaiting_confirmation", !.claimedBy = None, !.due = FALSE]

MarkAwaiting(r, ref) ==
  [r EXCEPT !.status = "awaiting_confirmation", !.reference = ref,
            !.claimedBy = None, !.due = FALSE]

(* A mutant: one attempt too many is allowed.                              *)
MarkFailed_MutantOffByOne(r) ==
  [r EXCEPT !.attempts = @ + 1, !.claimedBy = None, !.due = FALSE,
            !.status = IF r.attempts + 1 > MaxAttempts THEN "dead_letter" ELSE "pending"]

MarkFailed(r) ==
  [r EXCEPT !.attempts = @ + 1, !.claimedBy = None, !.due = FALSE,
            !.status = IF r.attempts + 1 >= MaxAttempts THEN "dead_letter" ELSE "pending"]

(* A mutant: the outcome is written as the status.                         *)
MarkInconclusive_MutantWritesOutcome(r) ==
  [r EXCEPT !.queries = @ + 1, !.status = "unknown", !.due = FALSE]

(* claimed_by is cleared only on the way to DEAD_LETTER.                   *)
MarkInconclusive(r) ==
  IF r.queries + 1 >= MaxQueryAttempts
  THEN [r EXCEPT !.queries = @ + 1, !.status = "dead_letter", !.claimedBy = None, !.due = FALSE]
  ELSE [r EXCEPT !.queries = @ + 1, !.status = "awaiting_confirmation", !.due = FALSE]

(***************************************************************************)
(* Helpers of the cycles.                                                  *)
(***************************************************************************)
(* The item a worker is working on: batches are walked in claim order.     *)
Current(w) == Oldest(batch[w])

(* A mutant: claimed items are claimed again.                              *)
DispatchClaim_MutantTakesProcessing(it) ==
  FirstOf({i \in Items : it[i].status \in {"pending", "processing"}}, BatchSize)

(* The items a dispatch claim takes from the outbox `it`.                  *)
DispatchClaim(it) ==
  FirstOf({i \in Items : it[i].status = "pending" /\ it[i].due}, BatchSize)

QueryClaim ==
  FirstOf({i \in Items : item[i].status = "awaiting_confirmation" /\ item[i].due}, BatchSize)

(***************************************************************************)
(* Actions.                                                                *)
(***************************************************************************)
Init ==
  /\ item = [i \in Items |-> AbsentItem]
  /\ mode = [w \in Workers |-> "idle"]
  /\ batch = [w \in Workers |-> {}]
  /\ verdict = [w \in Workers |-> None]
  /\ late = {}
  /\ stops = 0
  /\ overrun = FALSE
  /\ PosInit

(* enqueue of a new id; with an id it knows the call changes nothing.      *)
Enqueue(i) ==
  /\ item[i].status = "absent"
  /\ \A j \in Items : j < i => item[j].status # "absent"
  /\ item' = [item EXCEPT ![i] = NewItem]
  /\ UNCHANGED <<workerVars, late, stops, overrun, posVars>>

(* claim_batch, in one hold of the lock: stuck items are reclaimed even    *)
(* when nothing is left to claim, in which case the cycle is over.         *)
ClaimBatch(w) ==
  LET reclaimed == [i \in Items |-> Reclaimed(item[i])]
      taken == DispatchClaim(reclaimed)
  IN  /\ mode[w] = "idle"
      /\ item' = [i \in Items |-> IF i \in taken THEN Claimed(reclaimed[i], w)
                                  ELSE reclaimed[i]]
      /\ batch' = [batch EXCEPT ![w] = taken]
      /\ mode' = [mode EXCEPT ![w] = IF taken = {} THEN "idle" ELSE "dispatch"]
      /\ UNCHANGED <<verdict, late, stops, overrun, posVars>>

(* claim_for_query only reads: a second worker may take the same items.    *)
ClaimForQuery(w) ==
  /\ mode[w] = "idle"
  /\ QueryClaim # {}
  /\ batch' = [batch EXCEPT ![w] = QueryClaim]
  /\ mode' = [mode EXCEPT ![w] = "query"]
  /\ UNCHANGED <<item, verdict, late, stops, overrun, posVars>>

(* A mutant: an exception counts as a success.                             *)
DispatchVerdict_MutantRaisedIsDone(o) ==
  CASE o \in {"success", "raised"} -> "done"
    [] o = "failure" -> "failed"
    [] o = "unknown" -> "awaiting"

(* The dispatch cycle's reading of an outcome; dispatch_fn may also raise. *)
DispatchVerdict(o) ==
  CASE o = "success" -> "done"
    [] o \in {"failure", "raised"} -> "failed"
    [] o = "unknown" -> "awaiting"

(* The query cycle's: only an explicit answer settles anything.            *)
QueryVerdict(o) ==
  CASE o = "success" -> "done"
    [] o = "failure" -> "failed"
    [] o \in {"unknown", "raised"} -> "inconclusive"

(* dispatch_fn, with what may become of the POST: the service handles it   *)
(* and its answer arrives, is lost or cannot be read; or it does not get   *)
(* there while the caller waits -- it is delayed, perhaps for ever.        *)
Dispatch(w) ==
  LET i == Current(w) IN
  /\ mode[w] = "dispatch" /\ verdict[w] = None
  /\ \/ /\ PosPost(i)
        /\ \E o \in {PostOutcome(i), "failure", "unknown", "raised"} :
             verdict' = [verdict EXCEPT ![w] = DispatchVerdict(o)]
        /\ UNCHANGED late
     \/ /\ \E o \in {"failure", "unknown", "raised"} :
             verdict' = [verdict EXCEPT ![w] = DispatchVerdict(o)]
        /\ late' = late \cup {i}
        /\ UNCHANGED posVars
  /\ UNCHANGED <<item, mode, batch, stops, overrun>>

(* query_fn: a GET, which changes nothing at the point of sale.  It reads  *)
(* external_reference from the live item.                                  *)
Query(w) ==
  /\ mode[w] = "query" /\ verdict[w] = None
  /\ \E o \in {QueryOutcome(item[Current(w)].reference), "unknown", "raised"} :
       verdict' = [verdict EXCEPT ![w] = QueryVerdict(o)]
  /\ UNCHANGED <<item, mode, batch, late, stops, overrun, posVars>>

(* The mark_* call for a verdict.  The reference an unknown outcome        *)
(* carries is the item's external order id.                                *)
Marked(r, v, i) ==
  CASE v = "done" -> MarkDone(r)
    [] v = "failed" -> MarkFailed(r)
    [] v = "awaiting" -> MarkAwaiting(r, ExtId[i])
    [] v = "inconclusive" -> MarkInconclusive(r)

(* Recording looks neither at the item's status nor at who claimed it.  A  *)
(* worker whose batch is used up is back at the top of its loop.           *)
Record(w) ==
  LET i == Current(w) IN
  /\ verdict[w] # None
  /\ item' = [item EXCEPT ![i] = Marked(@, verdict[w], i)]
  /\ batch' = [batch EXCEPT ![w] = @ \ {i}]
  /\ verdict' = [verdict EXCEPT ![w] = None]
  /\ mode' = [mode EXCEPT ![w] = IF batch[w] = {i} THEN "idle" ELSE @]
  /\ UNCHANGED <<late, stops, overrun, posVars>>

(* A worker is stopped mid-cycle: what it claimed stays PROCESSING.        *)
Stop(w) ==
  /\ mode[w] # "idle" /\ stops < MaxStops
  /\ stops' = stops + 1
  /\ mode' = [mode EXCEPT ![w] = "idle"]
  /\ batch' = [batch EXCEPT ![w] = {}]
  /\ verdict' = [verdict EXCEPT ![w] = None]
  /\ UNCHANGED <<item, late, overrun, posVars>>

(* Time passes the timer of i's status; in PROCESSING, perhaps while the   *)
(* claiming worker is merely slow.                                         *)
TimerLapses(i) ==
  /\ item[i].status \in {"pending", "processing", "awaiting_confirmation"}
  /\ ~item[i].due
  /\ item' = [item EXCEPT ![i].due = TRUE]
  /\ overrun' = (overrun \/ /\ item[i].status = "processing"
                            /\ \E w \in Workers : mode[w] = "dispatch" /\ i \in batch[w])
  /\ UNCHANGED <<workerVars, late, stops, posVars>>

(* A POST its caller gave up on reaches the point of sale after all, or    *)
(* is lost for good.                                                       *)
LateArrival(i) ==
  /\ i \in late
  /\ late' = late \ {i}
  /\ PosPost(i) \/ UNCHANGED posVars
  /\ UNCHANGED <<item, workerVars, stops, overrun>>

Next ==
  \/ \E i \in Items : Enqueue(i) \/ TimerLapses(i) \/ LateArrival(i)
  \/ \E w \in Workers : \/ ClaimBatch(w) \/ Dispatch(w)
                        \/ ClaimForQuery(w) \/ Query(w)
                        \/ Record(w) \/ Stop(w)

(* Every worker keeps running both cycles, a cycle it is in goes on, and   *)
(* time passes.  Nothing is assumed of the network.                        *)
Fairness ==
  /\ \A w \in Workers : /\ WF_vars(ClaimBatch(w))
                        /\ WF_vars(ClaimForQuery(w))
                        /\ WF_vars(Dispatch(w) \/ Query(w) \/ Record(w))
  /\ \A i \in Items : WF_vars(TimerLapses(i))

Spec == Init /\ [][Next]_vars
FairSpec == Spec /\ Fairness

-----------------------------------------------------------------------------
(***************************************************************************)
(* Properties.                                                             *)
(***************************************************************************)

(* External ids are not shared between items.                              *)
Injective == \A i, j \in Items : ExtId[i] = ExtId[j] => i = j

(* DONE is reached only by an answer of the point of sale that vouches for *)
(* THIS item's order (outbox.py:43, 137-138): when items do not share      *)
(* external ids, an item that is DONE is registered with its own payload,  *)
(* whatever was lost, late, retried or recorded by a worker whose claim    *)
(* had run out.                                                            *)
DoneMeansRegistered ==
  Injective => \A i \in Items : item[i].status = "done" => posOrders[ExtId[i]] = i

(* The same, of items that may share an external id.                       *)
DoneMeansOwnOrderRegistered ==
  \A i \in Items : item[i].status = "done" => posOrders[ExtId[i]] = i

(* Retries, overtaken workers and late arrivals together create an order   *)
(* at the point of sale at most once (outbox.py:20-23, 225-227).           *)
EffectAtMostOnce == \A e \in ExtIds : effects[e] <= 1

(* The two caps (outbox.py:61-63): an item that may still be sent has      *)
(* attempts left even when several workers counted against it, and an item *)
(* is given up only when one of its budgets is used up.                    *)
BudgetsRespected ==
  \A i \in Items :
    /\ item[i].status \in {"pending", "processing"} => item[i].attempts < MaxAttempts
    /\ item[i].status = "dead_letter" =>
         item[i].attempts >= MaxAttempts \/ item[i].queries >= MaxQueryAttempts

(* An item that awaits confirmation can always be asked about: the         *)
(* adapter's "no external_reference to query by" refusal, which would send *)
(* a possibly delivered order again, is never taken (mock_pos_adapter.py:  *)
(* 65-67).                                                                 *)
AwaitingHasReference ==
  \A i \in Items : item[i].status = "awaiting_confirmation" => item[i].reference = ExtId[i]

(* As long as no claim has run out under a running worker, an item is in   *)
(* the hands of one dispatching worker at most, and that worker's claim is *)
(* the one the outbox records -- the promise of claim_batch's "SELECT FOR  *)
(* UPDATE SKIP LOCKED" (outbox.py:107).                                    *)
ExclusiveDispatch ==
  ~overrun =>
    \A w \in Workers : mode[w] = "dispatch" =>
      \A i \in batch[w] : item[i].status = "processing" /\ item[i].claimedBy = w

(* An item that may have reached the point of sale and awaits confirmation *)
(* is asked about, never sent again (outbox.py:14-15, 225-227).            *)
AwaitingIsNotResent ==
  [][\A w \in Workers : Dispatch(w) => item[Current(w)].status # "awaiting_confirmation"]_vars

(* Every item is settled for good in the end: done or given up, whatever   *)
(* the network does and although workers are stopped (outbox.py:63, 74,    *)
(* 96-98).                                                                 *)
EventuallySettled ==
  \A i \in Items :
    item[i].status # "absent" ~> [](item[i].status \in {"done", "dead_letter"})

=============================================================================
