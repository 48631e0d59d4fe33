---------------------------- MODULE OutboxTable ----------------------------
(***************************************************************************)
(* octa_hub_api/models/outbox_item.py: the outbox as a database table      *)
(* drained by cron workers, wired as the comment of data/outbox_cron.xml   *)
(* shows: one run calls run_worker_batch, then run_query_batch, in ONE     *)
(* transaction.  Nothing a run writes is visible before it commits, and a  *)
(* run that dies takes its marks with it -- but not its POSTs.             *)
(*                                                                         *)
(* The database (external) runs transactions under snapshot isolation: a   *)
(* run reads the table as of its first query plus its own writes, a row    *)
(* lock is held until it ends, try_lock_for_update passes over the rows    *)
(* others hold, and locking a row that was changed since the snapshot      *)
(* aborts the run.                                                         *)
(*                                                                         *)
(* Time.  A claim compares a row's next_retry_at, next_query_at or         *)
(* claimed_at with the claiming worker's clock.  The set `ripe` of a claim *)
(* is the rows whose time has come by that clock; it may be any set.       *)
(* claimed_by is written and never read here; it is left out.              *)
(***************************************************************************)
EXTENDS MockPos, ItemOrder

CONSTANTS
  Workers,           \* cron workers
  BatchSize,         \* batch_size of a run
  MaxAttempts,       \* max_attempts
  MaxQueryAttempts,  \* max_query_attempts
  MaxCrashes         \* bound: how many runs die or are killed

ASSUME ItemsAssumption == Items \subseteq Nat
ASSUME LimitsAssumption ==
  /\ BatchSize \in Nat \ {0}
  /\ MaxAttempts \in Nat \ {0}
  /\ MaxQueryAttempts \in Nat \ {0}
  /\ MaxCrashes \in Nat

VARIABLES
  row,      \* the committed table
  phase,    \* where a worker's run is
  view,     \* the table as its transaction sees it
  locked,   \* the rows its transaction holds
  todo,     \* the rows of its current batch it has yet to deal with
  late,     \* items of which a POST given up on is still on its way
  crashes   \* how many runs died so far

runVars == <<phase, view, locked, todo>>
vars == <<row, runVars, late, crashes, posVars>>

Statuses == {"absent", "pending", "processing", "awaiting_confirmation",
             "done", "dead_letter"}
Waiting == {"pending", "processing", "awaiting_confirmation"}
Phases == {"idle", "claim", "dispatch", "ask", "query", "commit"}

RowRecord == [status : Statuses, attempts : Nat, queries : Nat,
              reference : ExtIds \cup {None}]

TypeOK ==
  /\ row \in [Items -> RowRecord]
  /\ phase \in [Workers -> Phases]
  /\ view \in [Workers -> [Items -> RowRecord]]
  /\ locked \in [Workers -> SUBSET Items]
  /\ todo \in [Workers -> SUBSET Items]
  /\ \A w \in Workers : todo[w] \subseteq locked[w]
  /\ late \subseteq Items
  /\ crashes \in 0 .. MaxCrashes
  /\ PosTypeOK

(***************************************************************************)
(* The rows the model writes.                                              *)
(***************************************************************************)
NewRow == [status |-> "pending", attempts |-> 0, queries |-> 0, reference |-> None]

NoTable == [i \in Items |-> [NewRow EXCEPT !.status = "absent"]]

Reclaimed(r) == [r EXCEPT !.status = "pending"]

Claimed(r) == [r EXCEPT !.status = "processing"]

MarkDone(r) == [r EXCEPT !.status = "done"]

MarkAwaiting(r, ref) ==
  [r EXCEPT !.status = "awaiting_confirmation", !.reference = ref]

MarkFailed(r) ==
  [r EXCEPT !.attempts = @ + 1,
            !.status = IF r.attempts + 1 >= MaxAttempts THEN "dead_letter" ELSE "pending"]

MarkInconclusive(r) ==
  [r EXCEPT !.queries = @ + 1,
            !.status = IF r.queries + 1 >= MaxQueryAttempts THEN "dead_letter"
                       ELSE "awaiting_confirmation"]

(* A mutant: an unknown outcome counts as a success.                       *)
DispatchMarked_MutantUnknownIsDone(r, o, i) ==
  CASE o = "success" -> MarkDone(r)
    [] o = "unknown" -> MarkDone(r)
    [] OTHER -> MarkFailed(r)

(* run_worker_batch's reading of an outcome; one it does not know counts   *)
(* as a failure, as an exception does.                                     *)
DispatchMarked(r, o, i) ==
  CASE o = "success" -> MarkDone(r)
    [] o = "unknown" -> MarkAwaiting(r, ExtId[i])
    [] OTHER -> MarkFailed(r)

(* run_query_batch's.                                                      *)
QueryMarked(r, o) ==
  CASE o = "success" -> MarkDone(r)
    [] o = "failure" -> MarkFailed(r)
    [] OTHER -> MarkInconclusive(r)

(***************************************************************************)
(* The database.                                                           *)
(***************************************************************************)
(* The rows other transactions hold.                                       *)
Busy(w) == UNION {locked[u] : u \in Workers \ {w}}

(* A mutant: the database lets a changed row be locked.                    *)
Changed_MutantNone(w) == {}

(* The rows that were changed after w's snapshot was taken.                *)
Changed(w) ==
  {i \in Items \ locked[w] : view[w][i] # row[i]}

Current(w) == Oldest(todo[w])

(* The end of w's transaction, seen from w.                                *)
RunOver(w) ==
  /\ phase' = [phase EXCEPT ![w] = "idle"]
  /\ view' = [view EXCEPT ![w] = NoTable]
  /\ locked' = [locked EXCEPT ![w] = {}]
  /\ todo' = [todo EXCEPT ![w] = {}]

(***************************************************************************)
(* Actions.                                                                *)
(***************************************************************************)
Init ==
  /\ row = NoTable
  /\ phase = [w \in Workers |-> "idle"]
  /\ view = [w \in Workers |-> NoTable]
  /\ locked = [w \in Workers |-> {}]
  /\ todo = [w \in Workers |-> {}]
  /\ late = {}
  /\ crashes = 0
  /\ PosInit

(* enqueue of a new item_key, committed with the order event it belongs to *)
(* (see OrderIngress).                                                     *)
Enqueue(i) ==
  /\ row[i].status = "absent"
  /\ \A j \in Items : j < i => row[j].status # "absent"
  /\ row' = [row EXCEPT ![i] = NewRow]
  /\ UNCHANGED <<runVars, late, crashes, posVars>>

(* The cron run's first query takes the snapshot.                          *)
Begin(w) ==
  /\ phase[w] = "idle"
  /\ phase' = [phase EXCEPT ![w] = "claim"]
  /\ view' = [view EXCEPT ![w] = row]
  /\ UNCHANGED <<row, locked, todo, late, crashes, posVars>>

StuckRows(w, ripe) == {i \in ripe : view[w][i].status = "processing"}

(* The rows a dispatch claim takes: the oldest pending ones whose retry    *)
(* time has come, reclaimed ones included, as far as nobody else holds     *)
(* them.                                                                   *)
DispatchBatch(w, ripe) ==
  FirstOf({i \in ripe \ Busy(w) : view[w][i].status = "pending"} \cup StuckRows(w, ripe),
          BatchSize)

(* claim_batch.  Reclaiming waits for a row somebody holds.                *)
ClaimBatch(w, ripe) ==
  LET stuck == StuckRows(w, ripe)
      taken == DispatchBatch(w, ripe)
  IN  /\ phase[w] = "claim"
      /\ stuck \cap Busy(w) = {}
      /\ Changed(w) \cap (stuck \cup taken) = {}
      /\ view' = [view EXCEPT ![w] =
                    [i \in Items |-> IF i \in taken THEN Claimed(@[i])
                                     ELSE IF i \in stuck THEN Reclaimed(@[i])
                                     ELSE @[i]]]
      /\ locked' = [locked EXCEPT ![w] = @ \cup stuck \cup taken]
      /\ todo' = [todo EXCEPT ![w] = taken]
      /\ phase' = [phase EXCEPT ![w] = IF taken = {} THEN "ask" ELSE "dispatch"]
      /\ UNCHANGED <<row, late, crashes, posVars>>

(* One round of run_worker_batch: dispatch_fn, then the mark.  The row is  *)
(* held and the mark is private, so nobody can come between the two except *)
(* a crash, which undoes the mark and not the POST.  For what may become   *)
(* of a POST see Outbox!Dispatch.  An exception, and an outcome the cycle  *)
(* does not know, come to what "failure" comes to here.                    *)
Dispatch(w) ==
  LET i == Current(w) IN
  /\ phase[w] = "dispatch"
  /\ \/ /\ PosPost(i)
        /\ \E o \in {PostOutcome(i), "failure", "unknown"} :
             view' = [view EXCEPT ![w][i] = DispatchMarked(@, o, i)]
        /\ UNCHANGED late
     \/ /\ \E o \in {"failure", "unknown"} :
             view' = [view EXCEPT ![w][i] = DispatchMarked(@, o, i)]
        /\ late' = late \cup {i}
        /\ UNCHANGED posVars
  /\ todo' = [todo EXCEPT ![w] = @ \ {i}]
  /\ phase' = [phase EXCEPT ![w] = IF todo[w] = {i} THEN "ask" ELSE @]
  /\ UNCHANGED <<row, locked, crashes>>

(* The rows that await confirmation and whose query time has come.  Those  *)
(* the same run has just sent are among them if it has taken long enough.  *)
QueryBatch(w, ripe) ==
  FirstOf({i \in ripe \ Busy(w) : view[w][i].status = "awaiting_confirmation"}, BatchSize)

(* A mutant: the rows are read and not locked.                             *)
ClaimForQuery_MutantNoLock(w, ripe) ==
  LET taken == QueryBatch(w, ripe) IN
  /\ phase[w] = "ask"
  /\ todo' = [todo EXCEPT ![w] = taken]
  /\ phase' = [phase EXCEPT ![w] = IF taken = {} THEN "commit" ELSE "query"]
  /\ UNCHANGED <<row, view, locked, late, crashes, posVars>>

ClaimForQuery(w, ripe) ==
  LET taken == QueryBatch(w, ripe) IN
  /\ phase[w] = "ask"
  /\ Changed(w) \cap taken = {}
  /\ locked' = [locked EXCEPT ![w] = @ \cup taken]
  /\ todo' = [todo EXCEPT ![w] = taken]
  /\ phase' = [phase EXCEPT ![w] = IF taken = {} THEN "commit" ELSE "query"]
  /\ UNCHANGED <<row, view, late, crashes, posVars>>

(* One round of run_query_batch: a GET, then the mark.  An exception comes *)
(* to what "unknown" comes to here.                                        *)
Query(w) ==
  LET i == Current(w) IN
  /\ phase[w] = "query"
  /\ \E o \in {QueryOutcome(view[w][i].reference), "unknown"} :
       view' = [view EXCEPT ![w][i] = QueryMarked(@, o)]
  /\ todo' = [todo EXCEPT ![w] = @ \ {i}]
  /\ phase' = [phase EXCEPT ![w] = IF todo[w] = {i} THEN "commit" ELSE @]
  /\ UNCHANGED <<row, locked, late, crashes, posVars>>

(* A mutant: a run commits before it is through.                           *)
Commit_MutantMidRun(w) ==
  /\ phase[w] # "idle"
  /\ row' = [i \in Items |-> IF i \in locked[w] THEN view[w][i] ELSE row[i]]
  /\ RunOver(w)
  /\ UNCHANGED <<late, crashes, posVars>>

Commit(w) ==
  /\ phase[w] = "commit"
  /\ row' = [i \in Items |-> IF i \in locked[w] THEN view[w][i] ELSE row[i]]
  /\ RunOver(w)
  /\ UNCHANGED <<late, crashes, posVars>>

(* A lock on a row that was changed since the snapshot aborts the run.     *)
Conflict(w, ripe) ==
  /\ \/ /\ phase[w] = "claim"
        /\ Changed(w) \cap (StuckRows(w, ripe) \cup DispatchBatch(w, ripe)) # {}
     \/ /\ phase[w] = "ask"
        /\ Changed(w) \cap QueryBatch(w, ripe) # {}
  /\ RunOver(w)
  /\ UNCHANGED <<row, late, crashes, posVars>>

(* The worker dies, or its transaction is lost, anywhere in the run.       *)
Crash(w) ==
  /\ phase[w] # "idle" /\ crashes < MaxCrashes
  /\ crashes' = crashes + 1
  /\ RunOver(w)
  /\ UNCHANGED <<row, late, posVars>>

(* A POST its caller gave up on reaches the point of sale after all, or    *)
(* is lost for good.                                                       *)
LateArrival(i) ==
  /\ i \in late
  /\ late' = late \ {i}
  /\ PosPost(i) \/ UNCHANGED posVars
  /\ UNCHANGED <<row, runVars, crashes>>

Next ==
  \/ \E i \in Items : Enqueue(i) \/ LateArrival(i)
  \/ \E w \in Workers :
       \/ Begin(w) \/ Dispatch(w) \/ Query(w) \/ Commit(w) \/ Crash(w)
       \/ \E ripe \in SUBSET Items :
            ClaimBatch(w, ripe) \/ ClaimForQuery(w, ripe) \/ Conflict(w, ripe)

Spec == Init /\ [][Next]_vars

-----------------------------------------------------------------------------
(***************************************************************************)
(* Properties.                                                             *)
(***************************************************************************)

(* What a row's status says about the delivery of its item.                *)
Stage(status) ==
  CASE status = "absent" -> "absent"
    [] status \in Waiting -> "open"
    [] status = "done" -> "delivered"
    [] status = "dead_letter" -> "abandoned"

D == INSTANCE Delivery WITH
       stage <- [i \in Items |-> Stage(row[i].status)],
       received <- {i \in Items : posOrders[ExtId[i]] = i}

(* The committed table keeps the outbox's promise (outbox_item.py:10-15):  *)
(* a settled item stays settled and a DONE item has been received, through *)
(* overlapping runs, crashes after the POST and late arrivals.             *)
ImplementsDelivery == D!Spec

(* An item is POSTed only while every other run would also see it PENDING: *)
(* one that awaits confirmation, or is settled, is never sent again, even  *)
(* by a run whose snapshot still shows it pending (outbox_item.py:170-173). *)
SentOnlyWhilePending ==
  [][\A w \in Workers : Dispatch(w) => row[Current(w)].status = "pending"]_vars

(* A run commits only finished work: PROCESSING is never seen by another   *)
(* run, whatever is left of a run that died, and an item that awaits       *)
(* confirmation can be asked about by its reference.                       *)
CommittedRowsAreFinished ==
  \A i \in Items :
    /\ row[i].status # "processing"
    /\ row[i].status = "awaiting_confirmation" => row[i].reference = ExtId[i]

(* A run that dies after its POSTs leaves items that will be sent again;   *)
(* the point of sale still creates each order once (mock_pos_adapter.py:40). *)
EffectAtMostOnce == \A e \in ExtIds : effects[e] <= 1

=============================================================================
