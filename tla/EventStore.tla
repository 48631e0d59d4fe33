----------------------------- MODULE EventStore -----------------------------
(***************************************************************************)
(* api/lib/idempotency.py, the reference store of incoming events, with    *)
(* the attempts core/lib/reprocessing.py adds on top of it.  Each method   *)
(* holds the store's lock throughout, so each is one step; threads call    *)
(* them in any order.                                                      *)
(***************************************************************************)
EXTENDS Naturals, Null

CONSTANTS
  Keys,           \* (tenant, branch, connection, external_order_id)
  Payloads,       \* what content_hash tells apart
  Commercial,     \* CommercialState
  MaxAttempts,    \* bound: how many events arrive
  MaxSeq          \* bound: sequence numbers of updates, from 1; 0 is none yet

VARIABLES
  store,        \* _orders
  seq,          \* _attempt_seq
  attempts,     \* the attempt ids of each order
  reattempts,   \* AttemptTracker: how many attempts of each order were repeats on demand
  appliedSeq,   \* last_applied_seq, which the callers share
  created       \* history: how many events were told NEW_LOGICAL_ORDER

eventVars == <<store, seq, attempts, reattempts, appliedSeq, created>>

LogicalOrder ==
  [content : Payloads,
   transport : {"stored", "dispatching", "registered_confirmed", "unknown"},
   commercial : Commercial \cup {"new", "cancelled"}]

ASSUME NoneIsNoOrder == None \notin LogicalOrder

EventInit ==
  /\ store = [k \in Keys |-> None]
  /\ seq = 0 /\ attempts = [k \in Keys |-> {}]
  /\ reattempts = [k \in Keys |-> 0]
  /\ appliedSeq = [k \in Keys |-> 0]
  /\ created = [k \in Keys |-> 0]

(* A mutant: the content is taken for part of the key.                     *)
Registered_MutantByContent(k, p) ==
  IF store[k] = None \/ store[k].content # p
  THEN /\ store' = [store EXCEPT ![k] =
            [content |-> p, transport |-> "stored", commercial |-> "new"]]
       /\ created' = [created EXCEPT ![k] = @ + 1]
  ELSE UNCHANGED <<store, created>>

(* What register_event does to the orders: a repeat, with the same content *)
(* or another, only leaves an attempt.                                     *)
Registered(k, p) ==
  IF store[k] = None
  THEN /\ store' = [store EXCEPT ![k] =
            [content |-> p, transport |-> "stored", commercial |-> "new"]]
       /\ created' = [created EXCEPT ![k] = @ + 1]
  ELSE UNCHANGED <<store, created>>

RegisterEvent(k, p) ==
  /\ seq < MaxAttempts
  /\ seq' = seq + 1
  /\ attempts' = [attempts EXCEPT ![k] = @ \cup {seq + 1}]
  /\ Registered(k, p)
  /\ UNCHANGED <<reattempts, appliedSeq>>

(* double_click_or_duplicate_task_produces_single_external_effect: an      *)
(* attempt of the tracker's, then the same event again.                    *)
Reprocess(k, p) ==
  /\ seq < MaxAttempts
  /\ seq' = seq + 1
  /\ attempts' = [attempts EXCEPT ![k] = @ \cup {seq + 1}]
  /\ reattempts' = [reattempts EXCEPT ![k] = @ + 1]
  /\ Registered(k, p)
  /\ UNCHANGED appliedSeq

SetTransport(k, state) ==
  /\ store' = [store EXCEPT ![k].transport = state]
  /\ UNCHANGED <<seq, attempts, reattempts, appliedSeq, created>>

Confirmed(k) == store[k].transport = "registered_confirmed"

(* The marks fail on an order that is not there.                           *)
MarkDispatching(k) == store[k] # None /\ ~Confirmed(k) /\ SetTransport(k, "dispatching")

MarkRegisteredConfirmed(k) == store[k] # None /\ SetTransport(k, "registered_confirmed")

(* A mutant: a late timeout hides a confirmation.                          *)
MarkUnknown_MutantAlways(k) == store[k] # None /\ SetTransport(k, "unknown")

MarkUnknown(k) == store[k] # None /\ ~Confirmed(k) /\ SetTransport(k, "unknown")

(* apply_cancel; of a cancellation that comes before its order nothing is  *)
(* kept.                                                                   *)
ApplyCancel(k) ==
  /\ store[k] # None /\ store[k].commercial # "completed"
  /\ store' = [store EXCEPT ![k].commercial = "cancelled"]
  /\ UNCHANGED <<seq, attempts, reattempts, appliedSeq, created>>

ApplyStaleUpdate(k, state, n) ==
  /\ store[k] # None
  /\ n > appliedSeq[k]
  /\ store[k].commercial \notin {"cancelled", "completed"}
  /\ store' = [store EXCEPT ![k].commercial = state]
  /\ appliedSeq' = [appliedSeq EXCEPT ![k] = n]
  /\ UNCHANGED <<seq, attempts, reattempts, created>>

EventNext ==
  \E k \in Keys :
    \/ \E p \in Payloads : RegisterEvent(k, p) \/ Reprocess(k, p)
    \/ MarkDispatching(k) \/ MarkRegisteredConfirmed(k) \/ MarkUnknown(k)
    \/ ApplyCancel(k)
    \/ \E state \in Commercial, n \in 1 .. MaxSeq : ApplyStaleUpdate(k, state, n)

EventSpec == EventInit /\ [][EventNext]_eventVars

-----------------------------------------------------------------------------
(* However often an event arrives, is repeated on demand or comes with     *)
(* another content, its key has one logical order, and every arrival is on *)
(* record as an attempt of one order (idempotency.py:11-12,                *)
(* reprocessing.py:4-5).                                                   *)
OneOrderAllAttempts ==
  /\ \A k \in Keys : created[k] = (IF store[k] = None THEN 0 ELSE 1)
  /\ \A k, l \in Keys : k # l => attempts[k] \cap attempts[l] = {}
  /\ UNION {attempts[k] : k \in Keys} = 1 .. seq

(* What is settled stays so, in whatever order marks, updates and          *)
(* cancellations arrive: the content, a confirmed registration, a final    *)
(* commercial state; and an update never follows a later one               *)
(* (idempotency.py:14, 131, 143, 162-164, 171-178).                        *)
SettledStays ==
  [][\A k \in Keys : store[k] # None =>
       /\ store'[k] # None /\ store'[k].content = store[k].content
       /\ Confirmed(k) => store'[k].transport = "registered_confirmed"
       /\ store[k].commercial \in {"cancelled", "completed"} =>
            store'[k].commercial = store[k].commercial
       /\ store'[k].commercial \notin {store[k].commercial, "cancelled"} =>
            appliedSeq'[k] > appliedSeq[k]]_eventVars
=============================================================================
