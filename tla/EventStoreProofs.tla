-------------------------- MODULE EventStoreProofs --------------------------
(***************************************************************************)
(* One order per key and settled states, for any keys, contents and        *)
(* states, and any number of events.  The only assumption is that None is  *)
(* not itself an order.                                                    *)
(***************************************************************************)
EXTENDS EventStore, TLAPS

Typed ==
  /\ store \in [Keys -> LogicalOrder \cup {None}]
  /\ seq \in Nat
  /\ attempts \in [Keys -> SUBSET Nat]
  /\ appliedSeq \in [Keys -> Nat]
  /\ created \in [Keys -> Nat]

(* The inductive invariant: the types, and the property itself.            *)
OneOrderInv == Typed /\ OneOrderAllAttempts

(* An event stores the order of its key if there is none, and counts it.   *)
LEMMA RegisteredStores ==
  ASSUME Typed, NEW k \in Keys, NEW p \in Payloads, Registered(k, p)
  PROVE  /\ store' \in [Keys -> LogicalOrder \cup {None}]
         /\ created' \in [Keys -> Nat]
         /\ store'[k] # None
         /\ \A l \in Keys : l # k => store'[l] = store[l] /\ created'[l] = created[l]
         /\ store[k] # None => store' = store /\ created' = created
         /\ store[k] = None => created'[k] = created[k] + 1
<1> DEFINE new == [content |-> p, transport |-> "stored", commercial |-> "new"]
<1>1. new \in LogicalOrder /\ new # None
  BY NoneIsNoOrder DEF LogicalOrder
<1>2. CASE store[k] = None
  <2>1. store' = [store EXCEPT ![k] = new] /\ created' = [created EXCEPT ![k] = @ + 1]
    BY <1>2 DEF Registered
  <2> QED BY <1>1, <1>2, <2>1 DEF Typed
<1>3. CASE store[k] # None
  BY <1>3 DEF Registered, Typed
<1> QED BY <1>2, <1>3

(* An event leaves one more attempt, with the next number, at one order.   *)
LEMMA EventKeepsOneOrder ==
  ASSUME OneOrderInv, NEW k \in Keys, NEW p \in Payloads,
         seq' = seq + 1,
         attempts' = [attempts EXCEPT ![k] = @ \cup {seq + 1}],
         Registered(k, p), appliedSeq' = appliedSeq
  PROVE  OneOrderInv'
<1>1. Typed /\ OneOrderAllAttempts
  BY DEF OneOrderInv
<1>2. /\ store' \in [Keys -> LogicalOrder \cup {None}]
      /\ created' \in [Keys -> Nat]
      /\ store'[k] # None
      /\ \A l \in Keys : l # k => store'[l] = store[l] /\ created'[l] = created[l]
      /\ store[k] # None => store' = store /\ created' = created
      /\ store[k] = None => created'[k] = created[k] + 1
  BY <1>1, RegisteredStores
<1>3. Typed'
  BY <1>1, <1>2 DEF Typed
<1>4. \A l \in Keys : created'[l] = (IF store'[l] = None THEN 0 ELSE 1)
  BY <1>1, <1>2 DEF OneOrderAllAttempts, Typed
<1>5. \A l \in Keys : attempts'[l] = IF l = k THEN attempts[k] \cup {seq + 1} ELSE attempts[l]
  BY <1>1 DEF Typed
<1>6. \A l \in Keys : attempts[l] \subseteq 1 .. seq
  BY <1>1 DEF OneOrderAllAttempts
<1>7. \A i, j \in Keys : i # j => attempts'[i] \cap attempts'[j] = {}
  <2>1. \A l \in Keys : seq + 1 \notin attempts[l]
    BY <1>1, <1>6 DEF Typed
  <2> QED BY <1>1, <1>5, <2>1 DEF OneOrderAllAttempts
<1>8. UNION {attempts'[l] : l \in Keys} = 1 .. seq'
  <2>1. UNION {attempts'[l] : l \in Keys} = (UNION {attempts[l] : l \in Keys}) \cup {seq + 1}
    BY <1>5
  <2>2. UNION {attempts[l] : l \in Keys} = 1 .. seq
    BY <1>1 DEF OneOrderAllAttempts
  <2>3. (1 .. seq) \cup {seq + 1} = 1 .. (seq + 1)
    BY <1>1 DEF Typed
  <2> QED BY <2>1, <2>2, <2>3
<1> QED BY <1>3, <1>4, <1>7, <1>8 DEF OneOrderInv, OneOrderAllAttempts

(* Marks, cancellations and updates create and remove no order.            *)
LEMMA RewriteKeepsOneOrder ==
  ASSUME OneOrderInv, NEW k \in Keys, store[k] # None,
         NEW row \in LogicalOrder, store' = [store EXCEPT ![k] = row],
         UNCHANGED <<seq, attempts, created>>, appliedSeq' \in [Keys -> Nat]
  PROVE  OneOrderInv'
<1>1. Typed'
  BY DEF OneOrderInv, Typed
<1>2. \A l \in Keys : store'[l] = None <=> store[l] = None
  BY NoneIsNoOrder DEF OneOrderInv, Typed
<1> QED BY <1>1, <1>2 DEF OneOrderInv, OneOrderAllAttempts

(* Every step but an event's rewrites one order in place.                  *)
LEMMA RewrittenInPlace ==
  ASSUME Typed, NEW k \in Keys,
         \/ MarkDispatching(k) \/ MarkRegisteredConfirmed(k) \/ MarkUnknown(k)
         \/ ApplyCancel(k)
         \/ \E state \in Commercial, n \in 1 .. MaxSeq : ApplyStaleUpdate(k, state, n)
  PROVE  /\ store[k] # None /\ UNCHANGED <<seq, attempts, created>>
         /\ appliedSeq' \in [Keys -> Nat]
         /\ \E row \in LogicalOrder :
              /\ store' = [store EXCEPT ![k] = row]
              /\ row.content = store[k].content
<1>1. CASE MarkDispatching(k) \/ MarkRegisteredConfirmed(k) \/ MarkUnknown(k)
  <2>1. PICK state \in {"dispatching", "registered_confirmed", "unknown"} :
          store[k] # None /\ SetTransport(k, state)
    BY <1>1 DEF MarkDispatching, MarkRegisteredConfirmed, MarkUnknown
  <2> DEFINE row == [store[k] EXCEPT !.transport = state]
  <2>2. row \in LogicalOrder /\ row.content = store[k].content
    BY <2>1 DEF Typed, LogicalOrder
  <2>3. store' = [store EXCEPT ![k] = row]
    BY <2>1 DEF SetTransport
  <2> QED BY <2>1, <2>2, <2>3 DEF SetTransport, Typed
<1>2. CASE ApplyCancel(k)
  <2> DEFINE row == [store[k] EXCEPT !.commercial = "cancelled"]
  <2>1. row \in LogicalOrder /\ row.content = store[k].content
    BY <1>2 DEF ApplyCancel, Typed, LogicalOrder
  <2>2. store' = [store EXCEPT ![k] = row]
    BY <1>2 DEF ApplyCancel
  <2> QED BY <1>2, <2>1, <2>2 DEF ApplyCancel, Typed
<1>3. ASSUME NEW state \in Commercial, NEW n \in 1 .. MaxSeq, ApplyStaleUpdate(k, state, n)
      PROVE  /\ store[k] # None /\ UNCHANGED <<seq, attempts, created>>
             /\ appliedSeq' \in [Keys -> Nat]
             /\ \E row \in LogicalOrder :
                  /\ store' = [store EXCEPT ![k] = row]
                  /\ row.content = store[k].content
  <2> DEFINE row == [store[k] EXCEPT !.commercial = state]
  <2>1. row \in LogicalOrder /\ row.content = store[k].content
    BY <1>3 DEF ApplyStaleUpdate, Typed, LogicalOrder
  <2>2. store' = [store EXCEPT ![k] = row]
    BY <1>3 DEF ApplyStaleUpdate
  <2>3. appliedSeq' \in [Keys -> Nat]
    BY <1>3 DEF ApplyStaleUpdate, Typed
  <2> QED BY <1>3, <2>1, <2>2, <2>3 DEF ApplyStaleUpdate
<1> QED BY <1>1, <1>2, <1>3

(* The inductive invariant holds for ever.                                 *)
LEMMA OneOrderInvariant ==
  EventSpec => []OneOrderInv
<1>1. EventInit => OneOrderInv
  <2> SUFFICES ASSUME EventInit PROVE OneOrderInv
    OBVIOUS
  <2>1. Typed
    BY DEF EventInit, Typed
  <2>2. UNION {attempts[k] : k \in Keys} = 1 .. seq
    BY DEF EventInit
  <2> QED BY <2>1, <2>2 DEF EventInit, OneOrderInv, OneOrderAllAttempts
<1>2. OneOrderInv /\ [EventNext]_eventVars => OneOrderInv'
  <2> SUFFICES ASSUME OneOrderInv, [EventNext]_eventVars PROVE OneOrderInv'
    OBVIOUS
  <2>1. CASE UNCHANGED eventVars
    BY <2>1 DEF eventVars, OneOrderInv, Typed, OneOrderAllAttempts
  <2>2. ASSUME NEW k \in Keys, NEW p \in Payloads, RegisterEvent(k, p) \/ Reprocess(k, p)
        PROVE  OneOrderInv'
    BY <2>2, EventKeepsOneOrder DEF RegisterEvent, Reprocess
  <2>3. ASSUME NEW k \in Keys,
               \/ MarkDispatching(k) \/ MarkRegisteredConfirmed(k) \/ MarkUnknown(k)
               \/ ApplyCancel(k)
               \/ \E state \in Commercial, n \in 1 .. MaxSeq : ApplyStaleUpdate(k, state, n)
        PROVE  OneOrderInv'
    BY <2>3, RewrittenInPlace, RewriteKeepsOneOrder DEF OneOrderInv
  <2> QED BY <2>1, <2>2, <2>3 DEF EventNext
<1> QED BY <1>1, <1>2, PTL DEF EventSpec

(* One order per key and one attempt per arrival, at the start and for     *)
(* ever (idempotency.py:11-12, reprocessing.py:4-5).                       *)
THEOREM OneOrderPerKey ==
  EventSpec => []OneOrderAllAttempts
<1>1. OneOrderInv => OneOrderAllAttempts
  BY DEF OneOrderInv
<1> QED BY <1>1, OneOrderInvariant, PTL

(* What a step keeps of an order that is there.                            *)
Settled ==
  \A k \in Keys : store[k] # None =>
    /\ store'[k] # None /\ store'[k].content = store[k].content
    /\ Confirmed(k) => store'[k].transport = "registered_confirmed"
    /\ store[k].commercial \in {"cancelled", "completed"} =>
         store'[k].commercial = store[k].commercial
    /\ store'[k].commercial \notin {store[k].commercial, "cancelled"} =>
         appliedSeq'[k] > appliedSeq[k]

(* An event touches no order that is there already.                        *)
LEMMA EventSettles ==
  ASSUME Typed, NEW k \in Keys, NEW p \in Payloads,
         Registered(k, p), appliedSeq' = appliedSeq
  PROVE  Settled
<1> SUFFICES ASSUME NEW l \in Keys, store[l] # None
             PROVE  store'[l] = store[l]
  BY DEF Settled, Confirmed
<1> QED BY RegisteredStores

(* A mark writes the transport state only, and never past a confirmation.  *)
LEMMA MarkSettles ==
  ASSUME Typed, NEW k \in Keys,
         MarkDispatching(k) \/ MarkRegisteredConfirmed(k) \/ MarkUnknown(k)
  PROVE  Settled
<1>1. PICK state \in {"dispatching", "registered_confirmed", "unknown"} :
        /\ store[k] # None /\ SetTransport(k, state)
        /\ Confirmed(k) => state = "registered_confirmed"
  BY DEF MarkDispatching, MarkRegisteredConfirmed, MarkUnknown
<1>2. /\ store' = [store EXCEPT ![k].transport = state]
      /\ appliedSeq' = appliedSeq
  BY <1>1 DEF SetTransport
<1>3. store[k] \in LogicalOrder
  BY <1>1 DEF Typed
<1>4. \A l \in Keys : l # k => store'[l] = store[l]
  BY <1>2 DEF Typed
<1>5. /\ store'[k] \in LogicalOrder
      /\ store'[k].content = store[k].content
      /\ store'[k].commercial = store[k].commercial
      /\ store'[k].transport = state
  BY <1>2, <1>3 DEF Typed, LogicalOrder
<1> QED BY NoneIsNoOrder, <1>1, <1>2, <1>4, <1>5 DEF Settled, Confirmed

(* A cancellation writes the commercial state only, and never past         *)
(* completion.                                                             *)
LEMMA CancelSettles ==
  ASSUME Typed, NEW k \in Keys, ApplyCancel(k)
  PROVE  Settled
<1>1. /\ store[k] # None /\ store[k].commercial # "completed"
      /\ store' = [store EXCEPT ![k].commercial = "cancelled"]
      /\ appliedSeq' = appliedSeq
  BY DEF ApplyCancel
<1>2. \A l \in Keys : l # k => store'[l] = store[l]
  BY <1>1 DEF Typed
<1>3. /\ store'[k] \in LogicalOrder
      /\ store'[k].content = store[k].content
      /\ store'[k].commercial = "cancelled"
      /\ store'[k].transport = store[k].transport
  BY <1>1 DEF Typed, LogicalOrder
<1> QED BY NoneIsNoOrder, <1>1, <1>2, <1>3 DEF Settled, Confirmed

(* An update follows the last one applied and meets no final state.        *)
LEMMA UpdateSettles ==
  ASSUME Typed, NEW k \in Keys,
         NEW state \in Commercial, NEW n \in 1 .. MaxSeq, ApplyStaleUpdate(k, state, n)
  PROVE  Settled
<1>1. /\ store[k] # None /\ n > appliedSeq[k]
      /\ store[k].commercial \notin {"cancelled", "completed"}
      /\ store' = [store EXCEPT ![k].commercial = state]
      /\ appliedSeq' = [appliedSeq EXCEPT ![k] = n]
  BY DEF ApplyStaleUpdate
<1>2. \A l \in Keys : l # k => store'[l] = store[l] /\ appliedSeq'[l] = appliedSeq[l]
  BY <1>1 DEF Typed
<1>3. /\ store'[k] \in LogicalOrder
      /\ store'[k].content = store[k].content
      /\ store'[k].transport = store[k].transport
      /\ appliedSeq'[k] = n
  BY <1>1 DEF Typed, LogicalOrder
<1> QED BY NoneIsNoOrder, <1>1, <1>2, <1>3 DEF Settled, Confirmed

(* No mark, update or cancellation undoes what is settled, in whatever     *)
(* order they come (idempotency.py:137, 150, 162, 172-176).                *)
THEOREM SettledForEver ==
  EventSpec => SettledStays
<1>1. EventSpec => []OneOrderInv
  BY OneOrderInvariant
<1>2. OneOrderInv /\ [EventNext]_eventVars => [Settled]_eventVars
  <2> SUFFICES ASSUME OneOrderInv, EventNext PROVE Settled
    OBVIOUS
  <2>1. Typed
    BY DEF OneOrderInv
  <2>2. ASSUME NEW k \in Keys, NEW p \in Payloads, RegisterEvent(k, p) \/ Reprocess(k, p)
        PROVE  Settled
    BY <2>1, <2>2, EventSettles DEF RegisterEvent, Reprocess
  <2> QED BY <2>1, <2>2, MarkSettles, CancelSettles, UpdateSettles DEF EventNext
<1> QED BY <1>1, <1>2, PTL DEF EventSpec, SettledStays, Settled
=============================================================================
