------------------------ MODULE OrderLifecycleProofs ------------------------
(***************************************************************************)
(* What holds of OrderLifecycle for every set of orders and sessions and   *)
(* however long the clock runs.                                            *)
(***************************************************************************)
EXTENDS OrderLifecycle, TLAPS

USE ClockAssumption, NoneAssumption, SuppliedAssumption, NotGivenAssumption

-----------------------------------------------------------------------------
(* Types.                                                                  *)

LEMMA NewOrderType == \A v \in Values : NewOrder(v) \in Order
BY DEF NewOrder, Order, Values, Given, Timestamped, TransportStates, CommercialStates

(* A write leaves an order an order.                                       *)
LEMMA WrittenType ==
  ASSUME now \in Moments, NEW r \in Order,
         NEW v \in Values
  PROVE  Written(r, v) \in Order
BY DEF Written, Order, Values, Given, Timestamped

LEMMA InitType == Init => TypeOK
BY DEF Init, TypeOK, NoOrders, Moments

LEMMA NextType == TypeOK /\ [Next]_vars => TypeOK'
<1>. SUFFICES ASSUME TypeOK, [Next]_vars PROVE TypeOK'
  OBVIOUS
<1>. USE DEF TypeOK
<1>1. ASSUME NEW o \in Orders, NEW v \in Values, Create(o, v) PROVE TypeOK'
  BY <1>1, NewOrderType DEF Create
<1>2. ASSUME NEW s \in Sessions, Begin(s) PROVE TypeOK'
  BY <1>2 DEF Begin
<1>3. ASSUME NEW s \in Sessions, Commit(s) PROVE TypeOK'
  BY <1>3 DEF Commit, Closed, NoOrders
<1>4. ASSUME NEW s \in Sessions, Rollback(s) PROVE TypeOK'
  BY <1>4 DEF Rollback, Closed, NoOrders
<1>5. ASSUME NEW s \in Sessions, NEW S \in SUBSET Orders,
             NEW v \in Values, Write(s, S, v)
      PROVE  TypeOK'
  <2>. DEFINE new == [o \in Orders |-> IF o \in S THEN Written(view[s][o], v)
                                       ELSE view[s][o]]
  <2>1. \A o \in S : view[s][o] \in Order
    BY <1>5 DEF Write
  <2>2. \A o \in S : Written(view[s][o], v) \in Order
    BY <2>1, WrittenType
  <2>3. new \in [Orders -> Order \cup {None}]
    BY <2>2
  <2>4. /\ view' = [view EXCEPT ![s] = new] /\ wrote' = [wrote EXCEPT ![s] = @ \cup S]
        /\ s \in open /\ UNCHANGED <<row, open, now>>
    BY <1>5 DEF Write
  <2>. HIDE DEF new
  <2>5. QED
    BY <2>3, <2>4
<1>6. CASE Tick
  BY <1>6 DEF Tick, Moments
<1>7. CASE UNCHANGED vars
  BY <1>7 DEF vars
<1>8. QED
  BY <1>1, <1>2, <1>3, <1>4, <1>5, <1>6, <1>7 DEF Next

(* The tables and the sessions have the types declared, and only an open   *)
(* session holds orders (the savepoints and locks of the transactions that *)
(* call order.py's write).                                                 *)
THEOREM OrdersTyped == Spec => []TypeOK
BY InitType, NextType, PTL DEF Spec

-----------------------------------------------------------------------------
(* Transactions.                                                           *)

(* v may be a later state of the order r: what NeverBack asks of a step.   *)
Follows(v, r) ==
  /\ r.transport = "registered_confirmed" => v.transport = "registered_confirmed"
  /\ v.transport = "stored" => r.transport = "stored"
  /\ r.commercial \in FinalCommercialStates => v.commercial = r.commercial
  /\ Progress(r.commercial) <= Progress(v.commercial)

(* An order a session has written is locked: nobody else has written it,   *)
(* and what the session will commit follows from the row as it still is.   *)
Isolated ==
  /\ \A s, u \in Sessions : s # u => wrote[s] \cap wrote[u] = {}
  /\ \A s \in Sessions : \A o \in wrote[s] :
       /\ row[o] \in Order /\ view[s][o] \in Order
       /\ Follows(view[s][o], row[o])

LEMMA ProgressType == \A c \in CommercialStates : Progress(c) \in 0 .. 4
BY DEF Progress

(* No transition of the two tables leads back.                             *)
LEMMA TransportMoves ==
  ASSUME NEW old \in TransportStates, NEW new \in TransportStates,
         Allowed(TransportTransitions, old, new)
  PROVE  /\ old = "registered_confirmed" => new = "registered_confirmed"
         /\ new = "stored" => old = "stored"
BY DEF Allowed, TransportTransitions, TransportStates

LEMMA CommercialMoves ==
  ASSUME NEW old \in CommercialStates, NEW new \in CommercialStates,
         Allowed(CommercialTransitions, old, new)
  PROVE  /\ old \in FinalCommercialStates => new = old
         /\ Progress(old) <= Progress(new)
<1>1. CASE old = new
  BY <1>1, ProgressType
<1>2. CASE old # new
  <2>1. new \in CommercialTransitions[old]
    BY <1>2 DEF Allowed
  <2>2. QED
    BY <2>1 DEF CommercialTransitions, CommercialStates, FinalCommercialStates, Progress
<1>3. QED
  BY <1>1, <1>2

LEMMA FollowsIsTransitive ==
  ASSUME NEW a \in Order, NEW b \in Order, NEW c \in Order, Follows(b, a), Follows(c, b)
  PROVE  Follows(c, a)
<1>1. /\ Progress(a.commercial) \in 0 .. 4 /\ Progress(b.commercial) \in 0 .. 4
      /\ Progress(c.commercial) \in 0 .. 4
  BY ProgressType DEF Order
<1>2. Progress(a.commercial) <= Progress(c.commercial)
  BY <1>1 DEF Follows
<1>3. QED
  BY <1>2 DEF Follows

LEMMA FollowsIsReflexive ==
  ASSUME NEW a \in Order
  PROVE  Follows(a, a)
BY ProgressType DEF Follows, Order

(* What a legal write makes of an order follows from it.                   *)
LEMMA WrittenFollows ==
  ASSUME NEW r \in Order,
         NEW v \in Values,
         v.transport # NotGiven => Allowed(TransportTransitions, r.transport, v.transport),
         v.commercial # NotGiven => Allowed(CommercialTransitions, r.commercial, v.commercial)
  PROVE  Follows(Written(r, v), r)
<1>. DEFINE w == Written(r, v)
            t == v.transport
            c == v.commercial
<1>1. /\ w.transport = IF t = NotGiven THEN r.transport ELSE t
      /\ w.commercial = IF c = NotGiven THEN r.commercial ELSE c
  BY DEF Written, Given
<1>2. /\ r.transport \in TransportStates /\ r.commercial \in CommercialStates
      /\ t \in TransportStates \cup {NotGiven} /\ c \in CommercialStates \cup {NotGiven}
  BY DEF Order, Values
<1>. HIDE DEF w
<1>3. /\ r.transport = "registered_confirmed" => w.transport = "registered_confirmed"
      /\ w.transport = "stored" => r.transport = "stored"
  BY <1>1, <1>2, TransportMoves
<1>4. CASE c = NotGiven
  BY <1>1, <1>2, <1>3, <1>4, ProgressType DEF Follows, w
<1>5. CASE c # NotGiven
  <2>1. /\ r.commercial \in FinalCommercialStates => c = r.commercial
        /\ Progress(r.commercial) <= Progress(c)
    BY <1>2, <1>5, CommercialMoves
  <2>2. QED
    BY <1>1, <1>3, <1>5, <2>1 DEF Follows, w
<1>6. QED
  BY <1>4, <1>5

LEMMA InitIsolated == Init => Isolated
BY DEF Init, Isolated

LEMMA IsolatedStep ==
  ASSUME TypeOK, Isolated, [Next]_vars
  PROVE  Isolated'
<1>. USE DEF TypeOK
<1>1. ASSUME NEW o \in Orders, NEW v \in Values, Create(o, v) PROVE Isolated'
  <2>1. \A s \in Sessions : \A p \in wrote[s] : row'[p] = row[p]
    BY <1>1 DEF Create, Isolated
  <2>2. QED
    BY <1>1, <2>1 DEF Create, Isolated, Follows
<1>2. ASSUME NEW s \in Sessions, Begin(s) PROVE Isolated'
  <2>1. wrote[s] = {}
    BY <1>2 DEF Begin
  <2>2. \A u \in Sessions : \A o \in wrote[u] : view'[u] = view[u]
    BY <1>2, <2>1 DEF Begin
  <2>3. row' = row /\ wrote' = wrote
    BY <1>2 DEF Begin
  <2>4. QED
    BY <2>2, <2>3 DEF Isolated, Follows
<1>3. ASSUME NEW s \in Sessions, Commit(s) \/ Rollback(s) PROVE Isolated'
  <2>1. wrote' = [wrote EXCEPT ![s] = {}] /\ view' = [view EXCEPT ![s] = NoOrders]
    BY <1>3 DEF Commit, Rollback, Closed
  <2>2. \A u \in Sessions \ {s} : \A o \in wrote[u] : row'[o] = row[o]
    BY <1>3 DEF Commit, Rollback, Isolated
  <2>3. \A u \in Sessions : \A o \in wrote'[u] :
          /\ u # s /\ o \in wrote[u] /\ view'[u] = view[u] /\ row'[o] = row[o]
    BY <2>1, <2>2
  <2>4. \A u, x \in Sessions : u # x => wrote'[u] \cap wrote'[x] = {}
    BY <2>1 DEF Isolated
  <2>5. QED
    BY <2>3, <2>4 DEF Isolated, Follows
<1>4. ASSUME NEW s \in Sessions, NEW S \in SUBSET Orders,
             NEW v \in Values, Write(s, S, v)
      PROVE  Isolated'
  <2>1. /\ row' = row /\ wrote' = [wrote EXCEPT ![s] = @ \cup S]
        /\ \A u \in Sessions \ {s} : view'[u] = view[u]
        /\ \A o \in Orders : view'[s][o] = IF o \in S THEN Written(view[s][o], v)
                                           ELSE view[s][o]
    BY <1>4 DEF Write
  <2>2. \A u, x \in Sessions : u # x => wrote'[u] \cap wrote'[x] = {}
    BY <1>4, <2>1 DEF Write, Held, Isolated
  <2>3. ASSUME NEW u \in Sessions, NEW o \in wrote'[u], u # s \/ o \notin S
        PROVE  o \in wrote[u] /\ view'[u][o] = view[u][o]
    BY <2>1, <2>3
  <2>4. ASSUME NEW o \in S
        PROVE  /\ row[o] \in Order /\ view'[s][o] \in Order
               /\ Follows(view'[s][o], row[o])
    <3>1. view[s][o] \in Order
      BY <1>4 DEF Write
    <3>2. view'[s][o] = Written(view[s][o], v) /\ view'[s][o] \in Order
      BY <2>1, <3>1, WrittenType
    <3>3. Follows(view'[s][o], view[s][o])
      BY <1>4, <3>1, <3>2, WrittenFollows DEF Write, Legal
    <3>4. row[o] \in Order /\ (row[o] = view[s][o] \/ Follows(view[s][o], row[o]))
      BY <1>4, <3>1 DEF Write, Changed, Isolated
    <3>5. QED
      BY <3>1, <3>2, <3>3, <3>4, FollowsIsTransitive
  <2>5. \A u \in Sessions : \A o \in wrote'[u] :
          /\ row'[o] \in Order /\ view'[u][o] \in Order
          /\ Follows(view'[u][o], row'[o])
    BY <2>1, <2>3, <2>4 DEF Isolated
  <2>6. QED
    BY <2>2, <2>5 DEF Isolated, Follows
<1>5. CASE Tick \/ UNCHANGED vars
  BY <1>5 DEF Tick, vars, Isolated, Follows
<1>6. QED
  BY <1>1, <1>2, <1>3, <1>4, <1>5 DEF Next

(* Committed orders never go back, however many transactions overlap and   *)
(* however many writes each makes (state_machine.py:3-4, 23-25, 35-37).    *)
THEOREM NeverBackHolds == Spec => NeverBack
<1>1. ASSUME TypeOK, Isolated, [Next]_vars, NEW o \in Orders, Stored(o)
      PROVE  Follows(row'[o], row[o])
  <2>1. row[o] \in Order
    BY <1>1 DEF TypeOK, Stored
  <2>2. CASE row'[o] = row[o]
    BY <2>1, <2>2, FollowsIsReflexive
  <2>3. ASSUME NEW s \in Sessions, Commit(s), o \in wrote[s] PROVE row'[o] = view[s][o]
    BY <2>3 DEF Commit
  <2>4. ASSUME row'[o] # row[o] PROVE \E s \in Sessions : Commit(s) /\ o \in wrote[s]
    BY <1>1, <2>4 DEF Next, Create, Begin, Write, Commit, Rollback, Tick, vars, TypeOK, Stored
  <2>5. QED
    BY <2>2, <2>3, <2>4, <1>1 DEF Isolated
<1>2. TypeOK /\ Isolated /\ [Next]_vars =>
        [\A o \in Orders : Stored(o) =>
           /\ (row[o].transport = "registered_confirmed"
                 => row'[o].transport = "registered_confirmed")
           /\ (row'[o].transport = "stored" => row[o].transport = "stored")
           /\ (row[o].commercial \in FinalCommercialStates
                 => row'[o].commercial = row[o].commercial)
           /\ Progress(row[o].commercial) <= Progress(row'[o].commercial)]_vars
  BY <1>1 DEF Follows
<1>3. TypeOK /\ Isolated /\ [Next]_vars => Isolated'
  BY IsolatedStep
<1>4. QED
  BY InitType, NextType, InitIsolated, <1>2, <1>3, PTL DEF Spec, NeverBack

-----------------------------------------------------------------------------
(* Timestamps.                                                             *)

(* What DurationsMakeSense asks of an order whose timestamps are all       *)
(* write()'s own, and that nothing was sent in the future: a stamp that    *)
(* precedes the clock also precedes the stamp the clock will give.         *)
WellTimed(r) ==
  ~r.supplied =>
    /\ r.registered_confirmed_at # None <=> r.transport = "registered_confirmed"
    /\ r.transport = "dispatching" => r.dispatch_started_at # None
    /\ r.dispatch_started_at # None => r.dispatch_started_at <= now
    /\ (r.registered_confirmed_at # None /\ r.dispatch_started_at # None)
         => r.dispatch_started_at <= r.registered_confirmed_at

(* It holds of the table and of everything a session may yet commit.       *)
Timed ==
  /\ \A o \in Orders : Stored(o) => WellTimed(row[o])
  /\ \A s \in Sessions, o \in Orders : view[s][o] # None => WellTimed(view[s][o])

(* A new order is well timed: it has no timestamp a caller did not give.   *)
LEMMA NewWellTimed == \A v \in Values : WellTimed(NewOrder(v))
BY DEF WellTimed, NewOrder, Given, Timestamped

(* A legal write keeps an order well timed: a confirmed order cannot be    *)
(* sent again, and whatever is confirmed now was sent before.              *)
LEMMA WrittenWellTimed ==
  ASSUME TypeOK, NEW r \in Order, WellTimed(r), NEW v \in Values,
         v.transport # NotGiven => Allowed(TransportTransitions, r.transport, v.transport)
  PROVE  WellTimed(Written(r, v))
<1>. DEFINE w == Written(r, v)
            t == v.transport
<1>. SUFFICES ASSUME ~w.supplied PROVE WellTimed(w)
  BY DEF WellTimed
<1>1. ~r.supplied /\ v.dispatch_started_at = NotGiven /\ v.registered_confirmed_at = NotGiven
  BY DEF Written, Timestamped
<1>2. /\ w.transport = IF t = NotGiven THEN r.transport ELSE t
      /\ w.dispatch_started_at =
           IF t = "dispatching" THEN now ELSE r.dispatch_started_at
      /\ w.registered_confirmed_at =
           IF t = "registered_confirmed" THEN now ELSE r.registered_confirmed_at
  BY <1>1 DEF Written, Given
<1>3. /\ now \in Nat /\ now # None
      /\ r.dispatch_started_at \in Nat \cup {None}
      /\ r.transport \in TransportStates /\ t \in TransportStates \cup {NotGiven}
      /\ NotGiven # "dispatching" /\ NotGiven # "registered_confirmed"
  BY DEF TypeOK, Moments, Order, Values, TransportStates
<1>. HIDE DEF w
<1>4. CASE t = NotGiven
  BY <1>1, <1>2, <1>3, <1>4 DEF WellTimed
<1>5. CASE t = "registered_confirmed"
  <2>1. /\ w.registered_confirmed_at = now
        /\ w.dispatch_started_at = r.dispatch_started_at
        /\ w.transport = "registered_confirmed"
    BY <1>2, <1>3, <1>5
  <2>2. QED
    BY <1>1, <1>3, <2>1 DEF WellTimed
<1>6. CASE t \in TransportStates \ {"registered_confirmed"}
  <2>1. r.transport # "registered_confirmed"
    BY <1>3, <1>6, TransportMoves
  <2>2. /\ w.registered_confirmed_at = None
        /\ w.transport = t /\ t # "registered_confirmed"
    BY <1>1, <1>2, <1>3, <1>6, <2>1 DEF WellTimed
  <2>3. CASE t = "dispatching"
    BY <1>2, <1>3, <2>2, <2>3 DEF WellTimed
  <2>4. CASE t # "dispatching"
    BY <1>1, <1>2, <2>2, <2>4 DEF WellTimed
  <2>5. QED
    BY <2>3, <2>4
<1>7. QED
  BY <1>3, <1>4, <1>5, <1>6

LEMMA InitTimed == Init => Timed
BY DEF Init, Timed, NoOrders, Stored

LEMMA TimedStep ==
  ASSUME TypeOK, Timed, [Next]_vars
  PROVE  Timed'
<1>. USE DEF TypeOK
<1>1. ASSUME NEW o \in Orders, NEW v \in Values, Create(o, v) PROVE Timed'
  <2>1. WellTimed(NewOrder(v))
    BY NewWellTimed
  <2>2. QED
    BY <1>1, <2>1 DEF Create, Timed, Stored, WellTimed
<1>2. ASSUME NEW s \in Sessions, Begin(s) PROVE Timed'
  BY <1>2 DEF Begin, Timed, Stored, WellTimed
<1>3. ASSUME NEW s \in Sessions, Commit(s) \/ Rollback(s) PROVE Timed'
  <2>1. \A o \in Orders : row'[o] = row[o] \/ row'[o] = view[s][o]
    BY <1>3 DEF Commit, Rollback
  <2>2. view' = [view EXCEPT ![s] = NoOrders] /\ now' = now
    BY <1>3 DEF Commit, Rollback, Closed
  <2>3. \A o \in Orders : row'[o] # None => WellTimed(row'[o])
    BY <2>1 DEF Timed, Stored
  <2>4. \A u \in Sessions, o \in Orders : view'[u][o] # None => view'[u][o] = view[u][o]
    BY <2>2 DEF NoOrders
  <2>5. QED
    BY <2>2, <2>3, <2>4 DEF Timed, Stored, WellTimed
<1>4. ASSUME NEW s \in Sessions, NEW S \in SUBSET Orders,
             NEW v \in Values, Write(s, S, v)
      PROVE  Timed'
  <2>1. /\ row' = row /\ now' = now
        /\ \A u \in Sessions \ {s} : view'[u] = view[u]
        /\ \A o \in Orders : view'[s][o] = IF o \in S THEN Written(view[s][o], v)
                                           ELSE view[s][o]
    BY <1>4 DEF Write
  <2>2. ASSUME NEW o \in S PROVE WellTimed(Written(view[s][o], v))
    <3>1. view[s][o] \in Order /\ WellTimed(view[s][o])
      BY <1>4 DEF Write, Timed
    <3>2. v.transport # NotGiven
            => Allowed(TransportTransitions, view[s][o].transport, v.transport)
      BY <1>4 DEF Write, Legal
    <3>3. QED
      BY <3>1, <3>2, WrittenWellTimed
  <2>3. QED
    BY <2>1, <2>2 DEF Timed, Stored, WellTimed
<1>5. CASE Tick
  <2>1. row' = row /\ view' = view /\ now' = now + 1
    BY <1>5 DEF Tick
  <2>2. ASSUME NEW r \in Order, WellTimed(r) PROVE WellTimed(r)'
    BY <2>1, <2>2 DEF WellTimed, Order, Moments
  <2>3. \A o \in Orders : Stored(o) => row[o] \in Order
    BY DEF Stored
  <2>4. \A s \in Sessions, o \in Orders : view[s][o] # None => view[s][o] \in Order
    OBVIOUS
  <2>5. QED
    BY <2>1, <2>2, <2>3, <2>4 DEF Timed, Stored, WellTimed
<1>6. CASE UNCHANGED vars
  BY <1>6 DEF vars, Timed, Stored, WellTimed
<1>7. QED
  BY <1>1, <1>2, <1>3, <1>4, <1>5, <1>6 DEF Next

(* While callers give no timestamp of their own for an order, no duration  *)
(* of the dashboard is negative or lacks an end, whatever sessions write   *)
(* of it, and of others, at whatever moments (order.py:121-126, 178-183).  *)
THEOREM DurationsHold == Spec => []DurationsMakeSense
<1>1. Timed => DurationsMakeSense
  BY DEF Timed, WellTimed, DurationsMakeSense
<1>2. TypeOK /\ Timed /\ [Next]_vars => Timed'
  BY TimedStep
<1>3. QED
  BY InitType, NextType, InitTimed, <1>1, <1>2, PTL DEF Spec
=============================================================================
