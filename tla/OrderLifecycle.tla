--------------------------- MODULE OrderLifecycle ---------------------------
(***************************************************************************)
(* octa_hub_core/models/order.py and lib/state_machine.py: the transport   *)
(* and the commercial state of an order, the guards of create() and        *)
(* write(), and the two transport timestamps the dashboard computes its    *)
(* durations from.                                                         *)
(*                                                                         *)
(* Sessions write orders in transactions of the database (external, see    *)
(* OutboxTable): write() validates against the state its snapshot shows,   *)
(* an update waits for the row, and a row changed after the snapshot       *)
(* aborts the transaction.                                                 *)
(***************************************************************************)
EXTENDS Naturals

CONSTANTS
  Orders,    \* orders
  Sessions,  \* transactions that may be open at a time
  None,      \* "no value"
  NotGiven,  \* in the values of a write: a field they leave out
  SentTimes, ConfirmedTimes, \* the timestamps a caller may put among them itself
  MaxClock   \* bound: the last moment

VARIABLES
  row,   \* the committed orders
  open,  \* the sessions with an open transaction
  view,  \* the orders as a session sees them
  wrote, \* the orders a session has written, and so holds
  now    \* the clock (fields.Datetime.now)

vars == <<row, open, view, wrote, now>>

(***************************************************************************)
(* The tables of state_machine.py.                                         *)
(***************************************************************************)
TransportStates == {"stored", "pending_dispatch", "dispatching",
                    "registered_confirmed", "unknown", "needs_intervention"}

TransportTransitions ==
  [stored               |-> {"pending_dispatch", "dispatching"},
   pending_dispatch     |-> {"dispatching", "unknown"},
   dispatching          |-> {"registered_confirmed", "unknown", "needs_intervention"},
   unknown              |-> {"registered_confirmed", "needs_intervention", "dispatching"},
   needs_intervention   |-> {"registered_confirmed", "dispatching"},
   registered_confirmed |-> {}]

CommercialStates == {"new", "accepted", "rejected", "in_preparation", "ready",
                     "completed", "cancelled"}

CommercialTransitions ==
  [new            |-> {"accepted", "rejected", "cancelled"},
   accepted       |-> {"in_preparation", "cancelled"},
   rejected       |-> {},
   in_preparation |-> {"ready", "cancelled"},
   ready          |-> {"completed", "cancelled"},
   completed      |-> {},
   cancelled      |-> {}]

FinalCommercialStates == {"rejected", "completed", "cancelled"}

(* validate_*_transition: writing the state an order is in is no change.   *)
Allowed(transitions, old, new) == old = new \/ new \in transitions[old]

-----------------------------------------------------------------------------
Moments == 0 .. MaxClock

Order ==
  [transport : TransportStates, commercial : CommercialStates,
   dispatch_started_at : Moments \cup {None},
   registered_confirmed_at : Moments \cup {None},
   supplied : BOOLEAN]    \* history: a caller has given a timestamp of its own

(* The values of a create() or write(), as far as they matter here.        *)
Values ==
  [transport : TransportStates \cup {NotGiven}, commercial : CommercialStates \cup {NotGiven},
   dispatch_started_at : SentTimes \cup {NotGiven},
   registered_confirmed_at : ConfirmedTimes \cup {NotGiven}]

ASSUME ClockAssumption == MaxClock \in Nat
ASSUME SuppliedAssumption == SentTimes \cup ConfirmedTimes \subseteq Moments \cup {None}
ASSUME NotGivenAssumption ==
  /\ NotGiven \notin Moments \cup {None}
  /\ NotGiven \notin TransportStates /\ NotGiven \notin CommercialStates
ASSUME NoneAssumption ==
  /\ None \notin Order /\ None \notin Moments
  /\ None \notin TransportStates /\ None \notin CommercialStates

Given(value, otherwise) == IF value = NotGiven THEN otherwise ELSE value

Timestamped(v) == v.dispatch_started_at # NotGiven \/ v.registered_confirmed_at # NotGiven

(* create() rejects any other state to begin with, and keeps the rest.     *)
Creatable(v) == v.transport \in {NotGiven, "stored"} /\ v.commercial \in {NotGiven, "new"}

NewOrder(v) ==
  [transport |-> "stored", commercial |-> "new",
   dispatch_started_at |-> Given(v.dispatch_started_at, None),
   registered_confirmed_at |-> Given(v.registered_confirmed_at, None),
   supplied |-> Timestamped(v)]

TypeOK ==
  /\ row \in [Orders -> Order \cup {None}]
  /\ open \subseteq Sessions
  /\ view \in [Sessions -> [Orders -> Order \cup {None}]]
  /\ wrote \in [Sessions -> SUBSET Orders]
  /\ \A s \in Sessions : wrote[s] # {} => s \in open
  /\ now \in Moments

NoOrders == [o \in Orders |-> None]

(* A mutant: the moment of any write of the transport state is stamped.    *)
Written_MutantAnyWriteStamps(r, v) ==
  [transport |-> Given(v.transport, r.transport),
   commercial |-> Given(v.commercial, r.commercial),
   dispatch_started_at |->
     Given(v.dispatch_started_at, IF v.transport = "dispatching" THEN now ELSE r.dispatch_started_at),
   registered_confirmed_at |->
     Given(v.registered_confirmed_at, IF v.transport # NotGiven THEN now ELSE r.registered_confirmed_at),
   supplied |-> r.supplied \/ Timestamped(v)]

(* The update write() makes of one order: a timestamp among the values is  *)
(* kept, and only a missing one is set (vals.setdefault).                  *)
Written(r, v) ==
  [transport |-> Given(v.transport, r.transport),
   commercial |-> Given(v.commercial, r.commercial),
   dispatch_started_at |->
     Given(v.dispatch_started_at,
           IF v.transport = "dispatching" THEN now ELSE r.dispatch_started_at),
   registered_confirmed_at |->
     Given(v.registered_confirmed_at,
           IF v.transport = "registered_confirmed" THEN now ELSE r.registered_confirmed_at),
   supplied |-> r.supplied \/ Timestamped(v)]

(* write() checks every order of the record set before it writes any, and  *)
(* checks nothing when the values hold neither state.                      *)
Legal(s, S, v) ==
  \A o \in S :
    /\ v.transport # NotGiven
         => Allowed(TransportTransitions, view[s][o].transport, v.transport)
    /\ v.commercial # NotGiven
         => Allowed(CommercialTransitions, view[s][o].commercial, v.commercial)

(* A mutant: the database lets an update of a changed row go ahead.        *)
Changed_MutantNever(s, S) == FALSE

(* An order of S was changed after s took its snapshot.                    *)
Changed(s, S) == \E o \in S \ wrote[s] : row[o] # view[s][o]

Held(S, s) == \E other \in Sessions \ {s} : S \cap wrote[other] # {}

(* A mutant: the orders a session wrote stay locked after it.              *)
Closed_MutantKeepsLocks(s) ==
  /\ open' = open \ {s}
  /\ view' = [view EXCEPT ![s] = NoOrders]
  /\ UNCHANGED wrote

Closed(s) ==
  /\ open' = open \ {s}
  /\ view' = [view EXCEPT ![s] = NoOrders]
  /\ wrote' = [wrote EXCEPT ![s] = {}]

-----------------------------------------------------------------------------
Init ==
  /\ row = NoOrders
  /\ open = {}
  /\ view = [s \in Sessions |-> NoOrders]
  /\ wrote = [s \in Sessions |-> {}]
  /\ now = 0

(* create(), committed with the event that brought the order in.           *)
Create(o, v) ==
  /\ row[o] = None
  /\ Creatable(v)
  /\ row' = [row EXCEPT ![o] = NewOrder(v)]
  /\ UNCHANGED <<open, view, wrote, now>>

Begin(s) ==
  /\ s \notin open
  /\ open' = open \cup {s}
  /\ view' = [view EXCEPT ![s] = row]
  /\ UNCHANGED <<row, wrote, now>>

(* write() of the values v on the record set S.                            *)
Write(s, S, v) ==
  /\ s \in open
  /\ \A o \in S : view[s][o] # None
  /\ Legal(s, S, v)
  /\ ~Held(S, s) /\ ~Changed(s, S)
  /\ view' = [view EXCEPT ![s] =
                [o \in Orders |-> IF o \in S THEN Written(@[o], v) ELSE @[o]]]
  /\ wrote' = [wrote EXCEPT ![s] = @ \cup S]
  /\ UNCHANGED <<row, open, now>>

Commit(s) ==
  /\ s \in open
  /\ row' = [o \in Orders |-> IF o \in wrote[s] THEN view[s][o] ELSE row[o]]
  /\ Closed(s)
  /\ UNCHANGED now

(* An illegal transition raises ValidationError, an update of a changed    *)
(* row a serialization failure, and a session may fail on its own account. *)
Rollback(s) ==
  /\ s \in open
  /\ Closed(s)
  /\ UNCHANGED <<row, now>>

Tick ==
  /\ now < MaxClock
  /\ now' = now + 1
  /\ UNCHANGED <<row, open, view, wrote>>

Next ==
  \/ \E o \in Orders, v \in Values : Create(o, v)
  \/ \E s \in Sessions :
       \/ Begin(s) \/ Commit(s) \/ Rollback(s)
       \/ \E S \in SUBSET Orders \ {{}}, v \in Values :
            (\E f \in DOMAIN v : v[f] # NotGiven) /\ Write(s, S, v)
  \/ Tick

Spec == Init /\ [][Next]_vars

-----------------------------------------------------------------------------
(***************************************************************************)
(* Properties.                                                             *)
(***************************************************************************)
Stored(o) == row[o] # None

(* How far an order has come, for orders that go all the way.              *)
Progress(c) ==
  CASE c = "new" -> 0 [] c = "accepted" -> 1 [] c = "in_preparation" -> 2
    [] c = "ready" -> 3 [] OTHER -> 4

(* Committed orders never go back, however transactions overlap: a final   *)
(* state is final, an order that has left "stored" never returns to it,    *)
(* and the kitchen never goes back a stage (state_machine.py:3-4, 23-25,   *)
(* 35-37).                                                                 *)
NeverBack ==
  [][\A o \in Orders : Stored(o) =>
       /\ (row[o].transport = "registered_confirmed"
             => row'[o].transport = "registered_confirmed")
       /\ (row'[o].transport = "stored" => row[o].transport = "stored")
       /\ (row[o].commercial \in FinalCommercialStates
             => row'[o].commercial = row[o].commercial)
       /\ Progress(row[o].commercial) <= Progress(row'[o].commercial)]_vars

(* Of the orders whose timestamps are all write()'s own, exactly the       *)
(* confirmed have the moment they were confirmed at, those in dispatch     *)
(* have the moment they were sent, and that is no later, so that no        *)
(* duration of the dashboard is negative (order.py:121-126, 178-183).      *)
(* Nothing holds of an order of which a caller has given a timestamp:      *)
(* setdefault keeps it (124, 126), and a write of the timestamps alone     *)
(* passes the check of line 111, so that the field help "the moment of     *)
(* the actual transition" (62-63) rests on callers giving none.            *)
DurationsMakeSense ==
  \A o \in Orders : Stored(o) /\ ~row[o].supplied =>
    LET sent == row[o].dispatch_started_at
        confirmed == row[o].registered_confirmed_at
    IN  /\ (confirmed # None) <=> (row[o].transport = "registered_confirmed")
        /\ row[o].transport = "dispatching" => sent # None
        /\ (confirmed # None /\ sent # None) => sent <= confirmed

(* The timestamps are recorded only at the moment of the actual transition *)
(* (order.py:60-61, 121-123); checked where no caller gives one of its own.*)
StampedOnTransitionOnly ==
  [][\A o \in Orders :
       (Stored(o) /\ row'[o].registered_confirmed_at # row[o].registered_confirmed_at)
         => row'[o].transport # row[o].transport]_vars

=============================================================================
