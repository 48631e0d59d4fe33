---------------------------- MODULE OrderIngress ----------------------------
(***************************************************************************)
(* octa_hub_api/controllers/api_controller.py: receive_order_event, the    *)
(* webhook a connector posts order events to, with the two tables one of   *)
(* its transactions writes: octa_hub_order and octa_hub_outbox_item.       *)
(*                                                                         *)
(* A sender repeats an event until it gets an answer that settles it; a    *)
(* repeat may arrive while the first is still being handled.  The answer   *)
(* leaves after the commit and may be lost.                                *)
(*                                                                         *)
(* The database (external).  A request is one transaction; an insert that  *)
(* meets an uncommitted row with the same unique key waits for that        *)
(* transaction; one that meets a committed row raises UniqueViolation,     *)
(* whether or not the transaction can SEE that row.  Under REPEATABLE      *)
(* READ, which Odoo sets, searches see the tables as of the first query of *)
(* the request; under READ COMMITTED, the default of the database, as they *)
(* are.  Both are modelled: the code leaves the choice to its environment. *)
(***************************************************************************)
EXTENDS Naturals, FiniteSets

CONSTANTS
  Events,         \* the events the senders have to deliver
  Keys,           \* (organization, connection, external_order_id)
  Contents,       \* what content_hash is computed from, as text
  OrderKey,       \* the key an event carries
  Content,        \* the content an event carries
  AsStored,       \* a content as it reads back from the order's columns
  Refusal,        \* the status of the check an event fails, or Accepted
  Accepted,
  OrderIds,       \* bound: ids of the order table
  HttpWorkers,
  Isolations,     \* the isolation levels considered
  None,           \* "no value"
  MaxFaults       \* bound: how many requests fail or answers are lost

Codes == {"invalid_json", "unauthorized", "capability_unsupported", "validation_error"}

ASSUME EventsAssumption ==
  /\ OrderKey \in [Events -> Keys]
  /\ Content \in [Events -> Contents]
  /\ AsStored \in [Contents -> Contents]
  /\ \A c \in Contents : AsStored[AsStored[c]] = AsStored[c]
  /\ Refusal \in [Events -> Codes \cup {Accepted}]
ASSUME ValuesAssumption ==
  /\ Accepted \notin Codes /\ None \notin Events
  /\ OrderIds \subseteq Nat
  /\ Isolations \subseteq {"repeatable_read", "read_committed"}
  /\ MaxFaults \in Nat

VARIABLES
  isolation,  \* the isolation level, which never changes
  orders,     \* committed rows of octa_hub_order
  outbox,     \* order ids the committed outbox items were made for
  req,        \* what each HTTP worker is doing
  answers,    \* the answers a sender has received for an event
  faults      \* how many faults there have been

vars == <<isolation, orders, outbox, req, answers, faults>>

Order == [id : OrderIds, key : Keys, content : Contents]

ASSUME NoneAssumption == None \notin Order

Replies == {"stored", "duplicate_same_payload", "conflict_different_payload",
            "unresolved_conflict", "error"} \cup Codes

Request ==
  [phase : {"idle", "absent", "violated", "inserted", "queued", "replying"},
   event : Events \cup {None}, snapshot : SUBSET Order,
   row : Order \cup {None}, reply : Replies \cup {None}]

IdleRequest ==
  [phase |-> "idle", event |-> None, snapshot |-> {}, row |-> None, reply |-> None]

TypeOK ==
  /\ isolation \in Isolations
  /\ orders \subseteq Order
  /\ outbox \subseteq OrderIds
  /\ req \in [HttpWorkers -> Request]
  /\ \A r \in HttpWorkers : req[r].row # None <=> req[r].phase \in {"inserted", "queued"}
  /\ answers \in [Events -> SUBSET Replies]
  /\ faults \in 0 .. MaxFaults

(***************************************************************************)
(* Helpers.                                                                *)
(***************************************************************************)
(* Answers after which a sender stops: all but 5xx.                        *)
Settling == Replies \ {"unresolved_conflict", "error"}

(* A mutant: the search looks in the wrong place.                          *)
Found_MutantNothing(seen, e) == {}

(* The row the search by key finds among the rows `seen`.                  *)
Found(seen, e) == {o \in seen : o.key = OrderKey[e]}

(* A mutant: the contents are not compared.                                *)
Verdict_MutantAlwaysConflict(o, e) == "conflict_different_payload"

(* The two hashes are equal when the texts they are computed from are.     *)
Verdict(o, e) ==
  IF o.content = Content[e] THEN "duplicate_same_payload" ELSE "conflict_different_payload"

(* A mutant: the search never sees later commits.                          *)
Seen_MutantAlwaysSnapshot(r) == req[r].snapshot

(* What a search in r's transaction sees.                                  *)
Seen(r) == IF isolation = "repeatable_read" THEN req[r].snapshot ELSE orders

(* Rows inserted by transactions that have not ended.                      *)
Uncommitted == {req[r].row : r \in HttpWorkers} \ {None}

(* Ids come from a sequence; those of rolled back rows are not told apart.  *)
FreeIds == OrderIds \ {o.id : o \in orders \cup Uncommitted}

NextId == CHOOSE id \in FreeIds : \A other \in FreeIds : id <= other

(* The transaction is over and its answer is on the way.                   *)
Answering(e, reply) ==
  [IdleRequest EXCEPT !.phase = "replying", !.event = e, !.reply = reply]

(***************************************************************************)
(* Actions.                                                                *)
(***************************************************************************)
Init ==
  /\ isolation \in Isolations
  /\ orders = {}
  /\ outbox = {}
  /\ req = [r \in HttpWorkers |-> IdleRequest]
  /\ answers = [e \in Events |-> {}]
  /\ faults = 0

(* A delivery of e reaches a free worker -- the first, a retry, or a stray  *)
(* repeat of an event that was answered long ago.  The checks come in the  *)
(* order of the code (body, key, capability, id and currency), then the    *)
(* search for the order.  The first query takes the snapshot.              *)
Receive(r, e) ==
  /\ req[r].phase = "idle"
  /\ \/ /\ Refusal[e] # Accepted
        /\ req' = [req EXCEPT ![r] = Answering(e, Refusal[e])]
     \/ /\ Refusal[e] = Accepted /\ Found(orders, e) = {}
        /\ req' = [req EXCEPT ![r] = [IdleRequest EXCEPT !.phase = "absent", !.event = e,
                                                         !.snapshot = orders]]
     \/ /\ Refusal[e] = Accepted
        /\ \E o \in Found(orders, e) :
             req' = [req EXCEPT ![r] = Answering(e, Verdict(o, e))]
  /\ UNCHANGED <<isolation, orders, outbox, answers, faults>>

(* A mutant: only rows the request sees are checked.                       *)
UniqueViolated_MutantSeenOnly(r, k) == \E o \in req[r].snapshot : o.key = k

(* The unique index knows committed rows the transaction does not see.     *)
UniqueViolated(r, k) == \E o \in orders : o.key = k

(* Order.create in a savepoint.  It waits while another transaction holds  *)
(* the key; a violation undoes only the insert.  OrderIds bounds how many  *)
(* orders there can be.                                                    *)
Insert(r) ==
  LET e == req[r].event
      k == OrderKey[e]
  IN  /\ req[r].phase = "absent"
      /\ \A o \in Uncommitted : o.key # k
      /\ IF UniqueViolated(r, k)
         THEN req' = [req EXCEPT ![r].phase = "violated"]
         ELSE /\ FreeIds # {}
              /\ req' = [req EXCEPT ![r].phase = "inserted",
                           ![r].row = [id |-> NextId, key |-> k,
                                       content |-> AsStored[Content[e]]]]
      /\ UNCHANGED <<isolation, orders, outbox, answers, faults>>

(* A mutant: success without a matching record.                            *)
Resolution_MutantBlindSuccess(found, e) == "duplicate_same_payload"

(* resolve_unique_violation: no success without a matching record.         *)
Resolution(found, e) ==
  IF found = {} THEN "unresolved_conflict"
  ELSE Verdict(CHOOSE o \in found : TRUE, e)

(* The search is repeated in the same transaction to tell a repeat from a  *)
(* conflict.                                                               *)
Resolve(r) ==
  LET e == req[r].event IN
  /\ req[r].phase = "violated"
  /\ req' = [req EXCEPT ![r] = Answering(e, Resolution(Found(Seen(r), e), e))]
  /\ UNCHANGED <<isolation, orders, outbox, answers, faults>>

(* A mutant: the order is dropped on the way.                              *)
Enqueue_MutantLosesRow(r) ==
  /\ req[r].phase = "inserted"
  /\ req' = [req EXCEPT ![r].phase = "queued", ![r].row = None]
  /\ UNCHANGED <<isolation, orders, outbox, answers, faults>>

(* The outbox item goes into the same transaction; its failure is not      *)
(* caught (see Abort).                                                     *)
Enqueue(r) ==
  /\ req[r].phase = "inserted"
  /\ req' = [req EXCEPT ![r].phase = "queued"]
  /\ UNCHANGED <<isolation, orders, outbox, answers, faults>>

Commit(r) ==
  /\ req[r].phase = "queued"
  /\ orders' = orders \cup {req[r].row}
  /\ outbox' = outbox \cup {req[r].row.id}
  /\ req' = [req EXCEPT ![r] = Answering(req[r].event, "stored")]
  /\ UNCHANGED <<isolation, answers, faults>>

(* The answer reaches the sender ...                                       *)
Reply(r) ==
  /\ req[r].phase = "replying"
  /\ answers' = [answers EXCEPT ![req[r].event] = @ \cup {req[r].reply}]
  /\ req' = [req EXCEPT ![r] = IdleRequest]
  /\ UNCHANGED <<isolation, orders, outbox, faults>>

(* ... or is lost.                                                         *)
LoseReply(r) ==
  /\ req[r].phase = "replying" /\ faults < MaxFaults
  /\ faults' = faults + 1
  /\ req' = [req EXCEPT ![r] = IdleRequest]
  /\ UNCHANGED <<isolation, orders, outbox, answers>>

(* An exception (the insert, enqueue or commit fails for another reason)   *)
(* rolls the transaction back and is answered with an error; a worker that *)
(* dies does not answer.                                                   *)
Abort(r) ==
  /\ req[r].phase \in {"absent", "violated", "inserted", "queued"}
  /\ faults < MaxFaults
  /\ faults' = faults + 1
  /\ \/ req' = [req EXCEPT ![r] = Answering(req[r].event, "error")]
     \/ req' = [req EXCEPT ![r] = IdleRequest]
  /\ UNCHANGED <<isolation, orders, outbox, answers>>

Next ==
  \E r \in HttpWorkers :
    \/ \E e \in Events : Receive(r, e)
    \/ Insert(r) \/ Resolve(r) \/ Enqueue(r) \/ Commit(r)
    \/ Reply(r) \/ LoseReply(r) \/ Abort(r)

(* A sender repeats an event until it is settled and gets through however  *)
(* busy the workers are, and a request taken up is carried on with.        *)
Fairness ==
  /\ \A e \in Events :
       SF_vars(/\ answers[e] \cap Settling = {}
               /\ \E r \in HttpWorkers : Receive(r, e))
  /\ \A r \in HttpWorkers :
       WF_vars(Insert(r) \/ Resolve(r) \/ Enqueue(r) \/ Commit(r) \/ Reply(r))

Spec == Init /\ [][Next]_vars
FairSpec == Spec /\ Fairness

-----------------------------------------------------------------------------
(***************************************************************************)
(* Properties.                                                             *)
(***************************************************************************)

(* Every committed order has an outbox item of its own and every item an   *)
(* order, so no stored order is left without anything to send it           *)
(* (api_controller.py:217-224), and a key has one order (order.py:78-81).  *)
StoredOnceAndQueued ==
  /\ outbox = {o.id : o \in orders}
  /\ \A o, p \in orders : o.key = p.key \/ o.id = p.id => o = p

(* A sender that was told its event is stored, or a repeat, can rely on    *)
(* it: the order is committed with this content -- whatever requests raced *)
(* it, failed, or lost their answer (api_controller.py:7, 143, 170-173).   *)
AcknowledgedIsStored ==
  \A e \in Events :
    answers[e] \cap {"stored", "duplicate_same_payload"} # {} =>
      \E o \in orders : o.key = OrderKey[e] /\ o.content = AsStored[Content[e]]

(* A conflict is reported only when the stored order is not the one this   *)
(* event makes; an event repeated unchanged is never refused as a conflict *)
(* (api_controller.py:34-38, 145; idempotency.py:11-12) -- as long as its  *)
(* content reads back as it was sent, which a fractional or null total     *)
(* does not.                                                               *)
ConflictIsReal ==
  \A e \in Events :
    /\ AsStored[Content[e]] = Content[e]
    /\ "conflict_different_payload" \in answers[e]
    => \E o \in orders : o.key = OrderKey[e] /\ o.content # AsStored[Content[e]]

(* The repeat that loses a race is resolved as the duplicate, or the       *)
(* conflict, that it is (api_controller.py:200-207).                       *)
RaceIsResolved == \A e \in Events : "unresolved_conflict" \notin answers[e]

(* Where it is not, the race was lost to an order that is committed with   *)
(* this key and that only the snapshot of the request hid, so that nothing *)
(* is missing and the next repeat finds it; under READ COMMITTED every     *)
(* race is resolved (api_controller.py:176-198).                           *)
LoserHasAWinner ==
  \A e \in Events : "unresolved_conflict" \in answers[e] =>
    /\ \E o \in orders : o.key = OrderKey[e]
    /\ isolation # "read_committed"

(* Every event is settled in the end.                                      *)
EventuallyAnswered == \A e \in Events : <>(answers[e] \cap Settling # {})

=============================================================================
