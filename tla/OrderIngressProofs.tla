------------------------- MODULE OrderIngressProofs -------------------------
(***************************************************************************)
(* What holds of OrderIngress for every set of events, keys and HTTP       *)
(* workers, either isolation level and any number of faults.               *)
(***************************************************************************)
EXTENDS OrderIngress, WellFoundedInduction, TLAPS

USE EventsAssumption, ValuesAssumption, NoneAssumption

-----------------------------------------------------------------------------
(* Types.                                                                  *)

(* The sequence hands out an id that is free.                              *)
LEMMA NextIdIsFree ==
  ASSUME FreeIds # {}
  PROVE  NextId \in FreeIds
<1>1. IsWellFoundedOn(OpToRel(<, Nat), Nat)
  BY NatLessThanWellFounded
<1>2. FreeIds \subseteq Nat
  BY DEF FreeIds
<1>3. PICK id \in FreeIds : \A other \in FreeIds : ~(<<other, id>> \in OpToRel(<, Nat))
  BY <1>1, <1>2, WFMin
<1>4. \A other \in FreeIds : ~(other < id)
  <2>. SUFFICES ASSUME NEW other \in FreeIds, other < id PROVE FALSE
    OBVIOUS
  <2>1. <<other, id>> \in {ss \in Nat \X Nat : ss[1] < ss[2]}
    BY <1>2
  <2>2. QED
    BY <2>1, <1>3, Zenon DEF OpToRel
<1>5. \A other \in FreeIds : id <= other
  BY <1>2, <1>4
<1>6. QED
  BY <1>5 DEF NextId

(* Where a request stands fits what it holds: an event once it is taken    *)
(* up, a row from the insert to the commit, an answer at the end.          *)
Coherent(q) ==
  /\ q.row # None <=> q.phase \in {"inserted", "queued"}
  /\ q.phase # "idle" => q.event \in Events
  /\ q.phase = "replying" => q.reply \in Replies

Shape == TypeOK /\ \A r \in HttpWorkers : Coherent(req[r])

LEMMA IdleType == IdleRequest \in Request /\ Coherent(IdleRequest)
BY DEF IdleRequest, Request, Coherent

LEMMA AnsweringType ==
  ASSUME NEW e \in Events, NEW reply \in Replies
  PROVE  LET q == Answering(e, reply) IN
         /\ q \in Request /\ Coherent(q)
         /\ q.phase = "replying" /\ q.event = e /\ q.reply = reply
         /\ q.snapshot = {} /\ q.row = None
BY DEF Answering, IdleRequest, Request, Coherent

LEMMA AbsentType ==
  ASSUME NEW e \in Events, orders \subseteq Order
  PROVE  LET q == [IdleRequest EXCEPT !.phase = "absent", !.event = e,
                                      !.snapshot = orders]
         IN  /\ q \in Request /\ Coherent(q)
             /\ q.phase = "absent" /\ q.event = e /\ q.snapshot = orders /\ q.row = None
BY DEF IdleRequest, Request, Coherent

LEMMA InitShape == Init => Shape
<1>. SUFFICES ASSUME Init PROVE Shape
  OBVIOUS
<1>1. \A r \in HttpWorkers : req[r] = IdleRequest
  BY DEF Init
<1>2. req \in [HttpWorkers -> Request]
  BY IdleType DEF Init
<1>3. \A r \in HttpWorkers : Coherent(req[r])
  BY <1>1, IdleType
<1>4. QED
  BY <1>2, <1>3 DEF Init, Shape, TypeOK, Coherent

-----------------------------------------------------------------------------
(* What a step does to the request it is a step of, and to nothing else.   *)

(* The request r of a step becomes q; rows and answers only accumulate.    *)
Becomes(r, q) ==
  /\ req' = [req EXCEPT ![r] = q]
  /\ q \in Request /\ Coherent(q)

LEMMA ReceiveStep ==
  ASSUME Shape, NEW r \in HttpWorkers, NEW e \in Events, Receive(r, e)
  PROVE  /\ UNCHANGED <<isolation, orders, outbox, answers, faults>>
         /\ \/ /\ Refusal[e] # Accepted
               /\ Becomes(r, Answering(e, Refusal[e]))
            \/ /\ Found(orders, e) = {}
               /\ Becomes(r, [IdleRequest EXCEPT !.phase = "absent", !.event = e,
                                                 !.snapshot = orders])
            \/ \E o \in Found(orders, e) : Becomes(r, Answering(e, Verdict(o, e)))
<1>1. CASE Refusal[e] # Accepted /\ req' = [req EXCEPT ![r] = Answering(e, Refusal[e])]
  <2>1. Refusal[e] \in Replies
    BY <1>1 DEF Replies
  <2>2. QED
    BY <1>1, <2>1, AnsweringType DEF Receive, Becomes
<1>2. ASSUME Found(orders, e) = {},
             req' = [req EXCEPT ![r] = [IdleRequest EXCEPT !.phase = "absent", !.event = e,
                                                           !.snapshot = orders]]
      PROVE  Becomes(r, [IdleRequest EXCEPT !.phase = "absent", !.event = e,
                                            !.snapshot = orders])
  BY <1>2, AbsentType DEF Becomes, Shape, TypeOK
<1>3. ASSUME NEW o \in Found(orders, e),
             req' = [req EXCEPT ![r] = Answering(e, Verdict(o, e))]
      PROVE  Becomes(r, Answering(e, Verdict(o, e)))
  <2>1. Verdict(o, e) \in Replies
    BY DEF Verdict, Replies
  <2>2. QED
    BY <1>3, <2>1, AnsweringType DEF Becomes
<1>4. QED
  BY <1>1, <1>2, <1>3 DEF Receive

LEMMA InsertStep ==
  ASSUME Shape, NEW r \in HttpWorkers, Insert(r)
  PROVE  LET k == OrderKey[req[r].event] IN
         /\ UNCHANGED <<isolation, orders, outbox, answers, faults>>
         /\ req[r].phase = "absent" /\ req[r].event \in Events
         /\ \/ /\ \E o \in orders : o.key = k
               /\ Becomes(r, [req[r] EXCEPT !.phase = "violated"])
            \/ /\ \A o \in orders \cup Uncommitted : o.key # k
               /\ FreeIds # {}
               /\ Becomes(r, [req[r] EXCEPT
                     !.phase = "inserted",
                     !.row = [id |-> NextId, key |-> k,
                              content |-> AsStored[Content[req[r].event]]]])
<1>. DEFINE e == req[r].event
            new == [id |-> NextId, key |-> OrderKey[e], content |-> AsStored[Content[e]]]
<1>1. /\ req[r] \in Request /\ req[r].phase = "absent" /\ Coherent(req[r])
      /\ e \in Events /\ req \in [HttpWorkers -> Request]
      /\ UNCHANGED <<isolation, orders, outbox, answers, faults>>
  BY DEF Insert, Shape, TypeOK, Coherent
<1>2. CASE UniqueViolated(r, OrderKey[e])
  <2>1. req' = [req EXCEPT ![r] = [req[r] EXCEPT !.phase = "violated"]]
    BY <1>1, <1>2 DEF Insert
  <2>2. /\ [req[r] EXCEPT !.phase = "violated"] \in Request
        /\ Coherent([req[r] EXCEPT !.phase = "violated"])
    BY <1>1 DEF Request, Coherent
  <2>3. QED
    BY <1>1, <1>2, <2>1, <2>2 DEF UniqueViolated, Becomes
<1>3. CASE ~UniqueViolated(r, OrderKey[e])
  <2>1. FreeIds # {} /\ req' = [req EXCEPT ![r].phase = "inserted", ![r].row = new]
    BY <1>3 DEF Insert
  <2>2. new \in Order
    BY <1>1, <2>1, NextIdIsFree DEF Order, FreeIds
  <2>. HIDE DEF new
  <2>3. req' = [req EXCEPT ![r] = [req[r] EXCEPT !.phase = "inserted", !.row = new]]
    BY <1>1, <2>1
  <2>4. /\ [req[r] EXCEPT !.phase = "inserted", !.row = new] \in Request
        /\ Coherent([req[r] EXCEPT !.phase = "inserted", !.row = new])
    BY <1>1, <2>2 DEF Request, Coherent
  <2>5. \A o \in orders \cup Uncommitted : o.key # OrderKey[e]
    BY <1>3 DEF Insert, UniqueViolated
  <2>6. QED
    BY <1>1, <2>1, <2>3, <2>4, <2>5 DEF Becomes, new
<1>4. QED
  BY <1>2, <1>3

LEMMA ResolveStep ==
  ASSUME Shape, NEW r \in HttpWorkers, Resolve(r)
  PROVE  LET e == req[r].event IN
         /\ UNCHANGED <<isolation, orders, outbox, answers, faults>>
         /\ req[r].phase = "violated" /\ e \in Events
         /\ Becomes(r, Answering(e, Resolution(Found(Seen(r), e), e)))
<1>. DEFINE e == req[r].event
<1>1. req[r].phase = "violated" /\ e \in Events
  BY DEF Resolve, Shape, Coherent
<1>2. Resolution(Found(Seen(r), e), e) \in Replies
  BY DEF Resolution, Verdict, Replies
<1>3. QED
  BY <1>1, <1>2, AnsweringType DEF Resolve, Becomes

LEMMA EnqueueStep ==
  ASSUME Shape, NEW r \in HttpWorkers, Enqueue(r)
  PROVE  /\ UNCHANGED <<isolation, orders, outbox, answers, faults>>
         /\ req[r].phase = "inserted"
         /\ Becomes(r, [req[r] EXCEPT !.phase = "queued"])
<1>1. req[r] \in Request /\ req[r].phase = "inserted" /\ Coherent(req[r])
  BY DEF Enqueue, Shape, TypeOK
<1>2. /\ [req[r] EXCEPT !.phase = "queued"] \in Request
      /\ Coherent([req[r] EXCEPT !.phase = "queued"])
  BY <1>1 DEF Request, Coherent
<1>3. QED
  BY <1>1, <1>2 DEF Enqueue, Becomes

LEMMA CommitStep ==
  ASSUME Shape, NEW r \in HttpWorkers, Commit(r)
  PROVE  /\ UNCHANGED <<isolation, answers, faults>>
         /\ req[r].row \in Order /\ req[r].event \in Events
         /\ orders' = orders \cup {req[r].row}
         /\ outbox' = outbox \cup {req[r].row.id}
         /\ Becomes(r, Answering(req[r].event, "stored"))
<1>1. req[r] \in Request /\ req[r].phase = "queued" /\ Coherent(req[r])
  BY DEF Commit, Shape, TypeOK
<1>2. req[r].row \in Order /\ req[r].event \in Events
  BY <1>1 DEF Request, Coherent
<1>3. "stored" \in Replies
  BY DEF Replies
<1>4. QED
  BY <1>2, <1>3, AnsweringType DEF Commit, Becomes

(* The end of a request: its answer arrives or is lost, or it fails.       *)
LEMMA EndStep ==
  ASSUME Shape, NEW r \in HttpWorkers, Reply(r) \/ LoseReply(r) \/ Abort(r)
  PROVE  /\ UNCHANGED <<isolation, orders, outbox>>
         /\ faults' \in 0 .. MaxFaults
         /\ \/ answers' = answers
            \/ /\ req[r].phase = "replying" /\ req[r].event \in Events
               /\ req[r].reply \in Replies
               /\ answers' = [answers EXCEPT ![req[r].event] = @ \cup {req[r].reply}]
         /\ \/ Becomes(r, IdleRequest)
            \/ req[r].event \in Events /\ Becomes(r, Answering(req[r].event, "error"))
<1>1. Coherent(req[r]) /\ faults \in 0 .. MaxFaults
  BY DEF Shape, TypeOK
<1>2. "error" \in Replies
  BY DEF Replies
<1>3. CASE Reply(r)
  BY <1>1, <1>3, IdleType DEF Reply, Coherent, Becomes
<1>4. CASE LoseReply(r)
  BY <1>1, <1>4, IdleType DEF LoseReply, Becomes
<1>5. CASE Abort(r)
  <2>1. req[r].event \in Events
    BY <1>1, <1>5 DEF Abort, Coherent
  <2>2. UNCHANGED <<isolation, orders, outbox, answers>> /\ faults' \in 0 .. MaxFaults
    BY <1>1, <1>5 DEF Abort
  <2>3. \/ Becomes(r, IdleRequest)
        \/ Becomes(r, Answering(req[r].event, "error"))
    BY <1>2, <1>5, <2>1, IdleType, AnsweringType DEF Abort, Becomes
  <2>4. QED
    BY <2>1, <2>2, <2>3
<1>6. QED
  BY <1>3, <1>4, <1>5

LEMMA NextShape == Shape /\ [Next]_vars => Shape'
<1>. SUFFICES ASSUME Shape, [Next]_vars PROVE Shape'
  OBVIOUS
<1>1. ASSUME NEW r \in HttpWorkers, NEW q, Becomes(r, q)
      PROVE  /\ req' \in [HttpWorkers -> Request]
             /\ \A u \in HttpWorkers : Coherent(req'[u])
  BY <1>1 DEF Becomes, Shape, TypeOK
<1>2. ASSUME NEW r \in HttpWorkers, NEW q, Becomes(r, q),
             isolation' = isolation, orders' \subseteq Order, outbox' \subseteq OrderIds,
             answers' \in [Events -> SUBSET Replies], faults' \in 0 .. MaxFaults
      PROVE  Shape'
  BY <1>1, <1>2 DEF Shape, TypeOK, Coherent
<1>3. ASSUME NEW r \in HttpWorkers, NEW e \in Events, Receive(r, e) PROVE Shape'
  BY <1>2, <1>3, ReceiveStep DEF Shape, TypeOK
<1>4. ASSUME NEW r \in HttpWorkers, Insert(r) PROVE Shape'
  BY <1>2, <1>4, InsertStep DEF Shape, TypeOK
<1>5. ASSUME NEW r \in HttpWorkers, Resolve(r) PROVE Shape'
  BY <1>2, <1>5, ResolveStep DEF Shape, TypeOK
<1>6. ASSUME NEW r \in HttpWorkers, Enqueue(r) PROVE Shape'
  BY <1>2, <1>6, EnqueueStep DEF Shape, TypeOK
<1>7. ASSUME NEW r \in HttpWorkers, Commit(r) PROVE Shape'
  BY <1>2, <1>7, CommitStep DEF Shape, TypeOK, Order
<1>8. ASSUME NEW r \in HttpWorkers, Reply(r) \/ LoseReply(r) \/ Abort(r) PROVE Shape'
  <2>1. answers' \in [Events -> SUBSET Replies]
    BY <1>8, EndStep DEF Shape, TypeOK
  <2>2. QED
    BY <1>2, <1>8, <2>1, EndStep DEF Shape, TypeOK
<1>9. CASE UNCHANGED vars
  BY <1>9 DEF vars, Shape, TypeOK, Coherent
<1>10. QED
  BY <1>3, <1>4, <1>5, <1>6, <1>7, <1>8, <1>9 DEF Next

(* A request holds a row exactly from its insert to its commit, and every  *)
(* table has the type declared (api_controller.py:180-230).                *)
THEOREM IngressTyped == Spec => []TypeOK
<1>1. Shape => TypeOK
  BY DEF Shape
<1>2. QED
  BY InitShape, NextShape, <1>1, PTL DEF Spec

-----------------------------------------------------------------------------
(* The tables.                                                             *)

Apart(o, p) == o.key # p.key /\ o.id # p.id

(* Rows on their way into the table carry what their event says, and share *)
(* neither key nor id with a committed row or with each other.             *)
RowsApart ==
  /\ \A r \in HttpWorkers : req[r].row # None =>
       /\ req[r].row.key = OrderKey[req[r].event]
       /\ req[r].row.content = AsStored[Content[req[r].event]]
       /\ \A o \in orders : Apart(o, req[r].row)
  /\ \A r, u \in HttpWorkers :
       r # u /\ req[r].row # None /\ req[u].row # None => Apart(req[r].row, req[u].row)

(* A stored content is one that reads back as it is.                       *)
ReadsBack == \A o \in orders : AsStored[o.content] = o.content

Tables == StoredOnceAndQueued /\ RowsApart /\ ReadsBack

(* Nothing changes in the tables; the request r holds no row afterwards,   *)
(* or the row it held.                                                     *)
LEMMA TablesAfter ==
  ASSUME Shape, Tables, NEW r \in HttpWorkers, NEW q, Becomes(r, q),
         UNCHANGED <<orders, outbox>>,
         q.row = None \/ (q.row = req[r].row /\ q.event = req[r].event)
  PROVE  Tables'
<1>1. req' = [req EXCEPT ![r] = q] /\ req \in [HttpWorkers -> Request]
  BY DEF Becomes, Shape, TypeOK
<1>2. \A u \in HttpWorkers : req'[u].row # None =>
        req'[u].row = req[u].row /\ req'[u].event = req[u].event
  BY <1>1
<1>3. RowsApart'
  BY <1>2 DEF Tables, RowsApart, Apart
<1>4. QED
  BY <1>3 DEF Tables, StoredOnceAndQueued, ReadsBack

LEMMA InitTables == Init => Tables
BY DEF Init, Tables, StoredOnceAndQueued, RowsApart, ReadsBack, IdleRequest

LEMMA TablesStep ==
  ASSUME Shape, Tables, [Next]_vars
  PROVE  Tables'
<1>. DEFINE Same(r, q) == q.row = None \/ (q.row = req[r].row /\ q.event = req[r].event)
<1>1. ASSUME NEW r \in HttpWorkers, NEW e \in Events, Receive(r, e) PROVE Tables'
  <2>1. PICK q : Becomes(r, q) /\ q.row = None
    <3>1. \A o \in Found(orders, e) : Verdict(o, e) \in Replies
      BY DEF Verdict, Replies
    <3>2. Refusal[e] # Accepted => Refusal[e] \in Replies
      BY DEF Replies
    <3>3. orders \subseteq Order
      BY DEF Shape, TypeOK
    <3>4. CASE Refusal[e] # Accepted /\ Becomes(r, Answering(e, Refusal[e]))
      BY <3>2, <3>4, AnsweringType
    <3>5. CASE Becomes(r, [IdleRequest EXCEPT !.phase = "absent", !.event = e,
                                              !.snapshot = orders])
      BY <3>3, <3>5, AbsentType
    <3>6. ASSUME NEW o \in Found(orders, e), Becomes(r, Answering(e, Verdict(o, e)))
          PROVE  \E q : Becomes(r, q) /\ q.row = None
      BY <3>1, <3>6, AnsweringType
    <3>7. QED
      BY <1>1, <3>4, <3>5, <3>6, ReceiveStep
  <2>2. QED
    BY <1>1, <2>1, ReceiveStep, TablesAfter
<1>2. ASSUME NEW r \in HttpWorkers, Insert(r) PROVE Tables'
  <2>. DEFINE k == OrderKey[req[r].event]
              new == [id |-> NextId, key |-> k,
                      content |-> AsStored[Content[req[r].event]]]
              q == [req[r] EXCEPT !.phase = "inserted", !.row = new]
  <2>1. req[r] \in Request /\ UNCHANGED <<orders, outbox>>
    BY <1>2, InsertStep DEF Shape, TypeOK
  <2>2. CASE Becomes(r, [req[r] EXCEPT !.phase = "violated"])
    <3>1. Same(r, [req[r] EXCEPT !.phase = "violated"])
      BY <2>1 DEF Request
    <3>2. QED
      BY <2>1, <2>2, <3>1, TablesAfter
  <2>3. CASE /\ \A o \in orders \cup Uncommitted : o.key # k
             /\ FreeIds # {} /\ Becomes(r, q)
    <3>1. q.row = new /\ q.event = req[r].event
      BY <2>1 DEF Request
    <3>2. \A o \in orders \cup Uncommitted : Apart(o, new)
      BY <2>3, NextIdIsFree DEF FreeIds, Apart
    <3>3. \A u \in HttpWorkers : req[u].row # None => Apart(req[u].row, new)
                                                   /\ Apart(new, req[u].row)
      BY <3>2 DEF Uncommitted, Apart
    <3>4. /\ \A u \in HttpWorkers \ {r} : req'[u] = req[u]
          /\ req'[r] = q
      BY <2>3 DEF Becomes, Shape, TypeOK
    <3>5. /\ q.row.key = OrderKey[q.event]
          /\ q.row.content = AsStored[Content[q.event]]
      BY <3>1
    <3>. HIDE DEF q, new
    <3>6. RowsApart'
      BY <2>1, <3>1, <3>2, <3>3, <3>4, <3>5 DEF Tables, RowsApart, Apart
    <3>7. QED
      BY <2>1, <3>6 DEF Tables, StoredOnceAndQueued, ReadsBack
  <2>4. QED
    BY <1>2, <2>2, <2>3, InsertStep
<1>3. ASSUME NEW r \in HttpWorkers, Resolve(r) PROVE Tables'
  <2>1. Resolution(Found(Seen(r), req[r].event), req[r].event) \in Replies
    BY DEF Resolution, Verdict, Replies
  <2>2. QED
    BY <1>3, <2>1, ResolveStep, AnsweringType, TablesAfter
<1>4. ASSUME NEW r \in HttpWorkers, Enqueue(r) PROVE Tables'
  <2>1. Same(r, [req[r] EXCEPT !.phase = "queued"])
    BY DEF Request, Shape, TypeOK
  <2>2. QED
    BY <1>4, <2>1, EnqueueStep, TablesAfter
<1>5. ASSUME NEW r \in HttpWorkers, Commit(r) PROVE Tables'
  <2>. DEFINE new == req[r].row
              q == Answering(req[r].event, "stored")
  <2>1. /\ new \in Order /\ req[r].event \in Events
        /\ orders' = orders \cup {new} /\ outbox' = outbox \cup {new.id}
        /\ Becomes(r, q)
    BY <1>5, CommitStep
  <2>2. q.row = None
    BY <2>1, AnsweringType DEF Replies
  <2>3. /\ \A u \in HttpWorkers \ {r} : req'[u] = req[u]
        /\ req'[r] = q
    BY <2>1 DEF Becomes, Shape, TypeOK
  <2>4. /\ \A o \in orders : Apart(o, new)
        /\ new.content = AsStored[Content[req[r].event]]
        /\ \A u \in HttpWorkers \ {r} : req[u].row # None => Apart(new, req[u].row)
    BY <2>1 DEF Tables, RowsApart
  <2>5. AsStored[new.content] = new.content
    BY <2>1, <2>4
  <2>. HIDE DEF new, q
  <2>6. StoredOnceAndQueued'
    <3>1. outbox' = {o.id : o \in orders'}
      BY <2>1 DEF Tables, StoredOnceAndQueued
    <3>2. \A o, p \in orders' : o.key = p.key \/ o.id = p.id => o = p
      BY <2>1, <2>4 DEF Tables, StoredOnceAndQueued, Apart
    <3>3. QED
      BY <3>1, <3>2 DEF StoredOnceAndQueued
  <2>7. RowsApart'
    BY <2>1, <2>2, <2>3, <2>4 DEF Tables, RowsApart, Apart
  <2>8. ReadsBack'
    BY <2>1, <2>5 DEF Tables, ReadsBack
  <2>9. QED
    BY <2>6, <2>7, <2>8 DEF Tables
<1>6. ASSUME NEW r \in HttpWorkers, Reply(r) \/ LoseReply(r) \/ Abort(r) PROVE Tables'
  <2>1. IdleRequest.row = None /\ "error" \in Replies
    BY DEF IdleRequest, Replies
  <2>2. PICK q : Becomes(r, q) /\ q.row = None
    BY <1>6, <2>1, EndStep, AnsweringType
  <2>3. UNCHANGED <<orders, outbox>>
    BY <1>6, EndStep
  <2>4. QED
    BY <2>2, <2>3, TablesAfter
<1>7. CASE UNCHANGED vars
  BY <1>7 DEF vars, Tables, StoredOnceAndQueued, RowsApart, Apart, ReadsBack
<1>8. QED
  BY <1>1, <1>2, <1>3, <1>4, <1>5, <1>6, <1>7 DEF Next

(* However many requests race for a key, the key has one order, and every  *)
(* order has the outbox item that will deliver it (api_controller.py:      *)
(* 217-224; order.py:78-81).                                               *)
THEOREM OneOrderOneItem == Spec => []StoredOnceAndQueued
<1>1. Tables => StoredOnceAndQueued
  BY DEF Tables
<1>2. Shape /\ Tables /\ [Next]_vars => Tables'
  BY TablesStep
<1>3. QED
  BY InitShape, NextShape, InitTables, <1>1, <1>2, PTL DEF Spec

-----------------------------------------------------------------------------
(* The answers.                                                            *)

(* What may be said of e while the committed orders are `rows`: Acknow-    *)
(* ledgedIsStored, ConflictIsReal and LoserHasAWinner of one answer.       *)
Truthful(rows, e, reply) ==
  /\ reply \in {"stored", "duplicate_same_payload"} =>
       \E o \in rows : o.key = OrderKey[e] /\ o.content = AsStored[Content[e]]
  /\ reply = "conflict_different_payload" /\ AsStored[Content[e]] = Content[e] =>
       \E o \in rows : o.key = OrderKey[e] /\ o.content # AsStored[Content[e]]
  /\ reply = "unresolved_conflict" =>
       (\E o \in rows : o.key = OrderKey[e]) /\ isolation # "read_committed"

(* A request answers with the truth; one whose insert was refused has a    *)
(* committed order to be resolved against; what a snapshot shows is there. *)
Grounded(rows, q) ==
  /\ q.phase = "replying" => Truthful(rows, q.event, q.reply)
  /\ q.phase = "violated" => \E o \in rows : o.key = OrderKey[q.event]
  /\ q.snapshot \subseteq rows

(* Every answer is true, on its way and received.                          *)
Honest ==
  /\ \A r \in HttpWorkers : Grounded(orders, req[r])
  /\ \A e \in Events : \A reply \in answers[e] : Truthful(orders, e, reply)

(* Orders are never taken back, so what was true stays true.               *)
LEMMA TruthLasts ==
  ASSUME NEW rows, NEW more, rows \subseteq more, NEW e, NEW reply,
         Truthful(rows, e, reply)
  PROVE  Truthful(more, e, reply)
BY DEF Truthful

LEMMA GroundsLast ==
  ASSUME NEW rows, NEW more, rows \subseteq more, NEW q, Grounded(rows, q)
  PROVE  Grounded(more, q)
BY TruthLasts DEF Grounded

(* The verdict on an order that is found is true.                          *)
LEMMA VerdictIsTruthful ==
  ASSUME ReadsBack, NEW e \in Events, NEW o \in orders, o.key = OrderKey[e]
  PROVE  Truthful(orders, e, Verdict(o, e))
<1>1. CASE o.content = Content[e]
  <2>1. o.content = AsStored[Content[e]]
    BY <1>1 DEF ReadsBack
  <2>2. Verdict(o, e) = "duplicate_same_payload"
    BY <1>1 DEF Verdict
  <2>3. QED
    BY <2>1, <2>2 DEF Truthful
<1>2. CASE o.content # Content[e]
  <2>1. Verdict(o, e) = "conflict_different_payload"
    BY <1>2 DEF Verdict
  <2>2. QED
    BY <1>2, <2>1 DEF Truthful
<1>3. QED
  BY <1>1, <1>2

(* The answer of the second search is true.  Under REPEATABLE READ it      *)
(* finds what the snapshot shows; under READ COMMITTED it finds the order  *)
(* that won, so it is not unresolved.                                      *)
LEMMA ResolutionIsTruthful ==
  ASSUME Shape, ReadsBack, Honest, NEW r \in HttpWorkers, req[r].phase = "violated"
  PROVE  LET e == req[r].event IN
         Truthful(orders, e, Resolution(Found(Seen(r), e), e))
<1>. DEFINE e == req[r].event
            found == Found(Seen(r), e)
<1>1. e \in Events /\ Grounded(orders, req[r])
  BY DEF Honest, Shape, Coherent
<1>2. Seen(r) \subseteq orders
  BY <1>1 DEF Seen, Grounded
<1>3. CASE found = {}
  <2>1. Resolution(found, e) = "unresolved_conflict"
    BY <1>3 DEF Resolution
  <2>2. isolation # "read_committed" /\ \E o \in orders : o.key = OrderKey[e]
    <3>1. isolation = "read_committed" => Seen(r) = orders
      BY DEF Seen
    <3>2. \E o \in orders : o.key = OrderKey[e]
      BY <1>1 DEF Grounded
    <3>3. QED
      BY <1>3, <3>1, <3>2 DEF Found
  <2>3. QED
    BY <2>1, <2>2 DEF Truthful
<1>4. CASE found # {}
  <2>. DEFINE first == CHOOSE o \in found : TRUE
  <2>1. first \in found
    BY <1>4
  <2>2. first \in orders /\ first.key = OrderKey[e]
    BY <1>2, <2>1 DEF Found
  <2>3. Resolution(found, e) = Verdict(first, e)
    BY <1>4 DEF Resolution
  <2>. HIDE DEF first
  <2>4. QED
    BY <1>1, <2>2, <2>3, VerdictIsTruthful
<1>5. QED
  BY <1>3, <1>4

(* The request r becomes q, which is grounded; no order is taken back.     *)
LEMMA HonestAfter ==
  ASSUME Shape, Honest, NEW r \in HttpWorkers, NEW q, Becomes(r, q),
         orders \subseteq orders', isolation' = isolation, answers' = answers,
         Grounded(orders', q)
  PROVE  Honest'
<1>1. req'[r] = q /\ \A u \in HttpWorkers \ {r} : req'[u] = req[u]
  BY DEF Becomes, Shape, TypeOK
<1>2. \A u \in HttpWorkers : Grounded(orders', req'[u])
  BY <1>1, GroundsLast DEF Honest
<1>3. \A e \in Events : \A reply \in answers'[e] : Truthful(orders', e, reply)
  BY TruthLasts DEF Honest
<1>4. QED
  BY <1>2, <1>3 DEF Honest, Grounded, Truthful

LEMMA InitHonest == Init => Honest
BY DEF Init, Honest, Grounded, IdleRequest

LEMMA HonestStep ==
  ASSUME Shape, Tables, Honest, [Next]_vars
  PROVE  Honest'
<1>. USE DEF Tables
<1>1. ASSUME NEW e \in Events, NEW reply \in Replies, Truthful(orders', e, reply)
      PROVE  Grounded(orders', Answering(e, reply))
  BY <1>1, AnsweringType DEF Grounded
<1>2. \A rows : Grounded(rows, IdleRequest)
  BY DEF Grounded, IdleRequest
<1>3. ASSUME NEW r \in HttpWorkers, NEW e \in Events, Receive(r, e) PROVE Honest'
  <2>1. UNCHANGED <<isolation, orders, answers>>
    BY <1>3, ReceiveStep
  <2>2. CASE Refusal[e] # Accepted /\ Becomes(r, Answering(e, Refusal[e]))
    <3>1. Refusal[e] \in Codes /\ Refusal[e] \in Replies
      BY <2>2 DEF Replies
    <3>2. Truthful(orders', e, Refusal[e])
      BY <3>1 DEF Truthful, Codes
    <3>3. QED
      BY <1>1, <2>1, <2>2, <3>1, <3>2, HonestAfter
  <2>3. CASE Becomes(r, [IdleRequest EXCEPT !.phase = "absent", !.event = e,
                                            !.snapshot = orders])
    <3>. DEFINE q == [IdleRequest EXCEPT !.phase = "absent", !.event = e, !.snapshot = orders]
    <3>1. orders \subseteq Order
      BY DEF Shape, TypeOK
    <3>2. q.phase = "absent" /\ q.snapshot = orders
      BY <3>1, AbsentType
    <3>3. orders' = orders
      BY <2>1
    <3>4. Becomes(r, q)
      BY <2>3
    <3>. HIDE DEF q
    <3>5. Grounded(orders', q)
      BY <3>2, <3>3 DEF Grounded
    <3>6. QED
      BY <2>1, <3>4, <3>5, HonestAfter
  <2>4. ASSUME NEW o \in Found(orders, e), Becomes(r, Answering(e, Verdict(o, e)))
        PROVE  Honest'
    <3>1. Verdict(o, e) \in Replies
      BY DEF Verdict, Replies
    <3>2. Truthful(orders', e, Verdict(o, e))
      BY <2>1, VerdictIsTruthful DEF Found
    <3>3. QED
      BY <1>1, <2>1, <2>4, <3>1, <3>2, HonestAfter
  <2>5. QED
    BY <1>3, <2>2, <2>3, <2>4, ReceiveStep
<1>4. ASSUME NEW r \in HttpWorkers, Insert(r) PROVE Honest'
  <2>1. req[r] \in Request /\ Grounded(orders, req[r])
    BY DEF Honest, Shape, TypeOK
  <2>2. UNCHANGED <<isolation, orders, answers>>
    BY <1>4, InsertStep
  <2>3. CASE /\ \E o \in orders : o.key = OrderKey[req[r].event]
             /\ Becomes(r, [req[r] EXCEPT !.phase = "violated"])
    <3>1. Grounded(orders', [req[r] EXCEPT !.phase = "violated"])
      BY <2>1, <2>2, <2>3 DEF Grounded, Request
    <3>2. QED
      BY <2>2, <2>3, <3>1, HonestAfter
  <2>4. ASSUME NEW row, Becomes(r, [req[r] EXCEPT !.phase = "inserted", !.row = row])
        PROVE  Honest'
    <3>1. Grounded(orders', [req[r] EXCEPT !.phase = "inserted", !.row = row])
      BY <2>1, <2>2 DEF Grounded, Request
    <3>2. QED
      BY <2>2, <2>4, <3>1, HonestAfter
  <2>5. QED
    BY <1>4, <2>3, <2>4, InsertStep
<1>5. ASSUME NEW r \in HttpWorkers, Resolve(r) PROVE Honest'
  <2>1. Resolution(Found(Seen(r), req[r].event), req[r].event) \in Replies
    BY DEF Resolution, Verdict, Replies
  <2>2. UNCHANGED <<isolation, orders, answers>>
    BY <1>5, ResolveStep
  <2>3. QED
    BY <1>1, <1>5, <2>1, <2>2, ResolveStep, ResolutionIsTruthful, HonestAfter
<1>6. ASSUME NEW r \in HttpWorkers, Enqueue(r) PROVE Honest'
  <2>1. UNCHANGED <<isolation, orders, answers>>
    BY <1>6, EnqueueStep
  <2>2. Grounded(orders', [req[r] EXCEPT !.phase = "queued"])
    BY <2>1 DEF Honest, Grounded, Request, Shape, TypeOK
  <2>3. QED
    BY <1>6, <2>1, <2>2, EnqueueStep, HonestAfter
<1>7. ASSUME NEW r \in HttpWorkers, Commit(r) PROVE Honest'
  <2>. DEFINE new == req[r].row
              e == req[r].event
  <2>1. /\ e \in Events /\ orders' = orders \cup {new} /\ UNCHANGED <<isolation, answers>>
        /\ Becomes(r, Answering(e, "stored")) /\ new \in Order
    BY <1>7, CommitStep
  <2>2. new.key = OrderKey[e] /\ new.content = AsStored[Content[e]]
    BY <2>1 DEF RowsApart
  <2>3. "stored" \in Replies
    BY DEF Replies
  <2>4. Truthful(orders', e, "stored")
    BY <2>1, <2>2 DEF Truthful
  <2>5. QED
    BY <1>1, <2>1, <2>3, <2>4, HonestAfter
<1>8. ASSUME NEW r \in HttpWorkers, Reply(r) \/ LoseReply(r) \/ Abort(r) PROVE Honest'
  <2>1. UNCHANGED <<isolation, orders>>
    BY <1>8, EndStep
  <2>2. ASSUME NEW q, Becomes(r, q), Grounded(orders', q)
        PROVE  \A u \in HttpWorkers : Grounded(orders', req'[u])
    BY <2>1, <2>2 DEF Becomes, Honest, Shape, TypeOK
  <2>3. req[r].event \in Events => Grounded(orders', Answering(req[r].event, "error"))
    BY <1>1 DEF Truthful, Replies
  <2>4. \A u \in HttpWorkers : Grounded(orders', req'[u])
    BY <1>2, <1>8, <2>2, <2>3, EndStep
  <2>5. CASE answers' = answers
    BY <2>1, <2>4, <2>5 DEF Honest, Grounded, Truthful
  <2>6. CASE /\ req[r].phase = "replying" /\ req[r].event \in Events
             /\ answers' = [answers EXCEPT ![req[r].event] = @ \cup {req[r].reply}]
    <3>1. Truthful(orders, req[r].event, req[r].reply)
      BY <2>6 DEF Honest, Grounded
    <3>2. \A e \in Events : \A reply \in answers'[e] :
            \/ reply \in answers[e]
            \/ e = req[r].event /\ reply = req[r].reply
      BY <2>6 DEF Shape, TypeOK
    <3>3. \A e \in Events : \A reply \in answers'[e] : Truthful(orders', e, reply)
      BY <2>1, <3>1, <3>2 DEF Honest
    <3>4. QED
      BY <2>1, <2>4, <3>3 DEF Honest, Grounded, Truthful
  <2>7. QED
    BY <1>8, <2>5, <2>6, EndStep
<1>9. CASE UNCHANGED vars
  BY <1>9 DEF vars, Honest, Grounded, Truthful
<1>10. QED
  BY <1>3, <1>4, <1>5, <1>6, <1>7, <1>8, <1>9 DEF Next

LEMMA HonestAlways == Spec => []Honest
<1>1. Shape /\ Tables /\ [Next]_vars => Tables'
  BY TablesStep
<1>2. Shape /\ Tables /\ Honest /\ [Next]_vars => Honest'
  BY HonestStep
<1>3. QED
  BY InitShape, NextShape, InitTables, InitHonest, <1>1, <1>2, PTL DEF Spec

(* A sender that was told "stored" or "duplicate" can rely on it           *)
(* (api_controller.py:7, 143, 170-173).                                    *)
THEOREM AcknowledgementsHold == Spec => []AcknowledgedIsStored
<1>1. Honest => AcknowledgedIsStored
  BY DEF Honest, Truthful, AcknowledgedIsStored
<1>2. QED
  BY HonestAlways, <1>1, PTL

(* Nobody is told of a conflict that is none (api_controller.py:34-38).    *)
THEOREM ConflictsAreReal == Spec => []ConflictIsReal
<1>1. Honest => ConflictIsReal
  BY DEF Honest, Truthful, ConflictIsReal
<1>2. QED
  BY HonestAlways, <1>1, PTL

(* A race that stays unresolved was lost to a committed order of the same  *)
(* key, at either isolation level, and stays so only under REPEATABLE READ *)
(* (api_controller.py:176-198).                                            *)
THEOREM RacesAreLostToOrders == Spec => []LoserHasAWinner
<1>1. Honest => LoserHasAWinner
  BY DEF Honest, Truthful, LoserHasAWinner
<1>2. QED
  BY HonestAlways, <1>1, PTL
=============================================================================
