------------------------- MODULE OutboxTableProofs -------------------------
(***************************************************************************)
(* What holds of OutboxTable for every set of items and cron workers,      *)
(* every batch size and budget, and any number of crashes; and that it     *)
(* implements Delivery.                                                    *)
(***************************************************************************)
EXTENDS OutboxTable, WellFoundedInduction, TLAPS

USE ItemsAssumption, LimitsAssumption, ExtIdAssumption, NoneAssumption

-----------------------------------------------------------------------------
(* A set of items has an oldest one, and a batch is part of its set.       *)
LEMMA OldestIsMember ==
  ASSUME NEW S \in SUBSET Items, S # {}
  PROVE  Oldest(S) \in S
<1>1. IsWellFoundedOn(OpToRel(<, Nat), Nat)
  BY NatLessThanWellFounded
<1>2. S \subseteq Nat
  OBVIOUS
<1>3. PICK i \in S : \A j \in S : ~(<<j, i>> \in OpToRel(<, Nat))
  BY <1>1, <1>2, WFMin
<1>4. \A j \in S : ~(j < i)
  <2>. SUFFICES ASSUME NEW j \in S, j < i PROVE FALSE
    OBVIOUS
  <2>1. <<j, i>> \in {ss \in Nat \X Nat : ss[1] < ss[2]}
    BY <1>2
  <2>2. QED
    BY <2>1, <1>3, Zenon DEF OpToRel
<1>5. \A j \in S : i <= j
  BY <1>2, <1>4
<1>6. QED
  BY <1>5 DEF Oldest

LEMMA FirstOfIsSubset ==
  ASSUME NEW S, NEW n
  PROVE  FirstOf(S, n) \subseteq S
BY DEF FirstOf

-----------------------------------------------------------------------------
(* Types.                                                                  *)

(* A run has rows to deal with exactly in its two rounds, and holds none   *)
(* before its first claim.                                                 *)
Control ==
  \A w \in Workers :
    /\ phase[w] \in {"dispatch", "query"} <=> todo[w] # {}
    /\ phase[w] \in {"idle", "claim"} => locked[w] = {}

Shape == TypeOK /\ Control

LEMMA NewRowType ==
  /\ NewRow \in RowRecord /\ NewRow.status = "pending"
  /\ NoTable \in [Items -> RowRecord] /\ \A i \in Items : NoTable[i].status = "absent"
BY DEF NewRow, NoTable, RowRecord, Statuses

LEMMA ClaimedType ==
  ASSUME NEW r \in RowRecord
  PROVE  /\ Claimed(r) \in RowRecord /\ Claimed(r).status = "processing"
         /\ Reclaimed(r) \in RowRecord
BY DEF Claimed, Reclaimed, RowRecord, Statuses

(* A failure sends the row back to the start, or to the dead letters.      *)
LEMMA MarkFailedType ==
  ASSUME NEW r \in RowRecord
  PROVE  /\ MarkFailed(r) \in RowRecord
         /\ MarkFailed(r).status \in {"pending", "dead_letter"}
<1>1. r.attempts + 1 \in Nat
  BY DEF RowRecord
<1>2. (IF r.attempts + 1 >= MaxAttempts THEN "dead_letter" ELSE "pending")
        \in {"pending", "dead_letter"}
  OBVIOUS
<1>3. {"pending", "dead_letter"} \subseteq Statuses
  BY DEF Statuses
<1>4. QED
  BY <1>1, <1>2, <1>3, Zenon DEF MarkFailed, RowRecord

LEMMA MarkInconclusiveType ==
  ASSUME NEW r \in RowRecord
  PROVE  /\ MarkInconclusive(r) \in RowRecord
         /\ MarkInconclusive(r).status \in {"awaiting_confirmation", "dead_letter"}
         /\ MarkInconclusive(r).reference = r.reference
<1>1. r.queries + 1 \in Nat
  BY DEF RowRecord
<1>2. (IF r.queries + 1 >= MaxQueryAttempts THEN "dead_letter" ELSE "awaiting_confirmation")
        \in {"awaiting_confirmation", "dead_letter"}
  OBVIOUS
<1>3. {"awaiting_confirmation", "dead_letter"} \subseteq Statuses
  BY DEF Statuses
<1>4. QED
  BY <1>1, <1>2, <1>3, Zenon DEF MarkInconclusive, RowRecord

(* A mark finishes a row: it is not PROCESSING any more, can be asked      *)
(* about if it awaits confirmation, and is DONE only on a success.         *)
Finished(m, i) ==
  /\ m.status \in {"pending", "awaiting_confirmation", "done", "dead_letter"}
  /\ m.status = "awaiting_confirmation" => m.reference = ExtId[i]

LEMMA DispatchMarkedFacts ==
  ASSUME NEW r \in RowRecord, NEW i \in Items, NEW o \in {"success", "failure", "unknown"}
  PROVE  LET m == DispatchMarked(r, o, i) IN
         m \in RowRecord /\ Finished(m, i) /\ (m.status = "done" => o = "success")
<1>1. CASE o = "success"
  BY <1>1 DEF DispatchMarked, MarkDone, RowRecord, Statuses, Finished
<1>2. CASE o = "unknown"
  BY <1>2 DEF DispatchMarked, MarkAwaiting, RowRecord, Statuses, Finished
<1>3. CASE o = "failure"
  <2>1. DispatchMarked(r, o, i) = MarkFailed(r)
    BY <1>3 DEF DispatchMarked
  <2>2. QED
    BY <2>1, MarkFailedType DEF Finished
<1>4. QED
  BY <1>1, <1>2, <1>3

LEMMA QueryMarkedType ==
  ASSUME NEW r \in RowRecord, NEW o \in {"success", "failure", "unknown"}
  PROVE  QueryMarked(r, o) \in RowRecord
<1>1. MarkDone(r) \in RowRecord
  BY DEF MarkDone, RowRecord, Statuses
<1>2. QueryMarked(r, o) \in {MarkDone(r), MarkFailed(r), MarkInconclusive(r)}
  BY DEF QueryMarked
<1>3. QED
  BY <1>1, <1>2, MarkFailedType, MarkInconclusiveType

LEMMA QueryMarkedFacts ==
  ASSUME NEW r \in RowRecord, NEW i \in Items, r.reference = ExtId[i],
         NEW o \in {"success", "failure", "unknown"}
  PROVE  LET m == QueryMarked(r, o) IN
         m \in RowRecord /\ Finished(m, i) /\ (m.status = "done" => o = "success")
<1>1. CASE o = "success"
  BY <1>1 DEF QueryMarked, MarkDone, RowRecord, Statuses, Finished
<1>2. CASE o = "failure"
  <2>1. QueryMarked(r, o) = MarkFailed(r)
    BY <1>2 DEF QueryMarked
  <2>2. QED
    BY <2>1, MarkFailedType DEF Finished
<1>3. CASE o = "unknown"
  <2>1. QueryMarked(r, o) = MarkInconclusive(r)
    BY <1>3 DEF QueryMarked
  <2>2. QED
    BY <1>3, <2>1, MarkInconclusiveType DEF Finished
<1>4. QED
  BY <1>1, <1>2, <1>3

(* A POST leaves the point of sale's maps well formed.                     *)
LEMMA PosPostType ==
  ASSUME PosTypeOK, NEW i \in Items, PosPost(i)
  PROVE  PosTypeOK'
BY DEF PosTypeOK, PosPost, posVars, Keys, IdempotencyKey

(* One round of a batch: the worker marks the row i as m, and goes on to   *)
(* `next` when it was the last.                                            *)
Marks(w, i, m, next) ==
  /\ i \in todo[w]
  /\ view' = [view EXCEPT ![w] = [view[w] EXCEPT ![i] = m]]
  /\ todo' = [todo EXCEPT ![w] = @ \ {i}]
  /\ phase' = [phase EXCEPT ![w] = IF todo[w] = {i} THEN next ELSE @]
  /\ UNCHANGED <<row, locked, crashes>>

LEMMA CurrentIsToDo ==
  ASSUME Shape, NEW w \in Workers, phase[w] \in {"dispatch", "query"}
  PROVE  Current(w) \in todo[w] /\ Current(w) \in locked[w] /\ Current(w) \in Items
BY OldestIsMember DEF Shape, TypeOK, Control, Current

LEMMA DispatchStep ==
  ASSUME Shape, NEW w \in Workers, Dispatch(w)
  PROVE  LET i == Current(w) IN
         /\ phase[w] = "dispatch" /\ i \in Items /\ i \in locked[w]
         /\ \/ PosPost(i) /\ UNCHANGED late
            \/ UNCHANGED posVars /\ late' = late \cup {i}
         /\ \E o \in {"success", "failure", "unknown"} :
              /\ Marks(w, i, DispatchMarked(view[w][i], o, i), "ask")
              /\ o = "success" => PosPost(i)
<1>. DEFINE i == Current(w)
<1>1. phase[w] = "dispatch" /\ i \in todo[w] /\ i \in locked[w] /\ i \in Items
  BY CurrentIsToDo DEF Dispatch
<1>2. \/ PosPost(i) /\ UNCHANGED late
      \/ UNCHANGED posVars /\ late' = late \cup {i}
  BY DEF Dispatch
<1>3. PICK o \in {"success", "failure", "unknown"} :
        /\ view' = [view EXCEPT ![w][i] = DispatchMarked(@, o, i)]
        /\ o = "success" => PosPost(i)
  BY DEF Dispatch, PostOutcome
<1>4. view' = [view EXCEPT ![w] = [view[w] EXCEPT ![i] = DispatchMarked(view[w][i], o, i)]]
  BY <1>1, <1>3 DEF Shape, TypeOK
<1>5. Marks(w, i, DispatchMarked(view[w][i], o, i), "ask")
  BY <1>1, <1>4 DEF Dispatch, Marks
<1>6. QED
  BY <1>1, <1>2, <1>3, <1>5

LEMMA QueryStep ==
  ASSUME Shape, NEW w \in Workers, Query(w)
  PROVE  LET i == Current(w) IN
         /\ phase[w] = "query" /\ i \in Items /\ i \in locked[w]
         /\ UNCHANGED <<late, posVars>>
         /\ \E o \in {"success", "failure", "unknown"} :
              /\ Marks(w, i, QueryMarked(view[w][i], o), "commit")
              /\ o \in {QueryOutcome(view[w][i].reference), "unknown"}
<1>. DEFINE i == Current(w)
<1>1. phase[w] = "query" /\ i \in todo[w] /\ i \in locked[w] /\ i \in Items
  BY CurrentIsToDo DEF Query
<1>2. PICK o \in {QueryOutcome(view[w][i].reference), "unknown"} :
        view' = [view EXCEPT ![w][i] = QueryMarked(@, o)]
  BY DEF Query
<1>3. o \in {"success", "failure", "unknown"}
  BY DEF QueryOutcome
<1>4. view' = [view EXCEPT ![w] = [view[w] EXCEPT ![i] = QueryMarked(view[w][i], o)]]
  BY <1>1, <1>2 DEF Shape, TypeOK
<1>5. Marks(w, i, QueryMarked(view[w][i], o), "commit")
  BY <1>1, <1>4 DEF Query, Marks
<1>6. UNCHANGED <<late, posVars>>
  BY DEF Query
<1>7. QED
  BY <1>1, <1>2, <1>3, <1>5, <1>6

(* Rows a run may claim are rows it can see in the right state, and that   *)
(* nobody else holds unless it has to wait for them.                       *)
LEMMA BatchFacts ==
  ASSUME Shape, NEW w \in Workers, NEW ripe \in SUBSET Items
  PROVE  /\ StuckRows(w, ripe) \subseteq Items
         /\ DispatchBatch(w, ripe) \subseteq Items
         /\ \A i \in DispatchBatch(w, ripe) :
              \/ i \notin Busy(w) /\ view[w][i].status = "pending"
              \/ i \in StuckRows(w, ripe)
         /\ QueryBatch(w, ripe) \subseteq Items
         /\ \A i \in QueryBatch(w, ripe) :
              i \notin Busy(w) /\ view[w][i].status = "awaiting_confirmation"
<1>1. StuckRows(w, ripe) \subseteq Items
  BY DEF StuckRows
<1>2. DispatchBatch(w, ripe) \subseteq
        {i \in ripe \ Busy(w) : view[w][i].status = "pending"} \cup StuckRows(w, ripe)
  BY FirstOfIsSubset DEF DispatchBatch
<1>3. QueryBatch(w, ripe) \subseteq
        {i \in ripe \ Busy(w) : view[w][i].status = "awaiting_confirmation"}
  BY FirstOfIsSubset DEF QueryBatch
<1>4. QED
  BY <1>1, <1>2, <1>3

LEMMA InitShape == Init => Shape
<1>. SUFFICES ASSUME Init PROVE Shape
  OBVIOUS
<1>1. PosTypeOK
  BY DEF Init, PosInit, PosTypeOK
<1>2. QED
  BY <1>1, NewRowType DEF Init, Shape, TypeOK, Control, Phases

(* The invariant part of a state whose runs are as they were but for w's,  *)
(* which is over.                                                          *)
LEMMA RunOverShape ==
  ASSUME Shape, NEW w \in Workers, RunOver(w)
  PROVE  /\ phase' \in [Workers -> Phases] /\ view' \in [Workers -> [Items -> RowRecord]]
         /\ locked' \in [Workers -> SUBSET Items] /\ todo' \in [Workers -> SUBSET Items]
         /\ \A u \in Workers : todo'[u] \subseteq locked'[u]
         /\ Control'
BY NewRowType DEF RunOver, Shape, TypeOK, Control, Phases

LEMMA MarksShape ==
  ASSUME Shape, NEW w \in Workers, NEW i, NEW m \in RowRecord, NEW next \in {"ask", "commit"},
         Marks(w, i, m, next), phase[w] \in {"dispatch", "query"},
         late' \subseteq Items, PosTypeOK'
  PROVE  Shape'
<1>1. i \in Items /\ [view[w] EXCEPT ![i] = m] \in [Items -> RowRecord]
  BY DEF Marks, Shape, TypeOK
<1>2. TypeOK'
  BY <1>1 DEF Marks, Shape, TypeOK, Phases
<1>3. Control'
  BY <1>1 DEF Marks, Shape, TypeOK, Control
<1>4. QED
  BY <1>2, <1>3 DEF Shape

LEMMA NextShape == Shape /\ [Next]_vars => Shape'
<1>. SUFFICES ASSUME Shape, [Next]_vars PROVE Shape'
  OBVIOUS
<1>0. PosTypeOK /\ (UNCHANGED posVars => PosTypeOK')
  BY DEF Shape, TypeOK, PosTypeOK, posVars
<1>1. ASSUME NEW i \in Items, Enqueue(i) PROVE Shape'
  BY <1>0, <1>1, NewRowType DEF Enqueue, runVars, Shape, TypeOK, Control
<1>2. ASSUME NEW i \in Items, LateArrival(i) PROVE Shape'
  <2>1. PosTypeOK'
    BY <1>0, <1>2, PosPostType DEF LateArrival
  <2>2. QED
    BY <1>2, <2>1 DEF LateArrival, runVars, Shape, TypeOK, Control
<1>3. ASSUME NEW w \in Workers, Begin(w) PROVE Shape'
  BY <1>0, <1>3 DEF Begin, Shape, TypeOK, Control, Phases
<1>4. ASSUME NEW w \in Workers, Dispatch(w) PROVE Shape'
  <2>. DEFINE i == Current(w)
  <2>1. PICK o \in {"success", "failure", "unknown"} :
          Marks(w, i, DispatchMarked(view[w][i], o, i), "ask")
    BY <1>4, DispatchStep
  <2>2. i \in Items /\ phase[w] = "dispatch"
    BY <1>4, DispatchStep
  <2>3. late' \subseteq Items /\ PosTypeOK'
    BY <1>0, <1>4, <2>2, DispatchStep, PosPostType DEF Shape, TypeOK
  <2>. HIDE DEF i
  <2>4. view[w][i] \in RowRecord
    BY <2>2 DEF Shape, TypeOK
  <2>5. QED
    BY <2>1, <2>2, <2>3, <2>4, DispatchMarkedFacts, MarksShape
<1>5. ASSUME NEW w \in Workers, Query(w) PROVE Shape'
  <2>. DEFINE i == Current(w)
  <2>1. PICK o \in {"success", "failure", "unknown"} :
          Marks(w, i, QueryMarked(view[w][i], o), "commit")
    BY <1>5, QueryStep
  <2>2. i \in Items /\ phase[w] = "query" /\ late' \subseteq Items /\ PosTypeOK'
    BY <1>0, <1>5, QueryStep DEF Shape, TypeOK
  <2>. HIDE DEF i
  <2>3. view[w][i] \in RowRecord
    BY <2>2 DEF Shape, TypeOK
  <2>4. QED
    BY <2>1, <2>2, <2>3, QueryMarkedType, MarksShape
<1>6. ASSUME NEW w \in Workers, Commit(w) \/ Crash(w) PROVE Shape'
  <2>1. RunOver(w) /\ UNCHANGED <<late, posVars>>
    BY <1>6 DEF Commit, Crash
  <2>2. row' \in [Items -> RowRecord] /\ crashes' \in 0 .. MaxCrashes
    BY <1>6 DEF Commit, Crash, Shape, TypeOK
  <2>3. QED
    BY <1>0, <2>1, <2>2, RunOverShape DEF Shape, TypeOK
<1>7. ASSUME NEW w \in Workers, NEW ripe \in SUBSET Items, ClaimBatch(w, ripe) PROVE Shape'
  <2>. DEFINE stuck == StuckRows(w, ripe)
              taken == DispatchBatch(w, ripe)
              new == [i \in Items |-> IF i \in taken THEN Claimed(view[w][i])
                                      ELSE IF i \in stuck THEN Reclaimed(view[w][i])
                                      ELSE view[w][i]]
  <2>1. /\ view' = [view EXCEPT ![w] = new]
        /\ locked' = [locked EXCEPT ![w] = @ \cup stuck \cup taken]
        /\ todo' = [todo EXCEPT ![w] = taken]
        /\ phase' = [phase EXCEPT ![w] = IF taken = {} THEN "ask" ELSE "dispatch"]
        /\ UNCHANGED <<row, late, crashes, posVars>>
    BY <1>7 DEF ClaimBatch
  <2>2. new \in [Items -> RowRecord]
    BY ClaimedType DEF Shape, TypeOK
  <2>3. stuck \subseteq Items /\ taken \subseteq Items
    BY BatchFacts
  <2>. HIDE DEF stuck, taken, new
  <2>4. TypeOK'
    BY <1>0, <2>1, <2>2, <2>3 DEF Shape, TypeOK, Phases
  <2>5. Control'
    BY <2>1, <2>3 DEF Shape, TypeOK, Control
  <2>6. QED
    BY <2>4, <2>5 DEF Shape
<1>8. ASSUME NEW w \in Workers, NEW ripe \in SUBSET Items, ClaimForQuery(w, ripe)
      PROVE  Shape'
  <2>1. QueryBatch(w, ripe) \subseteq Items
    BY BatchFacts
  <2>2. TypeOK'
    BY <1>0, <1>8, <2>1 DEF ClaimForQuery, Shape, TypeOK, Phases
  <2>3. Control'
    BY <1>8, <2>1 DEF ClaimForQuery, Shape, TypeOK, Control
  <2>4. QED
    BY <2>2, <2>3 DEF Shape
<1>9. ASSUME NEW w \in Workers, NEW ripe \in SUBSET Items, Conflict(w, ripe) PROVE Shape'
  BY <1>0, <1>9, RunOverShape DEF Conflict, Shape, TypeOK
<1>10. CASE UNCHANGED vars
  BY <1>0, <1>10 DEF vars, runVars, Shape, TypeOK, Control
<1>11. QED
  BY <1>1, <1>2, <1>3, <1>4, <1>5, <1>6, <1>7, <1>8, <1>9, <1>10 DEF Next

(* The table, the runs and the point of sale have the types declared; a    *)
(* run deals only with rows it holds.                                      *)
THEOREM TableTyped == Spec => []TypeOK
<1>1. Shape => TypeOK
  BY DEF Shape
<1>2. QED
  BY InitShape, NextShape, <1>1, PTL DEF Spec

-----------------------------------------------------------------------------
(* Runs.                                                                   *)

(* A row is held by one run at a time.                                     *)
Exclusive == \A w, u \in Workers : w # u => locked[w] \cap locked[u] = {}

(* What a run holds: rows that are open in the table and stay as they were *)
(* when it claimed them.  Those it has yet to send are PENDING in the      *)
(* table, and PROCESSING only in its own view, where nothing else is.      *)
RunSound(w) ==
  /\ \A i \in locked[w] : /\ row[i].status \in {"pending", "awaiting_confirmation"}
                          /\ view[w][i].status # "absent"
  /\ phase[w] = "dispatch" => \A i \in todo[w] : /\ view[w][i].status = "processing"
                                                 /\ row[i].status = "pending"
  /\ phase[w] = "query" => \A i \in todo[w] : view[w][i].status = "awaiting_confirmation"
  /\ \A i \in Items :
       /\ view[w][i].status = "processing" => phase[w] = "dispatch" /\ i \in todo[w]
       /\ view[w][i].status = "awaiting_confirmation" => view[w][i].reference = ExtId[i]

Sound ==
  /\ CommittedRowsAreFinished
  /\ Exclusive
  /\ \A w \in Workers : RunSound(w)

(* A run that takes no part in a step stays sound as long as the rows it   *)
(* holds do not change.                                                    *)
LEMMA OthersStaySound ==
  ASSUME Shape, NEW u \in Workers, RunSound(u),
         phase'[u] = phase[u], view'[u] = view[u], locked'[u] = locked[u],
         todo'[u] = todo[u], \A i \in locked[u] : row'[i] = row[i]
  PROVE  RunSound(u)'
<1>1. todo[u] \subseteq locked[u]
  BY DEF Shape, TypeOK
<1>2. QED
  BY <1>1 DEF RunSound

LEMMA InitSound == Init => Sound
<1>. SUFFICES ASSUME Init PROVE Sound
  OBVIOUS
<1>1. \A i \in Items : row[i].status = "absent"
  BY NewRowType DEF Init
<1>2. \A w \in Workers : \A i \in Items : view[w][i].status = "absent"
  BY NewRowType DEF Init
<1>3. QED
  BY <1>1, <1>2 DEF Init, Sound, Exclusive, RunSound, CommittedRowsAreFinished

LEMMA MarksSound ==
  ASSUME Shape, Sound, NEW w \in Workers, NEW i \in Items, NEW m \in RowRecord,
         NEW next \in {"ask", "commit"}, Marks(w, i, m, next), Finished(m, i),
         phase[w] \in {"dispatch", "query"}
  PROVE  Sound'
<1>1. /\ UNCHANGED <<row, locked>>
      /\ \A u \in Workers \ {w} : /\ phase'[u] = phase[u] /\ view'[u] = view[u]
                                  /\ todo'[u] = todo[u]
  BY DEF Marks, Shape, TypeOK
<1>2. \A u \in Workers \ {w} : RunSound(u)'
  BY <1>1, OthersStaySound DEF Sound
<1>3. /\ view'[w][i] = m /\ \A j \in Items \ {i} : view'[w][j] = view[w][j]
      /\ todo'[w] = todo[w] \ {i} /\ i \in todo[w]
      /\ phase'[w] = IF todo[w] = {i} THEN next ELSE phase[w]
      /\ todo[w] \subseteq Items
  BY DEF Marks, Shape, TypeOK
<1>4. RunSound(w)
  BY DEF Sound
<1>5. \A j \in locked'[w] : /\ row'[j].status \in {"pending", "awaiting_confirmation"}
                            /\ view'[w][j].status # "absent"
  BY <1>1, <1>3, <1>4 DEF RunSound, Finished, Shape, TypeOK
<1>6. /\ phase'[w] = "dispatch" => \A j \in todo'[w] : /\ view'[w][j].status = "processing"
                                                       /\ row'[j].status = "pending"
      /\ phase'[w] = "query" => \A j \in todo'[w] : view'[w][j].status = "awaiting_confirmation"
  BY <1>1, <1>3, <1>4 DEF RunSound
<1>7. \A j \in Items :
        /\ view'[w][j].status = "processing" => phase'[w] = "dispatch" /\ j \in todo'[w]
        /\ view'[w][j].status = "awaiting_confirmation" => view'[w][j].reference = ExtId[j]
  <2>. SUFFICES ASSUME NEW j \in Items
                PROVE  /\ view'[w][j].status = "processing" =>
                            phase'[w] = "dispatch" /\ j \in todo'[w]
                       /\ view'[w][j].status = "awaiting_confirmation" =>
                            view'[w][j].reference = ExtId[j]
    OBVIOUS
  <2>1. CASE j = i
    BY <2>1, <1>3 DEF Finished
  <2>2. CASE j # i
    BY <2>2, <1>3, <1>4 DEF RunSound
  <2>3. QED
    BY <2>1, <2>2
<1>8. RunSound(w)'
  BY <1>5, <1>6, <1>7 DEF RunSound
<1>9. QED
  BY <1>1, <1>2, <1>8 DEF Sound, Exclusive, CommittedRowsAreFinished

(* The end of a run, whether it commits or not.                            *)
LEMMA RunOverSound ==
  ASSUME Shape, Sound, NEW w \in Workers, RunOver(w),
         row' = row \/ Commit(w)
  PROVE  Sound'
<1>1. /\ phase'[w] = "idle" /\ locked'[w] = {} /\ todo'[w] = {} /\ view'[w] = NoTable
      /\ \A u \in Workers \ {w} : /\ phase'[u] = phase[u] /\ view'[u] = view[u]
                                  /\ locked'[u] = locked[u] /\ todo'[u] = todo[u]
  BY DEF RunOver, Shape, TypeOK
<1>2. \A i \in Items : row'[i] = IF Commit(w) /\ i \in locked[w] THEN view[w][i] ELSE row[i]
  BY DEF Commit, Shape, TypeOK
<1>3. \A u \in Workers \ {w} : RunSound(u)'
  <2>. SUFFICES ASSUME NEW u \in Workers \ {w} PROVE RunSound(u)'
    OBVIOUS
  <2>1. \A i \in locked[u] : row'[i] = row[i]
    BY <1>2 DEF Sound, Exclusive, Shape, TypeOK
  <2>2. QED
    BY <1>1, <2>1, OthersStaySound DEF Sound
<1>4. RunSound(w)'
  BY <1>1, NewRowType DEF RunSound
<1>5. CommittedRowsAreFinished'
  <2>1. Commit(w) => phase[w] # "dispatch"
    BY DEF Commit
  <2>2. QED
    BY <1>2, <2>1 DEF Sound, RunSound, CommittedRowsAreFinished
<1>6. Exclusive'
  BY <1>1 DEF Sound, Exclusive
<1>7. QED
  BY <1>1, <1>3, <1>4, <1>5, <1>6 DEF Sound

LEMMA BusyFacts ==
  ASSUME NEW w \in Workers, NEW i
  PROVE  i \in Busy(w) <=> \E u \in Workers \ {w} : i \in locked[u]
BY Zenon DEF Busy

(* What a claim finds: rows nobody else holds, unchanged since the         *)
(* snapshot, and none that is PROCESSING -- the table never shows one.     *)
LEMMA ClaimFacts ==
  ASSUME Shape, Sound, NEW w \in Workers, NEW ripe \in SUBSET Items, phase[w] = "claim"
  PROVE  /\ StuckRows(w, ripe) = {}
         /\ locked[w] = {}
         /\ Changed(w) \cap DispatchBatch(w, ripe) = {} =>
              \A i \in DispatchBatch(w, ripe) :
                /\ i \notin Busy(w) /\ view[w][i] = row[i] /\ row[i].status = "pending"
<1>1. StuckRows(w, ripe) = {}
  <2>1. RunSound(w)
    BY DEF Sound
  <2>2. \A i \in Items : view[w][i].status # "processing"
    BY <2>1 DEF RunSound
  <2>3. QED
    BY <2>2 DEF StuckRows
<1>2. locked[w] = {}
  BY DEF Shape, Control
<1>3. \A i \in DispatchBatch(w, ripe) :
        i \in Items /\ i \notin Busy(w) /\ view[w][i].status = "pending"
  BY <1>1, BatchFacts
<1>4. QED
  BY <1>1, <1>2, <1>3 DEF Changed

LEMMA ClaimSound ==
  ASSUME Shape, Sound, NEW w \in Workers, NEW ripe \in SUBSET Items, ClaimBatch(w, ripe)
  PROVE  Sound'
<1>. DEFINE taken == DispatchBatch(w, ripe)
<1>1. /\ phase[w] = "claim" /\ Changed(w) \cap taken = {}
      /\ row' = row /\ phase' = [phase EXCEPT ![w] = IF taken = {} THEN "ask" ELSE "dispatch"]
      /\ todo' = [todo EXCEPT ![w] = taken]
  BY DEF ClaimBatch
<1>2. /\ StuckRows(w, ripe) = {} /\ locked[w] = {} /\ taken \subseteq Items
      /\ \A i \in taken : i \notin Busy(w) /\ view[w][i] = row[i] /\ row[i].status = "pending"
  BY <1>1, ClaimFacts, BatchFacts
<1>3. locked' = [locked EXCEPT ![w] = taken]
  BY <1>2 DEF ClaimBatch
<1>4. view' = [view EXCEPT ![w] = [i \in Items |-> IF i \in taken THEN Claimed(view[w][i])
                                                   ELSE view[w][i]]]
  BY <1>2 DEF ClaimBatch
<1>. HIDE DEF taken
<1>5. /\ phase'[w] = IF taken = {} THEN "ask" ELSE "dispatch"
      /\ todo'[w] = taken /\ locked'[w] = taken
      /\ \A i \in Items : view'[w][i] = IF i \in taken THEN Claimed(view[w][i])
                                        ELSE view[w][i]
      /\ \A u \in Workers \ {w} : /\ phase'[u] = phase[u] /\ view'[u] = view[u]
                                  /\ locked'[u] = locked[u] /\ todo'[u] = todo[u]
  BY <1>1, <1>3, <1>4 DEF Shape, TypeOK
<1>6. \A u \in Workers \ {w} : RunSound(u)'
  BY <1>1, <1>5, OthersStaySound DEF Sound
<1>7. Exclusive'
  <2>1. \A u \in Workers \ {w} : taken \cap locked[u] = {}
    BY <1>2, BusyFacts
  <2>2. QED
    BY <1>5, <2>1 DEF Sound, Exclusive
<1>8. RunSound(w)'
  <2>1. \A i \in Items : /\ view[w][i] \in RowRecord
                         /\ view[w][i].status # "processing"
                         /\ view[w][i].status = "awaiting_confirmation" =>
                              view[w][i].reference = ExtId[i]
    BY <1>1 DEF Sound, RunSound, Shape, TypeOK
  <2>2. ASSUME NEW i \in taken
        PROVE  view'[w][i].status = "processing"
    <3>1. i \in Items
      BY <1>2
    <3>2. view[w][i] \in RowRecord
      BY <2>1, <3>1
    <3>3. view'[w][i] = Claimed(view[w][i])
      BY <1>5, <3>1
    <3>4. QED
      BY <3>2, <3>3, ClaimedType
  <2>3. \A i \in Items \ taken : view'[w][i] = view[w][i]
    BY <1>5
  <2>4. \A i \in locked'[w] : /\ row'[i].status \in {"pending", "awaiting_confirmation"}
                             /\ view'[w][i].status # "absent"
    BY <1>1, <1>2, <1>5, <2>2
  <2>5. /\ phase'[w] = "dispatch" => \A i \in todo'[w] : /\ view'[w][i].status = "processing"
                                                        /\ row'[i].status = "pending"
        /\ phase'[w] # "query"
    <3>1. phase'[w] \in {"ask", "dispatch"}
      BY <1>5
    <3>2. QED
      BY <1>1, <1>2, <1>5, <2>2, <3>1
  <2>6. \A i \in Items :
          /\ view'[w][i].status = "processing" => phase'[w] = "dispatch" /\ i \in todo'[w]
          /\ view'[w][i].status = "awaiting_confirmation" =>
               view'[w][i].reference = ExtId[i]
    <3>. SUFFICES ASSUME NEW i \in Items
                  PROVE  /\ view'[w][i].status = "processing" => i \in taken
                         /\ view'[w][i].status = "awaiting_confirmation" =>
                              i \notin taken /\ view'[w][i].reference = ExtId[i]
      BY <1>5
    <3>1. CASE i \in taken
      BY <2>2, <3>1
    <3>2. CASE i \notin taken
      BY <2>1, <2>3, <3>2
    <3>3. QED
      BY <3>1, <3>2
  <2>7. QED
    BY <2>4, <2>5, <2>6 DEF RunSound
<1>9. QED
  BY <1>1, <1>6, <1>7, <1>8 DEF Sound, CommittedRowsAreFinished

LEMMA ClaimForQuerySound ==
  ASSUME Shape, Sound, NEW w \in Workers, NEW ripe \in SUBSET Items, ClaimForQuery(w, ripe)
  PROVE  Sound'
<1>. DEFINE taken == QueryBatch(w, ripe)
<1>1. /\ phase[w] = "ask" /\ Changed(w) \cap taken = {}
      /\ UNCHANGED <<row, view>>
      /\ phase' = [phase EXCEPT ![w] = IF taken = {} THEN "commit" ELSE "query"]
      /\ todo' = [todo EXCEPT ![w] = taken]
      /\ locked' = [locked EXCEPT ![w] = @ \cup taken]
  BY DEF ClaimForQuery
<1>2. /\ taken \subseteq Items
      /\ \A i \in taken : i \notin Busy(w) /\ view[w][i].status = "awaiting_confirmation"
  BY BatchFacts
<1>3. \A i \in taken \ locked[w] : row[i].status = "awaiting_confirmation"
  BY <1>1, <1>2 DEF Changed
<1>. HIDE DEF taken
<1>4. /\ phase'[w] = IF taken = {} THEN "commit" ELSE "query"
      /\ todo'[w] = taken /\ locked'[w] = locked[w] \cup taken
      /\ \A u \in Workers \ {w} : /\ phase'[u] = phase[u] /\ locked'[u] = locked[u]
                                  /\ todo'[u] = todo[u]
  BY <1>1 DEF Shape, TypeOK
<1>5. \A u \in Workers \ {w} : RunSound(u)'
  BY <1>1, <1>4, OthersStaySound DEF Sound
<1>6. Exclusive'
  <2>1. \A u \in Workers \ {w} : taken \cap locked[u] = {}
    BY <1>2, BusyFacts
  <2>2. QED
    BY <1>4, <2>1 DEF Sound, Exclusive
<1>7. RunSound(w)'
  <2>1. RunSound(w)
    BY DEF Sound
  <2>2. \A i \in locked'[w] : /\ row'[i].status \in {"pending", "awaiting_confirmation"}
                             /\ view'[w][i].status # "absent"
    BY <1>1, <1>2, <1>3, <1>4, <2>1 DEF RunSound
  <2>3. /\ phase'[w] # "dispatch"
        /\ \A i \in todo'[w] : view'[w][i].status = "awaiting_confirmation"
    <3>1. phase'[w] \in {"commit", "query"}
      BY <1>4
    <3>2. QED
      BY <1>1, <1>2, <1>4, <3>1
  <2>4. \A i \in Items :
          /\ view'[w][i].status # "processing"
          /\ view'[w][i].status = "awaiting_confirmation" =>
               view'[w][i].reference = ExtId[i]
    BY <1>1, <2>1 DEF RunSound
  <2>5. QED
    BY <2>2, <2>3, <2>4 DEF RunSound
<1>8. QED
  BY <1>1, <1>5, <1>6, <1>7 DEF Sound, CommittedRowsAreFinished

LEMMA SoundStep ==
  ASSUME Shape, Sound, [Next]_vars
  PROVE  Sound'
<1>1. ASSUME UNCHANGED <<row, runVars>> PROVE Sound'
  BY <1>1 DEF runVars, Sound, Exclusive, RunSound, CommittedRowsAreFinished
<1>2. ASSUME NEW i \in Items, Enqueue(i) PROVE Sound'
  <2>1. row' = [row EXCEPT ![i] = NewRow] /\ row[i].status = "absent" /\ UNCHANGED runVars
    BY <1>2 DEF Enqueue
  <2>2. \A w \in Workers : RunSound(w)'
    <3>. SUFFICES ASSUME NEW w \in Workers PROVE RunSound(w)'
      OBVIOUS
    <3>1. \A j \in locked[w] : row'[j] = row[j]
      BY <2>1 DEF Sound, RunSound, Shape, TypeOK
    <3>2. QED
      BY <2>1, <3>1, OthersStaySound DEF Sound, runVars
  <2>3. CommittedRowsAreFinished'
    BY <2>1, NewRowType DEF Sound, CommittedRowsAreFinished, Shape, TypeOK
  <2>4. QED
    BY <2>1, <2>2, <2>3 DEF Sound, Exclusive, runVars
<1>3. ASSUME NEW w \in Workers, Begin(w) PROVE Sound'
  <2>1. /\ row' = row /\ locked' = locked /\ todo' = todo
        /\ phase'[w] = "claim" /\ view'[w] = row
        /\ \A u \in Workers \ {w} : phase'[u] = phase[u] /\ view'[u] = view[u]
    BY <1>3 DEF Begin, Shape, TypeOK
  <2>2. \A u \in Workers \ {w} : RunSound(u)'
    BY <2>1, OthersStaySound DEF Sound
  <2>3. locked[w] = {}
    BY <1>3 DEF Begin, Shape, Control
  <2>4. RunSound(w)'
    BY <2>1, <2>3 DEF RunSound, Sound, CommittedRowsAreFinished
  <2>5. QED
    BY <2>1, <2>2, <2>4 DEF Sound, Exclusive, CommittedRowsAreFinished
<1>4. ASSUME NEW w \in Workers, Dispatch(w) PROVE Sound'
  <2>. DEFINE i == Current(w)
  <2>1. PICK o \in {"success", "failure", "unknown"} :
          Marks(w, i, DispatchMarked(view[w][i], o, i), "ask")
    BY <1>4, DispatchStep
  <2>2. i \in Items /\ phase[w] = "dispatch"
    BY <1>4, DispatchStep
  <2>. HIDE DEF i
  <2>3. view[w][i] \in RowRecord
    BY <2>2 DEF Shape, TypeOK
  <2>4. QED
    BY <2>1, <2>2, <2>3, DispatchMarkedFacts, MarksSound
<1>5. ASSUME NEW w \in Workers, Query(w) PROVE Sound'
  <2>. DEFINE i == Current(w)
  <2>1. PICK o \in {"success", "failure", "unknown"} :
          Marks(w, i, QueryMarked(view[w][i], o), "commit")
    BY <1>5, QueryStep
  <2>2. i \in Items /\ phase[w] = "query" /\ i \in todo[w]
    BY <1>5, QueryStep, CurrentIsToDo
  <2>. HIDE DEF i
  <2>3. view[w][i] \in RowRecord /\ view[w][i].reference = ExtId[i]
    BY <2>2 DEF Shape, TypeOK, Sound, RunSound
  <2>4. QED
    BY <2>1, <2>2, <2>3, QueryMarkedFacts, MarksSound
<1>6. ASSUME NEW w \in Workers, Commit(w) \/ Crash(w) PROVE Sound'
  BY <1>6, RunOverSound DEF Commit, Crash
<1>7. ASSUME NEW w \in Workers, NEW ripe \in SUBSET Items, Conflict(w, ripe) PROVE Sound'
  BY <1>7, RunOverSound DEF Conflict
<1>8. QED
  BY <1>1, <1>2, <1>3, <1>4, <1>5, <1>6, <1>7, ClaimSound, ClaimForQuerySound
     DEF Next, LateArrival, vars

(* Nobody ever sees a run's work half done, whatever runs overlap, die or  *)
(* are refused a row (outbox_item.py:170-173).                             *)
THEOREM OnlyFinishedWorkIsSeen == Spec => []CommittedRowsAreFinished
<1>1. Sound => CommittedRowsAreFinished
  BY DEF Sound
<1>2. Shape /\ Sound /\ [Next]_vars => Sound'
  BY SoundStep
<1>3. QED
  BY InitShape, NextShape, InitSound, <1>1, <1>2, PTL DEF Spec

(* A row a run has yet to send is PENDING in the table.                    *)
LEMMA SentWhilePending ==
  ASSUME Shape, Sound, NEW w \in Workers, Dispatch(w)
  PROVE  row[Current(w)].status = "pending"
<1>1. phase[w] = "dispatch" /\ Current(w) \in todo[w]
  BY CurrentIsToDo DEF Dispatch
<1>2. QED
  BY <1>1 DEF Sound, RunSound

(* What awaits confirmation or is settled is never sent again, by any      *)
(* number of workers with snapshots of any age (outbox_item.py:170-173).   *)
THEOREM OnlyPendingIsSent == Spec => SentOnlyWhilePending
<1>1. Shape /\ Sound /\ [Next]_vars =>
        [\A w \in Workers : Dispatch(w) => row[Current(w)].status = "pending"]_vars
  BY SentWhilePending
<1>2. Shape /\ Sound /\ [Next]_vars => Sound'
  BY SoundStep
<1>3. QED
  BY InitShape, NextShape, InitSound, <1>1, <1>2, PTL DEF Spec, SentOnlyWhilePending

-----------------------------------------------------------------------------
(* The point of sale.                                                      *)

(* Its two maps agree, an order is filed under its own external id, and it *)
(* was created exactly once.                                               *)
Registration ==
  \A e \in ExtIds :
    /\ posKeys[IdempotencyKey(e)] = IF posOrders[e] = None THEN None ELSE e
    /\ posOrders[e] # None => ExtId[posOrders[e]] = e
    /\ effects[e] = IF posOrders[e] = None THEN 0 ELSE 1

(* A POST registers the item's external id if nothing is registered under  *)
(* it, and changes nothing otherwise.                                      *)
LEMMA PosPostFacts ==
  ASSUME PosTypeOK, Registration, NEW i \in Items, PosPost(i)
  PROVE  /\ Registration'
         /\ posOrders' = IF posOrders[ExtId[i]] = None
                         THEN [posOrders EXCEPT ![ExtId[i]] = i] ELSE posOrders
<1>. DEFINE x == ExtId[i]
<1>1. x \in ExtIds /\ x # None /\ i # None
  OBVIOUS
<1>. USE DEF Keys, IdempotencyKey
<1>2. CASE posOrders[x] = None
  <2>1. PostReply(IdempotencyKey(x), x) = 201
    BY <1>1, <1>2 DEF PostReply, Registration
  <2>2. /\ posOrders' = [posOrders EXCEPT ![x] = i]
        /\ posKeys' = [posKeys EXCEPT ![IdempotencyKey(x)] = x]
        /\ effects' = [effects EXCEPT ![x] = @ + 1]
    BY <2>1 DEF PosPost
  <2>3. QED
    BY <1>1, <1>2, <2>2 DEF Registration, PosTypeOK
<1>3. CASE posOrders[x] # None
  <2>1. PostReply(IdempotencyKey(x), x) = 200
    BY <1>1, <1>3 DEF PostReply, Registration
  <2>2. UNCHANGED posVars
    BY <2>1 DEF PosPost
  <2>3. QED
    BY <1>3, <2>2 DEF Registration, posVars
<1>4. QED
  BY <1>2, <1>3

(* A step of the outbox makes at most one POST, of an item that is open in *)
(* the table or late.                                                      *)
LEMMA PosStep ==
  ASSUME Shape, [Next]_vars
  PROVE  \/ UNCHANGED posVars
         \/ \E i \in Items :
              /\ PosPost(i)
              /\ i \in late \/ \E w \in Workers : Dispatch(w) /\ i = Current(w)
<1>1. ASSUME NEW w \in Workers, Dispatch(w)
      PROVE  Current(w) \in Items /\ (UNCHANGED posVars \/ PosPost(Current(w)))
  BY <1>1, DispatchStep
<1>2. QED
  BY <1>1 DEF Next, Enqueue, LateArrival, Begin, Query, Commit, Crash, ClaimBatch,
              ClaimForQuery, Conflict, vars

LEMMA RegistrationStep ==
  ASSUME Shape, Registration, [Next]_vars
  PROVE  /\ Registration'
         /\ \A e \in ExtIds : posOrders[e] # None => posOrders'[e] = posOrders[e]
<1>1. CASE UNCHANGED posVars
  BY <1>1 DEF Registration, posVars
<1>2. ASSUME NEW i \in Items, PosPost(i)
      PROVE  /\ Registration'
             /\ \A e \in ExtIds : posOrders[e] # None => posOrders'[e] = posOrders[e]
  BY <1>2, PosPostFacts DEF Shape, TypeOK, PosTypeOK
<1>3. QED
  BY <1>1, <1>2, PosStep

LEMMA InitRegistration == Init => Registration
<1>. SUFFICES ASSUME Init, NEW e \in ExtIds
             PROVE  /\ posOrders[e] = None /\ effects[e] = 0
                    /\ posKeys[IdempotencyKey(e)] = None
  BY DEF Registration
<1>1. QED
  BY DEF Init, PosInit, Keys

(* A run that dies after its POSTs leaves items that are sent again; with  *)
(* any number of runs, crashes and late arrivals, and whatever items share *)
(* an external id, an order is created once (mock_pos_adapter.py:40).      *)
THEOREM TableEffectOnce == Spec => []EffectAtMostOnce
<1>1. Shape /\ Registration /\ [Next]_vars => Registration'
  BY RegistrationStep
<1>2. Registration => EffectAtMostOnce
  <2>1. Registration => \A e \in ExtIds : effects[e] \in {0, 1}
    BY Zenon DEF Registration
  <2>2. (\A e \in ExtIds : effects[e] \in {0, 1}) => EffectAtMostOnce
    BY DEF EffectAtMostOnce
  <2>3. QED
    BY <2>1, <2>2
<1>3. QED
  BY InitShape, NextShape, InitRegistration, <1>1, <1>2, PTL DEF Spec

-----------------------------------------------------------------------------
(* Delivery.                                                               *)

(* A row a run has marked DONE is registered at the point of sale, and     *)
(* only items that were enqueued are still on their way to it.             *)
Delivered ==
  /\ \A w \in Workers : \A i \in locked[w] :
       view[w][i].status = "done" => posOrders[ExtId[i]] # None
  /\ \A i \in late : row[i].status # "absent"

LEMMA InitDelivered == Init => Delivered
BY DEF Init, Delivered

LEMMA DeliveredStep ==
  ASSUME Shape, Sound, Registration, Delivered, [Next]_vars
  PROVE  Delivered'
<1>1. \A e \in ExtIds : posOrders[e] # None => posOrders'[e] # None
  BY RegistrationStep
<1>2. \A i \in Items : row[i].status # "absent" => row'[i].status # "absent"
  <2>1. ASSUME NEW w \in Workers, Commit(w), NEW i \in Items, row[i].status # "absent"
        PROVE  row'[i].status # "absent"
    BY <2>1 DEF Commit, Sound, RunSound
  <2>2. ASSUME NEW j \in Items, Enqueue(j), NEW i \in Items, row[i].status # "absent"
        PROVE  row'[i].status # "absent"
    BY <2>2 DEF Enqueue, Shape, TypeOK
  <2>3. QED
    BY <2>1, <2>2 DEF Next, LateArrival, Begin, Dispatch, Query, Crash, ClaimBatch,
                      ClaimForQuery, Conflict, vars
<1>3. \A i \in late' : row'[i].status # "absent"
  <2>1. ASSUME NEW w \in Workers, Dispatch(w), NEW i \in late'
        PROVE  i \in late \/ (i \in Items /\ row[i].status # "absent")
    <3>1. row[Current(w)].status = "pending"
      BY <2>1, SentWhilePending
    <3>2. QED
      BY <2>1, <3>1, DispatchStep
  <2>2. \A i \in late' : i \in late \/ (i \in Items /\ row[i].status # "absent")
    BY <2>1 DEF Next, Enqueue, LateArrival, Begin, Query, Commit, Crash, ClaimBatch,
                ClaimForQuery, Conflict, vars
  <2>3. QED
    BY <1>2, <2>2 DEF Delivered, Shape, TypeOK
<1>. DEFINE Goal(w) == \A i \in locked'[w] :
                         view'[w][i].status = "done" => posOrders'[ExtId[i]] # None
<1>4. ASSUME NEW w \in Workers, locked'[w] = locked[w], view'[w] = view[w] PROVE Goal(w)
  <2>1. \A i \in locked[w] : i \in Items /\ ExtId[i] \in ExtIds
    BY DEF Shape, TypeOK
  <2>2. QED
    BY <1>1, <1>4, <2>1 DEF Delivered
<1>5. ASSUME NEW w \in Workers, RunOver(w) PROVE \A u \in Workers : Goal(u)
  <2>1. locked'[w] = {}
    BY <1>5 DEF RunOver, Shape, TypeOK
  <2>2. \A u \in Workers \ {w} : locked'[u] = locked[u] /\ view'[u] = view[u]
    BY <1>5 DEF RunOver, Shape, TypeOK
  <2>3. QED
    BY <1>4, <2>1, <2>2
<1>6. ASSUME NEW w \in Workers, Begin(w) PROVE \A u \in Workers : Goal(u)
  <2>1. locked'[w] = {}
    BY <1>6 DEF Begin, Shape, Control
  <2>2. \A u \in Workers \ {w} : locked'[u] = locked[u] /\ view'[u] = view[u]
    BY <1>6 DEF Begin, Shape, TypeOK
  <2>3. QED
    BY <1>4, <2>1, <2>2
<1>7. ASSUME NEW w \in Workers, NEW ripe \in SUBSET Items, ClaimBatch(w, ripe)
      PROVE  \A u \in Workers : Goal(u)
  <2>1. \A u \in Workers \ {w} : locked'[u] = locked[u] /\ view'[u] = view[u]
    BY <1>7 DEF ClaimBatch, Shape, TypeOK
  <2>2. StuckRows(w, ripe) = {} /\ locked[w] = {}
    BY <1>7, ClaimFacts DEF ClaimBatch
  <2>3. \A i \in locked'[w] : /\ i \in DispatchBatch(w, ripe)
                              /\ i \in Items
                              /\ view'[w][i] = Claimed(view[w][i])
    BY <1>7, <2>2, BatchFacts DEF ClaimBatch, Shape, TypeOK
  <2>4. \A i \in Items : view[w][i] \in RowRecord
    BY DEF Shape, TypeOK
  <2>5. ASSUME NEW i \in locked'[w] PROVE view'[w][i].status = "processing"
    <3>1. view[w][i] \in RowRecord /\ view'[w][i] = Claimed(view[w][i])
      BY <2>3, <2>4
    <3>2. QED
      BY <3>1, ClaimedType
  <2>6. QED
    BY <1>4, <2>1, <2>5
<1>8. ASSUME NEW w \in Workers, NEW ripe \in SUBSET Items, ClaimForQuery(w, ripe)
      PROVE  \A u \in Workers : Goal(u)
  <2>1. \A u \in Workers \ {w} : locked'[u] = locked[u]
    BY <1>8 DEF ClaimForQuery, Shape, TypeOK
  <2>2. view' = view /\ posOrders' = posOrders
    BY <1>8 DEF ClaimForQuery, posVars
  <2>3. \A i \in locked'[w] : i \in locked[w] \/ view[w][i].status = "awaiting_confirmation"
    BY <1>8, BatchFacts DEF ClaimForQuery, Shape, TypeOK
  <2>4. QED
    BY <1>4, <2>1, <2>2, <2>3 DEF Delivered
<1>9. ASSUME NEW w \in Workers, NEW i \in Items, NEW m, NEW next, Marks(w, i, m, next),
             m.status = "done" => posOrders'[ExtId[i]] # None
      PROVE  \A u \in Workers : Goal(u)
  <2>1. \A u \in Workers \ {w} : locked'[u] = locked[u] /\ view'[u] = view[u]
    BY <1>9 DEF Marks, Shape, TypeOK
  <2>2. \A j \in Items : view'[w][j] = IF j = i THEN m ELSE view[w][j]
    BY <1>9 DEF Marks, Shape, TypeOK
  <2>3. \A j \in locked'[w] : j \in locked[w] /\ j \in Items /\ ExtId[j] \in ExtIds
    BY <1>9 DEF Marks, Shape, TypeOK
  <2>4. Goal(w)
    BY <1>1, <1>9, <2>2, <2>3 DEF Delivered
  <2>5. QED
    BY <1>4, <2>1, <2>4
<1>10. ASSUME NEW w \in Workers, Dispatch(w) PROVE \A u \in Workers : Goal(u)
  <2>. DEFINE i == Current(w)
  <2>1. i \in Items
    BY <1>10, DispatchStep
  <2>2. PosPost(i) => posOrders'[ExtId[i]] # None
    BY <2>1, PosPostFacts DEF Shape, TypeOK, PosTypeOK
  <2>3. PICK o \in {"success", "failure", "unknown"} :
          /\ Marks(w, i, DispatchMarked(view[w][i], o, i), "ask")
          /\ o = "success" => PosPost(i)
    BY <1>10, DispatchStep
  <2>. HIDE DEF i
  <2>4. view[w][i] \in RowRecord
    BY <2>1 DEF Shape, TypeOK
  <2>5. QED
    BY <1>9, <2>1, <2>2, <2>3, <2>4, DispatchMarkedFacts
<1>11. ASSUME NEW w \in Workers, Query(w) PROVE \A u \in Workers : Goal(u)
  <2>. DEFINE i == Current(w)
  <2>1. i \in Items /\ phase[w] = "query" /\ i \in todo[w] /\ posOrders' = posOrders
    BY <1>11, QueryStep, CurrentIsToDo DEF posVars
  <2>2. PICK o \in {"success", "failure", "unknown"} :
          /\ Marks(w, i, QueryMarked(view[w][i], o), "commit")
          /\ o \in {QueryOutcome(view[w][i].reference), "unknown"}
    BY <1>11, QueryStep
  <2>. HIDE DEF i
  <2>3. view[w][i] \in RowRecord /\ view[w][i].reference = ExtId[i]
    BY <2>1 DEF Shape, TypeOK, Sound, RunSound
  <2>4. o = "success" => posOrders'[ExtId[i]] # None
    BY <2>1, <2>2, <2>3 DEF QueryOutcome
  <2>5. QED
    BY <1>9, <2>1, <2>2, <2>3, <2>4, QueryMarkedFacts
<1>12. \A w \in Workers : Goal(w)
  <2>1. UNCHANGED <<locked, view>> => \A w \in Workers : Goal(w)
    BY <1>4
  <2>2. QED
    BY <1>5, <1>6, <1>7, <1>8, <1>10, <1>11, <2>1
       DEF Next, Enqueue, LateArrival, Commit, Crash, Conflict, runVars, vars
<1>13. QED
  BY <1>3, <1>12 DEF Delivered

(* The external ids of the items are their own.                            *)
OwnExtId == \A i, j \in Items : ExtId[i] = ExtId[j] => i = j

(* The initial state is an initial state of Delivery.                      *)
LEMMA DeliveryInit == Init => D!Init
<1>. SUFFICES ASSUME Init PROVE D!Init
  OBVIOUS
<1>1. \A i \in Items : Stage(row[i].status) = "absent"
  <2>1. \A i \in Items : row[i].status = "absent"
    BY NewRowType DEF Init
  <2>2. Stage("absent") = "absent"
    BY DEF Stage, Waiting
  <2>3. QED
    BY <2>1, <2>2
<1>2. \A i \in Items : posOrders[ExtId[i]] # i
  BY DEF Init, PosInit
<1>3. QED
  BY <1>1, <1>2 DEF D!Init

(* A step that changes nothing Delivery sees.                              *)
LEMMA DeliveryStutters ==
  ASSUME \A i \in Items : row'[i].status = row[i].status, posOrders' = posOrders
  PROVE  UNCHANGED <<[i \in Items |-> Stage(row[i].status)],
                     {i \in Items : posOrders[ExtId[i]] = i}>>
OBVIOUS

(* A POST of an item that was enqueued is a Receive, or nothing.           *)
LEMMA DeliveryReceive ==
  ASSUME OwnExtId, Shape, Registration, NEW i \in Items, PosPost(i),
         row' = row, row[i].status # "absent"
  PROVE  D!Receive(i) \/ UNCHANGED <<[j \in Items |-> Stage(row[j].status)],
                                     {j \in Items : posOrders[ExtId[j]] = j}>>
<1>1. posOrders' = IF posOrders[ExtId[i]] = None
                   THEN [posOrders EXCEPT ![ExtId[i]] = i] ELSE posOrders
  BY PosPostFacts DEF Shape, TypeOK
<1>2. CASE posOrders[ExtId[i]] # None
  BY <1>1, <1>2, DeliveryStutters
<1>3. CASE posOrders[ExtId[i]] = None
  <2>1. /\ posOrders'[ExtId[i]] = i
        /\ \A j \in Items : j # i => posOrders'[ExtId[j]] = posOrders[ExtId[j]]
    BY <1>1, <1>3 DEF OwnExtId, Shape, TypeOK, PosTypeOK
  <2>2. {j \in Items : posOrders'[ExtId[j]] = j}
          = {j \in Items : posOrders[ExtId[j]] = j} \cup {i}
    BY <2>1
  <2>3. i \notin {j \in Items : posOrders[ExtId[j]] = j}
    BY <1>3
  <2>4. Stage(row[i].status) # "absent"
    BY DEF Shape, TypeOK, RowRecord, Statuses, Waiting, Stage
  <2>5. QED
    BY <2>2, <2>3, <2>4 DEF D!Receive
<1>4. QED
  BY <1>2, <1>3

(* A commit settles the items the run has marked DONE, which the point of  *)
(* sale has received, and those it has given up.                           *)
LEMMA DeliverySettle ==
  ASSUME OwnExtId, Shape, Sound, Registration, Delivered, NEW w \in Workers, Commit(w)
  PROVE  D!Settle({i \in locked[w] : view[w][i].status = "done"},
                  {i \in locked[w] : view[w][i].status = "dead_letter"})
<1>. DEFINE done == {i \in locked[w] : view[w][i].status = "done"}
            dead == {i \in locked[w] : view[w][i].status = "dead_letter"}
<1>1. /\ row' = [i \in Items |-> IF i \in locked[w] THEN view[w][i] ELSE row[i]]
      /\ posOrders' = posOrders /\ phase[w] = "commit" /\ locked[w] \subseteq Items
  BY DEF Commit, posVars, Shape, TypeOK
<1>2. ASSUME NEW i \in locked[w]
      PROVE  /\ Stage(row[i].status) = "open"
             /\ Stage(view[w][i].status) = IF i \in done THEN "delivered"
                                           ELSE IF i \in dead THEN "abandoned" ELSE "open"
  <2>1. /\ row[i].status \in {"pending", "awaiting_confirmation"}
        /\ view[w][i].status \notin {"absent", "processing"}
        /\ view[w][i].status \in Statuses
    BY <1>1 DEF Sound, RunSound, Shape, TypeOK, RowRecord
  <2>2. QED
    BY <2>1 DEF Stage, Waiting, Statuses
<1>3. done \subseteq {i \in Items : posOrders[ExtId[i]] = i}
  <2>. SUFFICES ASSUME NEW i \in done PROVE i \in Items /\ posOrders[ExtId[i]] = i
    OBVIOUS
  <2>1. i \in Items /\ posOrders[ExtId[i]] # None
    BY <1>1 DEF Delivered
  <2>2. posOrders[ExtId[i]] \in Items /\ ExtId[posOrders[ExtId[i]]] = ExtId[i]
    BY <2>1 DEF Registration, Shape, TypeOK, PosTypeOK
  <2>3. QED
    BY <2>1, <2>2 DEF OwnExtId
<1>4. done \cap dead = {}
  OBVIOUS
<1>5. \A i \in done \cup dead : i \in locked[w]
  OBVIOUS
<1>6. \A i \in Items : i \notin locked[w] => row'[i] = row[i]
  BY <1>1
<1>7. \A i \in locked[w] : row'[i] = view[w][i]
  BY <1>1
<1>. HIDE DEF done, dead
<1>8. [i \in Items |-> Stage(row'[i].status)] =
        [i \in Items |-> IF i \in done THEN "delivered"
                         ELSE IF i \in dead THEN "abandoned" ELSE Stage(row[i].status)]
  BY <1>2, <1>5, <1>6, <1>7
<1>9. D!Settle(done, dead)
  BY <1>1, <1>2, <1>3, <1>4, <1>5, <1>8 DEF D!Settle
<1>10. QED
  BY <1>9 DEF done, dead

(* Every step is a step of Delivery or changes nothing it sees.            *)
LEMMA DeliveryStep ==
  ASSUME OwnExtId, Shape, Sound, Registration, Delivered, [Next]_vars
  PROVE  D!Next \/ UNCHANGED <<[i \in Items |-> Stage(row[i].status)],
                               {i \in Items : posOrders[ExtId[i]] = i}>>
<1>. DEFINE Goal == D!Next \/ UNCHANGED <<[i \in Items |-> Stage(row[i].status)],
                                          {i \in Items : posOrders[ExtId[i]] = i}>>
<1>1. ASSUME NEW i \in Items, Enqueue(i) PROVE Goal
  <2>1. /\ row' = [row EXCEPT ![i] = NewRow] /\ posOrders' = posOrders
        /\ row[i].status = "absent" /\ NewRow.status = "pending"
    BY <1>1, NewRowType DEF Enqueue, posVars
  <2>2. Stage("absent") = "absent" /\ Stage("pending") = "open"
    BY DEF Stage, Waiting
  <2>3. \A j \in Items : Stage(row'[j].status) =
          IF j = i THEN "open" ELSE Stage(row[j].status)
    BY <2>1, <2>2 DEF Shape, TypeOK
  <2>4. D!Submit(i)
    BY <2>1, <2>2, <2>3 DEF D!Submit
  <2>5. QED
    BY <2>4 DEF D!Next
<1>2. ASSUME NEW i \in Items, PosPost(i), row' = row, row[i].status # "absent" PROVE Goal
  BY <1>2, DeliveryReceive DEF D!Next
<1>3. ASSUME row' = row, posOrders' = posOrders PROVE Goal
  BY <1>3, DeliveryStutters
<1>4. ASSUME NEW i \in Items, LateArrival(i) PROVE Goal
  <2>1. row' = row /\ row[i].status # "absent" /\ (PosPost(i) \/ posOrders' = posOrders)
    BY <1>4 DEF LateArrival, Delivered, posVars
  <2>2. QED
    BY <1>2, <1>3, <2>1
<1>5. ASSUME NEW w \in Workers, Dispatch(w) PROVE Goal
  <2>. DEFINE i == Current(w)
  <2>1. i \in Items /\ row[i].status = "pending" /\ row' = row
    BY <1>5, DispatchStep, SentWhilePending DEF Dispatch
  <2>2. PosPost(i) \/ posOrders' = posOrders
    BY <1>5, DispatchStep DEF posVars
  <2>. HIDE DEF i
  <2>3. row[i].status # "absent"
    BY <2>1
  <2>4. QED
    BY <1>2, <1>3, <2>1, <2>2, <2>3
<1>6. ASSUME NEW w \in Workers, Commit(w) PROVE Goal
  <2>1. /\ {i \in locked[w] : view[w][i].status = "done"} \in SUBSET Items
        /\ {i \in locked[w] : view[w][i].status = "dead_letter"} \in SUBSET Items
    BY DEF Shape, TypeOK
  <2>2. QED
    BY <1>6, <2>1, DeliverySettle DEF D!Next
<1>7. QED
  BY <1>1, <1>3, <1>4, <1>5, <1>6
     DEF Next, Begin, Query, Crash, ClaimBatch, ClaimForQuery, Conflict, posVars, vars

(* With external ids of their own, the table keeps the promise of an       *)
(* outbox (outbox_item.py:10-15): an item stays open until it is settled   *)
(* once and for all, and is settled as delivered only when the point of    *)
(* sale has received it -- however many workers overlap, die or are late.  *)
THEOREM TableImplementsDelivery ==
  ASSUME OwnExtId
  PROVE  Spec => ImplementsDelivery
<1>1. Shape /\ Sound /\ [Next]_vars => Sound'
  BY SoundStep
<1>2. Shape /\ Registration /\ [Next]_vars => Registration'
  BY RegistrationStep
<1>3. Shape /\ Sound /\ Registration /\ Delivered /\ [Next]_vars => Delivered'
  BY DeliveredStep
<1>4. Shape /\ Sound /\ Registration /\ Delivered /\ [Next]_vars =>
        [D!Next]_<<[i \in Items |-> Stage(row[i].status)],
                   {i \in Items : posOrders[ExtId[i]] = i}>>
  BY DeliveryStep
<1>5. QED
  BY InitShape, NextShape, InitSound, InitRegistration, InitDelivered, DeliveryInit,
     <1>1, <1>2, <1>3, <1>4, PTL DEF Spec, ImplementsDelivery, D!Spec
=============================================================================
