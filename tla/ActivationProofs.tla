-------------------------- MODULE ActivationProofs --------------------------
(***************************************************************************)
(* Passed steps are current and branches go live when ready, for any       *)
(* number of steps and sessions.                                           *)
(***************************************************************************)
EXTENDS Activation, TLAPS

Typed ==
  /\ steps \in Checklist \cup {Absent}
  /\ view \in [Sessions -> Checklist \cup {Absent}]
  /\ rewritten \in [Sessions -> SUBSET Steps]

(* What a session sees of a step is what the step is, unless the step was  *)
(* written since; there is nothing to see before the checklist exists.     *)
SeenIsCurrent ==
  /\ steps = Absent => \A s \in Sessions : view[s] = Absent
  /\ \A s \in Sessions : view[s] # Absent =>
       \A i \in Steps \ rewritten[s] : view[s][i] = steps[i]

(* The inductive invariant.                                                *)
ActivationInv ==
  /\ Typed /\ SeenIsCurrent
  /\ stale \subseteq Steps
  /\ \A i \in stale : steps[i] # "passed"

(* A write leaves the checklist in place and every other session knows it. *)
LEMMA WriteKeepsViews ==
  ASSUME Typed, SeenIsCurrent, NEW s \in Sessions,
         NEW of \in SUBSET Steps, NEW state,
         of = {} \/ state \in States \cup {"passed", "needs_recheck"},
         Write(s, of, state)
  PROVE  /\ Typed' /\ SeenIsCurrent'
         /\ steps # Absent /\ \A i \in Steps : steps'[i] = IF i \in of THEN state ELSE steps[i]
<1>1. /\ view[s] # Absent /\ of \cap rewritten[s] = {}
      /\ steps' = [i \in Steps |-> IF i \in of THEN state ELSE steps[i]]
      /\ view' = [view EXCEPT ![s] = Absent]
      /\ rewritten' = [o \in Sessions |->
           IF o = s \/ view[o] = Absent THEN {} ELSE rewritten[o] \cup of]
  BY DEF Write
<1>2. steps \in Checklist
  BY <1>1 DEF Typed, SeenIsCurrent
<1>3. steps' \in Checklist /\ steps' # Absent
  BY ActivationAssumption, <1>1, <1>2 DEF Checklist
<1>4. Typed'
  BY <1>1, <1>3 DEF Typed
<1>5. ASSUME NEW o \in Sessions, view'[o] # Absent, NEW i \in Steps \ rewritten'[o]
      PROVE  view'[o][i] = steps'[i]
  <2>1. o # s /\ view'[o] = view[o] /\ view[o] # Absent
    BY <1>1, <1>5 DEF Typed
  <2>2. rewritten'[o] = rewritten[o] \cup of
    BY <1>1, <2>1
  <2>3. i \notin rewritten[o] /\ i \notin of
    BY <1>5, <2>2
  <2> QED BY <1>1, <2>1, <2>3 DEF SeenIsCurrent
<1>6. SeenIsCurrent'
  BY <1>3, <1>5 DEF SeenIsCurrent
<1> QED BY ActivationAssumption, <1>1, <1>2, <1>4, <1>6

(* What a mark or an import writes is no longer stale.                     *)
LEMMA MarkKeepsInv ==
  ASSUME ActivationInv, NEW s \in Sessions,
         Mark(s) \/ Import(s)
  PROVE  ActivationInv'
<1>1. PICK of \in SUBSET Steps, state \in States \cup {"passed", Absent} :
        /\ of = {} \/ state \in States \cup {"passed"}
        /\ Write(s, of, state) /\ stale' = stale \ of
  <2>1. CASE Mark(s)
    <3>1. PICK i \in Steps, state \in States : Write(s, {i}, state) /\ stale' = stale \ {i}
      BY <2>1 DEF Mark
    <3> QED BY <3>1
  <2>2. CASE Import(s)
    <3>1. \/ Write(s, {}, Absent) /\ stale' = stale
          \/ Write(s, {ImportStep}, "passed") /\ stale' = stale \ {ImportStep}
      BY <2>2 DEF Import
    <3>2. stale \ {} = stale
      OBVIOUS
    <3> QED BY ActivationAssumption, <3>1, <3>2
  <2> QED BY <2>1, <2>2
<1>2. /\ Typed' /\ SeenIsCurrent'
      /\ \A i \in Steps : steps'[i] = IF i \in of THEN state ELSE steps[i]
  BY <1>1, WriteKeepsViews DEF ActivationInv
<1> QED BY <1>1, <1>2 DEF ActivationInv

(* A step the session sees as not passed is not passed, unless it was      *)
(* written since; the passed ones are written.                             *)
LEMMA InvalidateKeepsInv ==
  ASSUME ActivationInv, NEW s \in Sessions, Invalidate(s)
  PROVE  ActivationInv'
<1>1. PICK i \in Steps :
        /\ view[s] # Absent
        /\ Write(s, Affected(view[s], i), "needs_recheck")
        /\ stale' = stale \cup ((i .. Last) \ rewritten[s])
  BY DEF Invalidate
<1>2. i .. Last \subseteq Steps /\ Affected(view[s], i) \subseteq Steps
  BY DEF Steps, Affected
<1>3. /\ Typed' /\ SeenIsCurrent'
      /\ \A j \in Steps : steps'[j] =
           IF j \in Affected(view[s], i) THEN "needs_recheck" ELSE steps[j]
  BY <1>1, <1>2, WriteKeepsViews DEF ActivationInv
<1>4. ASSUME NEW j \in stale' PROVE steps'[j] # "passed"
  <2>1. CASE j \in stale
    BY <1>3, <2>1 DEF ActivationInv
  <2>2. CASE j \in (i .. Last) \ rewritten[s]
    <3>1. view[s][j] = steps[j]
      BY <1>1, <1>2, <2>2 DEF ActivationInv, SeenIsCurrent
    <3> QED BY <1>2, <1>3, <2>2, <3>1 DEF Affected
  <2> QED BY <1>1, <1>4, <2>1, <2>2
<1> QED BY <1>1, <1>2, <1>3, <1>4 DEF ActivationInv

(* The inductive invariant holds for ever.                                 *)
LEMMA ActivationInvariant ==
  ActivationSpec => []ActivationInv
<1>1. ActivationInit => ActivationInv
  BY DEF ActivationInit, ActivationInv, Typed, SeenIsCurrent
<1>2. ActivationInv /\ [ActivationNext]_activationVars => ActivationInv'
  <2> SUFFICES ASSUME ActivationInv, [ActivationNext]_activationVars PROVE ActivationInv'
    OBVIOUS
  <2>1. CASE UNCHANGED activationVars
    BY <2>1 DEF activationVars, ActivationInv, Typed, SeenIsCurrent
  <2>2. CASE OpenOrResume
    <3>1. /\ steps = Absent /\ steps' = [i \in Steps |-> "not_started"]
          /\ UNCHANGED <<view, rewritten, stale>>
      BY <2>2 DEF OpenOrResume
    <3>2. steps' \in Checklist
      BY <3>1 DEF Checklist
    <3>3. \A i \in stale' : steps'[i] # "passed"
      BY <3>1 DEF ActivationInv
    <3> QED BY ActivationAssumption, <3>1, <3>2, <3>3 DEF ActivationInv, Typed, SeenIsCurrent
  <2>3. CASE Archive
    BY <2>3 DEF Archive, ActivationInv, Typed, SeenIsCurrent
  <2>4. ASSUME NEW s \in Sessions, Begin(s)
        PROVE  ActivationInv'
    <3>1. /\ steps # Absent /\ view' = [view EXCEPT ![s] = steps]
          /\ UNCHANGED <<steps, rewritten, stale>>
      BY <2>4 DEF Begin
    <3>2. \A o \in Sessions : view'[o] = IF o = s THEN steps ELSE view[o]
      BY <3>1 DEF ActivationInv, Typed
    <3>3. Typed'
      BY <3>1 DEF ActivationInv, Typed
    <3> QED BY <3>1, <3>2, <3>3 DEF ActivationInv, SeenIsCurrent
  <2>5. ASSUME NEW s \in Sessions, GoLive(s)
        PROVE  ActivationInv'
    <3>1. Write(s, {}, Absent) /\ stale' = stale
      BY <2>5 DEF GoLive
    <3>2. Typed' /\ SeenIsCurrent' /\ \A i \in Steps : steps'[i] = steps[i]
      BY <3>1, WriteKeepsViews DEF ActivationInv
    <3> QED BY <3>1, <3>2 DEF ActivationInv
  <2> QED BY <2>1, <2>2, <2>3, <2>4, <2>5, MarkKeepsInv, InvalidateKeepsInv DEF ActivationNext
<1> QED BY <1>1, <1>2, PTL DEF ActivationSpec

(* No step stays passed through a change that affects it, however marks,   *)
(* imports and changes overlap (activation.py:70-71).                      *)
THEOREM PassedStepsAreCurrent ==
  ActivationSpec => []PassedIsCurrent
<1>1. ActivationInv => PassedIsCurrent
  BY DEF ActivationInv, PassedIsCurrent
<1> QED BY <1>1, ActivationInvariant, PTL

(* A branch goes live on a checklist whose steps have all passed, as far   *)
(* as its request could see (activation_wizard.py:85-94).                  *)
THEOREM LiveBranchesAreReady ==
  ActivationSpec => GoesLiveWhenReady
<1> DEFINE Ready ==
      ~live /\ live' =>
        \E s \in Sessions : /\ view'[s] # view[s]
                            /\ \A i \in Steps \ rewritten[s] : steps[i] = "passed"
<1>1. ActivationInv /\ [ActivationNext]_activationVars => [Ready]_activationVars
  <2> SUFFICES ASSUME ActivationInv, ActivationNext, ~live, live'
               PROVE  \E s \in Sessions :
                        /\ view'[s] # view[s]
                        /\ \A i \in Steps \ rewritten[s] : steps[i] = "passed"
    OBVIOUS
  <2>1. PICK s \in Sessions : GoLive(s)
    BY DEF ActivationNext, OpenOrResume, Archive, Begin, Mark, Import, Invalidate
  <2>2. /\ view[s] # Absent /\ IsBranchReady(view[s])
        /\ view' = [view EXCEPT ![s] = Absent]
    BY <2>1 DEF GoLive, Write
  <2>3. \A i \in Steps \ rewritten[s] : steps[i] = "passed"
    BY <2>2 DEF IsBranchReady, ActivationInv, SeenIsCurrent
  <2> QED BY <2>2, <2>3 DEF ActivationInv, Typed
<1> QED BY <1>1, ActivationInvariant, PTL DEF ActivationSpec, GoesLiveWhenReady
=============================================================================
