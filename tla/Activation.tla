----------------------------- MODULE Activation -----------------------------
(***************************************************************************)
(* core/models/activation.py and core/wizards/activation_wizard.py: the    *)
(* checklist of one branch, the catalog import that passes one of its      *)
(* steps, and going live.  Every request is a transaction that reads the   *)
(* tables as they were when it began and fails when it writes a row that   *)
(* was written since (external, see Identity).                             *)
(***************************************************************************)
EXTENDS Naturals

CONSTANTS
  Last,           \* STEP_IDS is 1 .. Last
  ImportStep,     \* "import_and_match"
  States,         \* the states of a step
  Sessions,
  Absent

Steps == 1 .. Last

Checklist == [Steps -> States \cup {"not_started", "passed", "needs_recheck"}]

ASSUME ActivationAssumption ==
  Last \in Nat /\ ImportStep \in Steps /\ Absent \notin Checklist

VARIABLES
  steps,      \* step_ids of the checklist: their states, or Absent before it exists
  live,       \* branch.active
  view,       \* the steps a session's transaction sees, or Absent
  rewritten,  \* steps written by others since it began
  stale       \* history: steps covered by an invalidation and not marked since

activationVars == <<steps, live, view, rewritten, stale>>

ActivationInit ==
  /\ steps = Absent /\ live = FALSE
  /\ view = [s \in Sessions |-> Absent]
  /\ rewritten = [s \in Sessions |-> {}]
  /\ stale = {}

(* get_or_create_for_branch; a second one at the same time is refused by   *)
(* unique(branch_id).                                                      *)
OpenOrResume ==
  /\ steps = Absent
  /\ steps' = [i \in Steps |-> "not_started"]
  /\ UNCHANGED <<live, view, rewritten, stale>>

Begin(s) ==
  /\ steps # Absent /\ view[s] = Absent
  /\ view' = [view EXCEPT ![s] = steps]
  /\ UNCHANGED <<steps, live, rewritten, stale>>

(* The transaction of s ends, having written `state` to the steps `of`.    *)
Write(s, of, state) ==
  /\ view[s] # Absent /\ of \cap rewritten[s] = {}
  /\ steps' = [i \in Steps |-> IF i \in of THEN state ELSE steps[i]]
  /\ view' = [view EXCEPT ![s] = Absent]
  /\ rewritten' = [o \in Sessions |->
       IF o = s \/ view[o] = Absent THEN {} ELSE rewritten[o] \cup of]

Mark(s) ==
  /\ \E i \in Steps, state \in States : Write(s, {i}, state) /\ stale' = stale \ {i}
  /\ UNCHANGED live

(* action_run_catalog_import_preview: without conflicts the step passes.   *)
Import(s) ==
  /\ \E conflicts \in BOOLEAN :
       IF conflicts THEN Write(s, {}, Absent) /\ UNCHANGED stale
       ELSE Write(s, {ImportStep}, "passed") /\ stale' = stale \ {ImportStep}
  /\ UNCHANGED live

(* A mutant: what comes after the step is left passed.                     *)
Affected_MutantStepOnly(seen, i) == {j \in {i} : seen[j] = "passed"}

(* The passed steps invalidate_step_and_downstream writes.                 *)
Affected(seen, i) == {j \in i .. Last : seen[j] = "passed"}

Invalidate(s) ==
  /\ view[s] # Absent
  /\ \E i \in Steps :
       /\ Write(s, Affected(view[s], i), "needs_recheck")
       /\ stale' = stale \cup ((i .. Last) \ rewritten[s])
  /\ UNCHANGED live

(* A mutant: a step that only needs another look is taken for passed.      *)
IsBranchReady_MutantRecheck(seen) == \A i \in Steps : seen[i] \in {"passed", "needs_recheck"}

IsBranchReady(seen) == \A i \in Steps : seen[i] = "passed"

(* action_go_live.                                                         *)
GoLive(s) ==
  /\ view[s] # Absent /\ IsBranchReady(view[s])
  /\ Write(s, {}, Absent)
  /\ live' = TRUE
  /\ UNCHANGED stale

(* An archived branch (external: the form of the branch).                  *)
Archive ==
  /\ live /\ live' = FALSE
  /\ UNCHANGED <<steps, view, rewritten, stale>>

ActivationNext ==
  \/ OpenOrResume \/ Archive
  \/ \E s \in Sessions : Begin(s) \/ Mark(s) \/ Import(s) \/ Invalidate(s) \/ GoLive(s)

ActivationSpec == ActivationInit /\ [][ActivationNext]_activationVars

-----------------------------------------------------------------------------
(* A branch goes live only when every step has passed (activation.py:59-61,*)
(* activation_wizard.py:85-88), unless a step was written while the        *)
(* request ran, which only then may have been passed no longer.            *)
GoesLiveWhenReady ==
  [][~live /\ live' =>
       \E s \in Sessions : /\ view'[s] # view[s]
                           /\ \A i \in Steps \ rewritten[s] : steps[i] = "passed"]_activationVars

(* A passed step was marked after the last change that affects it or a     *)
(* step before it (activation.py:70-71), through any sequence and overlap  *)
(* of marks, imports and changes, except that a change does not reach what *)
(* is marked while its request runs.                                       *)
PassedIsCurrent == steps # Absent => \A i \in stale : steps[i] # "passed"
=============================================================================
