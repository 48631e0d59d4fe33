------------------------------- MODULE Hours -------------------------------
(***************************************************************************)
(* core/lib/operating_hours.py: is_open_by_schedule and compute_day_status *)
(* as functions of a schedule and a moment.  A window crosses midnight     *)
(* exactly when it ends no later than it starts.                           *)
(***************************************************************************)
EXTENDS Integers, FiniteSets, Null

CONSTANTS
  DayLength,      \* minutes of a day
  Week,           \* days of a week
  MaxWindows      \* bound: the windows of a day

(* None is no exception, and no confirmation.                              *)
ASSUME HourAssumption ==
  /\ DayLength \in Nat
  /\ Week \in Nat \ {0}
  /\ None \notin BOOLEAN

Minutes == 0 .. DayLength - 1
Windows == [start : Minutes, end : Minutes]
Schedules == {ws \in SUBSET Windows : Cardinality(ws) <= MaxWindows}

Crosses(w) == w.end <= w.start

Contains(w, m) ==
  IF Crosses(w) THEN m >= w.start \/ m < w.end ELSE w.start <= m /\ m < w.end

(* A mutant: the weekly windows hold on exceptional days, too.             *)
WindowsFor_MutantAdds(sch, day) ==
  sch.weekly[day % Week] \cup (IF sch.exceptions[day] = None THEN {} ELSE sch.exceptions[day])

(* _windows_for: an exception replaces the week's windows of its date.     *)
WindowsFor(sch, day) ==
  IF sch.exceptions[day] # None THEN sch.exceptions[day] ELSE sch.weekly[day % Week]

(* is_open_by_schedule.                                                    *)
IsOpen(sch, day, m) ==
  \/ \E w \in WindowsFor(sch, day) : Contains(w, m)
  \/ \E w \in WindowsFor(sch, day - 1) : Crosses(w) /\ m < w.end

(* compute_day_status.                                                     *)
DayStatus(sch, day, m, confirmed) ==
  CASE ~IsOpen(sch, day, m) -> "closed_by_schedule"
    [] IsOpen(sch, day, m) /\ confirmed = None -> "unknown"
    [] IsOpen(sch, day, m) /\ confirmed = TRUE -> "open_scheduled"
    [] OTHER -> "stopped_during_hours"

VARIABLE moment   \* the question: a schedule and the minute of day 1

HourInit == moment = None

Look ==
  /\ moment = None
  /\ \E weekly \in [0 .. Week - 1 -> Schedules],
        exceptions \in [0 .. 1 -> Schedules \cup {None}], m \in Minutes :
       moment' = [schedule |-> [weekly |-> weekly, exceptions |-> exceptions], minute |-> m]

HourSpec == HourInit /\ [][Look]_moment

-----------------------------------------------------------------------------
(* The branch is open when, and only when, a window that began today or    *)
(* yesterday -- on the exceptional schedule of a date, where it has one -- *)
(* is not over (operating_hours.py:51-54, 72); but a window that crosses   *)
(* midnight is taken to be open early on the day it begins as well, which  *)
(* is the last line.  A date with an empty exception is left out: it is    *)
(* documented as closed the whole day (55), but a window of the day before *)
(* that crosses midnight keeps the branch open early on it (78-80).        *)
OpenWithinAWindow ==
  moment # None /\ moment.schedule.exceptions[1] # {} =>
    LET sch == moment.schedule
        effective == [d \in {0, 1} |->
          IF sch.exceptions[d] = None THEN sch.weekly[d % Week] ELSE sch.exceptions[d]]
        t == DayLength + moment.minute
        covered == \E d \in {0, 1} : \E w \in effective[d] :
          LET from == d * DayLength + w.start
              to   == d * DayLength + w.end + (IF w.end <= w.start THEN DayLength ELSE 0)
          IN  from <= t /\ t < to
        early == \E w \in effective[1] : w.end <= w.start /\ moment.minute < w.end
    IN  \A confirmed \in {TRUE, FALSE, None} :
          DayStatus(sch, 1, moment.minute, confirmed) # "closed_by_schedule"
            <=> covered \/ early
=============================================================================
