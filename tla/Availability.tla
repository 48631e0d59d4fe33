---------------------------- MODULE Availability ----------------------------
(***************************************************************************)
(* core/lib/availability_state.py: the record of what is wanted of an item *)
(* and of what its destination has confirmed.  A request is a new record   *)
(* (test_availability_state.py:46-52).  The destination, which is external,*)
(* numbers its confirmations as it sends them; they arrive in any order,   *)
(* repeatedly, after a later request, or never.                            *)
(***************************************************************************)
EXTENDS Naturals

CONSTANTS
  MaxNumber,      \* bound: the highest number of a confirmation; a record starts at 1
  Unconfirmed     \* confirmed_state None

VARIABLES
  record,     \* desired, confirmed, version, expired
  sent,       \* what the confirmation of each number says, once it is sent
  arrived,    \* history: the numbers that have arrived since the request
  former      \* history: the numbers sent before the request

availabilityVars == <<record, sent, arrived, former>>

Numbers == 1 .. MaxNumber

ASSUME UnconfirmedIsNoState == Unconfirmed \notin BOOLEAN

Requested(desired) ==
  [desired |-> desired, confirmed |-> Unconfirmed, version |-> 1, expired |-> FALSE]

AvailabilityInit ==
  /\ record = Requested(TRUE)
  /\ sent = [n \in Numbers |-> Unconfirmed]
  /\ arrived = {}
  /\ former = {}

Sent == {n \in Numbers : sent[n] # Unconfirmed}

(* A mutant: an older confirmation overwrites a newer one.                 *)
Applied_MutantAnyVersion(r, state, n) == [r EXCEPT !.confirmed = state, !.version = n]

(* apply_confirmation.                                                     *)
Applied(r, state, n) ==
  IF n <= r.version THEN r ELSE [r EXCEPT !.confirmed = state, !.version = n]

(* display_state of a supported item.                                      *)
DisplayState(r) ==
  CASE r.confirmed = Unconfirmed -> "pending_confirmation"
    [] r.confirmed # Unconfirmed /\ r.expired -> "stale"
    [] r.confirmed # Unconfirmed /\ ~r.expired /\ r.confirmed # r.desired -> "failed"
    [] OTHER -> IF r.confirmed = TRUE THEN "available_confirmed" ELSE "stopped_confirmed"

(* A new record, which inherits no confirmation.                           *)
Request ==
  /\ \E desired \in BOOLEAN : record' = Requested(desired)
  /\ arrived' = {}
  /\ former' = Sent
  /\ UNCHANGED sent

(* The destination reports the state of the item.                          *)
Send ==
  \E n \in Numbers, state \in BOOLEAN :
    /\ \A m \in Sent : m < n
    /\ sent' = [sent EXCEPT ![n] = state]
    /\ UNCHANGED <<record, arrived, former>>

(* expires_at passes.                                                      *)
Expire ==
  /\ ~record.expired
  /\ record' = [record EXCEPT !.expired = TRUE]
  /\ UNCHANGED <<sent, arrived, former>>

Confirm ==
  \E n \in Sent :
    /\ record' = Applied(record, sent[n], n)
    /\ arrived' = arrived \cup {n}
    /\ UNCHANGED <<sent, former>>

AvailabilityNext == Request \/ Send \/ Expire \/ Confirm

AvailabilitySpec == AvailabilityInit /\ [][AvailabilityNext]_availabilityVars

-----------------------------------------------------------------------------
(* A request is shown as pending until a confirmation arrives, whatever    *)
(* was confirmed before it (availability_state.py:4-6), and once one sent  *)
(* since the request has arrived, what is shown agrees with the newest of  *)
(* these: confirmed only if it says what is wanted.  Older ones and late   *)
(* ones of an earlier request no longer count, in whatever order they came *)
(* (52-60, 65-71).  Nothing is said while only late ones have arrived: the *)
(* code takes such an answer for one to the request, since it compares     *)
(* versions only and a new record starts at 1 (67, 38).                    *)
ShowsNewestConfirmation ==
  LET answers == {n \in arrived \ former : n > 1}
      newest  == sent[CHOOSE n \in answers : \A m \in answers : m <= n]
      shown   == DisplayState(record)
  IN  /\ arrived \subseteq {1} => shown = "pending_confirmation"
      /\ answers # {} =>
           \/ record.expired /\ shown = "stale"
           \/ ~record.expired /\ newest = record.desired
                /\ shown = (IF newest THEN "available_confirmed" ELSE "stopped_confirmed")
           \/ ~record.expired /\ newest # record.desired /\ shown = "failed"
=============================================================================
