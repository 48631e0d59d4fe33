------------------------------ MODULE MCTools ------------------------------
(***************************************************************************)
(* The parts that share nothing, side by side: a run chooses one of them   *)
(* and takes its steps only.                                               *)
(***************************************************************************)
EXTENDS EventStore, Activation, Availability, Reconcile, Prices, Hours

VARIABLE part       \* the part that runs

vars == <<part, eventVars, activationVars, availabilityVars, catalog, asked, moment>>

Init ==
  /\ part \in {"events", "activation", "catalog", "prices", "hours", "availability"}
  /\ EventInit /\ ActivationInit /\ AvailabilityInit
  /\ ReconcileInit /\ PriceInit /\ HourInit

EventStep ==
  /\ part = "events" /\ EventNext
  /\ UNCHANGED <<part, activationVars, catalog, asked, moment, availabilityVars>>
ActivationStep ==
  /\ part = "activation" /\ ActivationNext
  /\ UNCHANGED <<part, eventVars, catalog, asked, moment, availabilityVars>>
CatalogStep ==
  /\ part = "catalog" /\ ReconcileNext
  /\ UNCHANGED <<part, eventVars, activationVars, asked, moment, availabilityVars>>
PriceStep ==
  /\ part = "prices" /\ Ask
  /\ UNCHANGED <<part, eventVars, activationVars, catalog, moment, availabilityVars>>
HoursStep ==
  /\ part = "hours" /\ Look
  /\ UNCHANGED <<part, eventVars, activationVars, catalog, asked, availabilityVars>>
AvailabilityStep ==
  /\ part = "availability" /\ AvailabilityNext
  /\ UNCHANGED <<part, eventVars, activationVars, catalog, asked, moment>>

Next == \/ EventStep \/ ActivationStep \/ CatalogStep
        \/ PriceStep \/ HoursStep \/ AvailabilityStep

Spec == Init /\ [][Next]_vars

=============================================================================
