---------------------------- MODULE PartnerGrant ----------------------------
(***************************************************************************)
(* core/models/partner_grant.py, on the database of Membership: what the   *)
(* record rules read of a grant (is_currently_valid) and what the code     *)
(* asks (is_active_now).  The scope of a grant is fixed and left out.      *)
(***************************************************************************)
EXTENDS Membership

CONSTANT GrantEnds    \* the values of expires_at considered

Grant ==
  [member : MemberIds, expires : GrantEnds, revoked : BOOLEAN, valid : BOOLEAN]

(* is_active_now, the first check of check_access_or_raise.                *)
ActiveNow(d, g, now) == d.grant[g].expires > now /\ ~d.grant[g].revoked

(* A mutant: revocation is not looked at.                                  *)
Revalidated_MutantExpiryOnly(d, g, now) ==
  [d EXCEPT !.grant[g].valid = d.grant[g].expires > now]

(* _recompute_is_currently_valid, all that refresh_validity does.          *)
Revalidated(d, g, now) == [d EXCEPT !.grant[g].valid = ActiveNow(d, g, now)]

Granted(d, g, m, end, now) ==
  IF Exists(d, m)
  THEN {Revalidated([d EXCEPT !.grant[g] =
          [member |-> m, expires |-> end, revoked |-> FALSE, valid |-> TRUE]], g, now)}
  ELSE {}

(* write() of expires_at: nothing computes the flag anew.                  *)
Extended(d, g, end) == {[d EXCEPT !.grant[g].expires = end]}

Refreshed(d, g, now) == {Revalidated(d, g, now)}

(* revoke().                                                               *)
Revoked(d, g, now) ==
  {Invalidated(Revalidated([d EXCEPT !.grant[g].revoked = TRUE], g, now), {d.grant[g].member})}
=============================================================================
