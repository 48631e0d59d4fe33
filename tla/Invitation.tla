----------------------------- MODULE Invitation -----------------------------
(***************************************************************************)
(* core/models/invitation.py and the pages of core/controllers/            *)
(* auth_controller.py, on the database of Membership.  A token is found by *)
(* its hash, so an id stands for the raw token and for its row; an email   *)
(* stands for the account that logs in with it.                            *)
(***************************************************************************)
EXTENDS Membership

CONSTANTS
  TokenTTL,       \* TOKEN_TTL_HOURS, on the model's clock
  MaxTime         \* bound: the last moment of the clock

Purposes == {"initial_invite", "email_verification", "password_reset"}

Token ==
  [email : Users, purpose : Purposes, member : MemberIds \cup {None},
   expires : 0 .. MaxTime + TokenTTL, consumed : BOOLEAN,
   superseded_by : TokenIds \cup {None}]

Open(d, t) == d.token[t] # None /\ ~d.token[t].consumed

(* `valid` of preview_only, which changes nothing.                         *)
Valid(d, t, now) == Open(d, t) /\ d.token[t].expires > now

(* create(): only an active identity admin makes a first invitation.       *)
MayInvite(d, creator) ==
  \E m \in ActiveMembers(d, creator) :
    d.member[m].party = "octatech" /\ d.member[m].role = "octatech_identity_admin"

(* A mutant: earlier tokens stay open.                                     *)
Superseded_MutantNone(d, t) == {}

(* The tokens that issuing t ends.                                         *)
Superseded(d, t) ==
  {o \in TokenIds \ {t} : /\ Open(d, o)
                          /\ d.token[o].email = d.token[t].email
                          /\ d.token[o].purpose = d.token[t].purpose}

(* issue().                                                                *)
Issued(d, t, creator, email, purpose, m, now) ==
  LET made == [d EXCEPT !.token[t] =
        [email |-> email, purpose |-> purpose, member |-> m, expires |-> now + TokenTTL,
         consumed |-> FALSE, superseded_by |-> None]]
      previous == Superseded(made, t)
  IN  IF purpose = "initial_invite" => MayInvite(d, creator)
      THEN {[made EXCEPT !.token = [o \in TokenIds |->
               IF o \in previous THEN [@[o] EXCEPT !.consumed = TRUE, !.superseded_by = t]
                                 ELSE @[o]]]}
      ELSE {}

(* password_reset_request: the first active membership of the account.     *)
ResetRequested(d, t, u, now) ==
  LET ms == ActiveMembers(d, u)
      first == CHOOSE m \in ms : \A o \in ms : m <= o
  IN  IF ms = {} THEN {} ELSE Issued(d, t, None, u, "password_reset", first, now)

(* A mutant: a token that has ended is taken.                              *)
Consumable_MutantAgain(d, t, now) ==
  /\ d.token[t] # None /\ d.token[t].expires > now
  /\ d.token[t].purpose \in {"initial_invite", "password_reset"}

(* The checks of consume() for the purposes the page allows.  What the     *)
(* request locked before them is never stale: see Identity.                *)
Consumable(d, t, now) ==
  Valid(d, t, now) /\ d.token[t].purpose \in {"initial_invite", "password_reset"}

(* A mutant: the checks of the membership are missing.                     *)
MayEnter_MutantAny(d, m) == m # None

(* The checks of invite_accept on the membership behind a token.           *)
MayEnter(d, m) ==
  /\ m # None
  /\ d.member[m].active
  /\ ~(/\ d.member[m].party = "merchant" /\ d.member[m].org # None
       /\ d.org[d.member[m].org] = "suspended")

(* invite_accept: the token is consumed and its account enabled, or        *)
(* neither, as both are in one savepoint.                                  *)
Accepted(d, t, now) ==
  IF Consumable(d, t, now) /\ MayEnter(d, d.token[t].member)
  THEN {[d EXCEPT !.token[t].consumed = TRUE,
                  !.user[d.member[d.token[t].member].user].enabled = TRUE]}
  ELSE {}
=============================================================================
