----------------------------- MODULE Membership -----------------------------
(***************************************************************************)
(* core/models/membership.py, core/lib/authority_context.py and            *)
(* organization.py: suspend, as operators on the database `d` a            *)
(* transaction sees.  A table is a function from row ids to rows:          *)
(*   d.member   memberships          d.group   user-group pairs            *)
(*   d.user     accounts             d.org     organizations               *)
(*   d.token    invitations          d.grant   partner grants              *)
(* An operator whose name is a verb in the past tense gives the set of     *)
(* databases the call may leave: none when it raises.                      *)
(***************************************************************************)
EXTENDS Naturals, FiniteSets

CONSTANTS
  Users, Orgs, MemberIds,
  RoleParty,      \* the authority each role code belongs to
  TokenIds, GrantIds,
  None            \* an absent row, an empty field

Parties == {"merchant", "partner", "octatech"}
Roles == DOMAIN RoleParty

Member ==
  [user : Users, party : Parties, role : Roles, org : Orgs \cup {None}, active : BOOLEAN]

Account == [enabled : BOOLEAN, context : MemberIds \cup {None}]

Exists(d, m) == d.member[m] # None
ActiveMembers(d, u) ==
  {m \in MemberIds : Exists(d, m) /\ d.member[m].user = u /\ d.member[m].active}

(* A mutant: a role may be given in another authority.                     *)
RoleMatches_MutantAnyRole(v) == v.party = "merchant" => v.org # None

(* _check_role_matches_party_type.                                         *)
RoleMatches(v) ==
  /\ v.party = RoleParty[v.role]
  /\ v.party = "merchant" => v.org # None

(* authority_context.py: what the user has in another authority, or in     *)
(* another role of the same one.                                           *)
DualAuthority(types, party) == types \ {party} # {}
MixedRole(roles, role) == roles \ {role} # {}

(* A mutant: only the authority is compared, not the role.                 *)
SingleAuthorityFor_MutantAnyRole(d, m) ==
  LET v == d.member[m] IN
  v.active => \A o \in ActiveMembers(d, v.user) \ {m} : d.member[o].party = v.party

(* _check_single_authority_per_user: one authority and one role per user.  *)
SingleAuthorityFor(d, m) ==
  LET v      == d.member[m]
      others == {d.member[o] : o \in ActiveMembers(d, v.user) \ {m}}
  IN  v.active =>
        /\ ~DualAuthority({w.party : w \in others}, v.party)
        /\ ~MixedRole({w.role : w \in {x \in others : x.party = v.party}}, v.role)

(* unique(user_id, organization_id, role_code): rows without an            *)
(* organization are not compared, as NULL is equal to nothing.             *)
UniqueMembers(d) ==
  \A m, o \in {x \in MemberIds : Exists(d, x)} :
    LET v == d.member[m]  w == d.member[o] IN
    v.user = w.user /\ v.role = w.role /\ v.org = w.org /\ v.org # None => m = o

(* A mutant: groups are added and never taken away.                        *)
Recomputed_MutantNoRemoval(d, us) ==
  [d EXCEPT !.group = [p \in Users \X Roles |->
     @[p] \/ (p[1] \in us /\ \E m \in ActiveMembers(d, p[1]) : d.member[m].role = p[2])]]

(* _recompute_octa_security_groups_from_active_memberships, for users us.  *)
Recomputed(d, us) ==
  [d EXCEPT !.group = [p \in Users \X Roles |->
     IF p[1] \in us THEN \E m \in ActiveMembers(d, p[1]) : d.member[m].role = p[2]
                    ELSE @[p]]]

(* Storing v as membership m, by create() or write(): the constraints,     *)
(* then _sync_security_group, which also adds the group of v.              *)
Stored(d, m, v) ==
  LET stored == [d EXCEPT !.member[m] = v] IN
  IF RoleMatches(v) /\ SingleAuthorityFor(stored, m)
  THEN {Recomputed(stored, {v.user})} ELSE {}

(* What one write() may change: the fields that matter to the groups, one  *)
(* at a time, the party with the role.                                     *)
Edits(v, owners) ==
  {[v EXCEPT !.active = ~@]}
    \cup {[v EXCEPT !.user = u] : u \in owners \ {v.user}}
    \cup UNION {{[v EXCEPT !.role = r, !.party = p] : p \in Parties} : r \in Roles \ {v.role}}

(* unlink(): invitations and grants of the membership go with it and       *)
(* contexts pointing to it are emptied, by the foreign keys.               *)
Unlinked(d, m) ==
  LET gone == [d EXCEPT
        !.member[m] = None,
        !.user = [u \in Users |-> IF @[u].context = m THEN [@[u] EXCEPT !.context = None] ELSE @[u]],
        !.token = [t \in TokenIds |-> IF @[t] # None /\ @[t].member = m THEN None ELSE @[t]],
        !.grant = [g \in GrantIds |-> IF @[g] # None /\ @[g].member = m THEN None ELSE @[g]]]
  IN  IF Exists(d, m) THEN {Recomputed(gone, {d.member[m].user})} ELSE {}

(* A mutant: contexts are left as they are.                                *)
Invalidated_MutantNever(d, ms) == d

(* _invalidate_permission_cache, as far as it is stored: a user whose      *)
(* context is one of their memberships ms that is not active has none.     *)
Invalidated(d, ms) ==
  [d EXCEPT !.user = [u \in Users |->
     IF \E m \in ms : @[u].context = m /\ d.member[m].user = u /\ ~d.member[m].active
     THEN [@[u] EXCEPT !.context = None] ELSE @[u]]]

(* switch_active_context.                                                  *)
Switched(d, u, m) ==
  IF m \in ActiveMembers(d, u)
  THEN {Invalidated([d EXCEPT !.user[u].context = m], {m})} ELSE {}

(* A mutant: the groups of the ended memberships are taken, deserved by    *)
(* another or not.                                                         *)
Suspended_MutantTakesGroups(d, o) ==
  LET ms == {m \in MemberIds : Exists(d, m) /\ d.member[m].org = o /\ d.member[m].active}
  IN  {[d EXCEPT !.org[o] = "suspended",
                 !.member = [m \in MemberIds |->
                   IF m \in ms THEN [@[m] EXCEPT !.active = FALSE] ELSE @[m]],
                 !.group = [p \in Users \X Roles |->
                   @[p] /\ p \notin {<<d.member[m].user, d.member[m].role>> : m \in ms}]]}

(* suspend(): the memberships of the organization that are active are      *)
(* deactivated, each with its groups and its context.  Nobody asks whether *)
(* it is suspended already.                                                *)
Suspended(d, o) ==
  LET ms  == {m \in MemberIds : Exists(d, m) /\ d.member[m].org = o /\ d.member[m].active}
      off == [d EXCEPT !.org[o] = "suspended",
                       !.member = [m \in MemberIds |->
                         IF m \in ms THEN [@[m] EXCEPT !.active = FALSE] ELSE @[m]]]
  IN  {Invalidated(Recomputed(off, {d.member[m].user : m \in ms}), ms)}

=============================================================================
