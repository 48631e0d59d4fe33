----------------------------- MODULE MCIdentity -----------------------------
(* Small instances of Identity for TLC.                                    *)
EXTENDS Identity, TLC

ThreeRoles ==
  "merchant_owner" :> "merchant" @@ "merchant_accountant" :> "merchant"
    @@ "octatech_identity_admin" :> "octatech"

NoRows ==
  [member |-> [m \in MemberIds |-> None],
   user   |-> [u \in Users |-> [enabled |-> FALSE, context |-> None]],
   group  |-> [p \in Users \X Roles |-> FALSE],
   org    |-> [o \in Orgs |-> "draft"],
   token  |-> [t \in TokenIds |-> None],
   grant  |-> [g \in GrantIds |-> None]]

With(ds, m, u, role, o) ==
  UNION {Stored(d, m, [user |-> u, party |-> RoleParty[role], role |-> role,
                       org |-> o, active |-> TRUE]) : d \in ds}

(* "ana" owns two organizations, "bo" is the identity admin.               *)
TwoShops ==
  With(With(With({NoRows}, 1, "ana", "merchant_owner", "o1"),
            2, "ana", "merchant_owner", "o2"), 3, "bo", "octatech_identity_admin", None)
Alike == Permutations(Sessions)
=============================================================================
