--------------------------- MODULE IdentityProofs ---------------------------
(***************************************************************************)
(* What holds of Identity for every set of accounts, organizations,        *)
(* memberships, tokens, grants and sessions.                               *)
(*                                                                         *)
(* Each request is shown, once, to be lawful in the view its session has   *)
(* of the tables; a commit is shown to leave each table as the database    *)
(* had it or as the request saw and left it.  The two together give the    *)
(* invariant, without looking at the single requests again.                *)
(***************************************************************************)
EXTENDS Identity, FiniteSetTheorems, WellFoundedInduction, TLAPS

-----------------------------------------------------------------------------
(* What an account's active memberships are depends on the memberships     *)
(* only.                                                                   *)
LEMMA SameMembers ==
  ASSUME NEW d, NEW e, d.member = e.member, NEW u
  PROVE  ActiveMembers(d, u) = ActiveMembers(e, u)
BY DEF ActiveMembers, Exists

(* A recomputation gives the accounts us the groups of their active        *)
(* memberships and touches nothing else (membership.py:209-238).           *)
LEMMA RecomputedFacts ==
  ASSUME NEW d \in Database, NEW us, NEW r, r = Recomputed(d, us)
  PROVE  /\ r \in Database
         /\ r.member = d.member /\ r.user = d.user /\ r.org = d.org
         /\ r.token = d.token /\ r.grant = d.grant
         /\ \A u \in us, c \in Roles :
              u \in Users => (r.group[<<u, c>>] <=>
                               \E m \in ActiveMembers(r, u) : r.member[m].role = c)
         /\ \A u \in Users \ us, c \in Roles : r.group[<<u, c>>] = d.group[<<u, c>>]
<1>1. /\ r \in Database
      /\ r.member = d.member /\ r.user = d.user /\ r.org = d.org
      /\ r.token = d.token /\ r.grant = d.grant
      /\ \A u \in us, c \in Roles :
           u \in Users => (r.group[<<u, c>>] <=>
                            \E m \in ActiveMembers(d, u) : d.member[m].role = c)
      /\ \A u \in Users \ us, c \in Roles : r.group[<<u, c>>] = d.group[<<u, c>>]
  BY DEF Recomputed, Database
<1>2. \A u : ActiveMembers(d, u) = ActiveMembers(r, u)
  BY <1>1, SameMembers
<1>. QED
  BY <1>1, <1>2

(* Ending contexts touches contexts only, and those only of accounts whose *)
(* context is one of ms that is theirs and inactive.                       *)
LEMMA InvalidatedFacts ==
  ASSUME NEW d \in Database, NEW ms, NEW r, r = Invalidated(d, ms)
  PROVE  /\ r \in Database
         /\ r.member = d.member /\ r.group = d.group /\ r.org = d.org
         /\ r.token = d.token /\ r.grant = d.grant
         /\ \A u \in Users :
              /\ r.user[u].enabled = d.user[u].enabled
              /\ r.user[u].context =
                   IF \E m \in ms : /\ d.user[u].context = m
                                    /\ d.member[m].user = u /\ ~d.member[m].active
                   THEN None ELSE d.user[u].context
<1>. DEFINE Ends(u) == \E m \in ms : /\ d.user[u].context = m
                                     /\ d.member[m].user = u /\ ~d.member[m].active
            After(u) == IF Ends(u) THEN [d.user[u] EXCEPT !.context = None] ELSE d.user[u]
            table == [u \in Users |-> After(u)]
<1>1. r = [d EXCEPT !.user = table]
  BY Zenon DEF Invalidated
<1>2. \A u \in Users : /\ After(u) \in Account
                       /\ After(u).enabled = d.user[u].enabled
                       /\ After(u).context = IF Ends(u) THEN None ELSE d.user[u].context
  <2>. HIDE DEF Ends
  <2>. QED
    BY DEF Database, Account
<1>. HIDE DEF After
<1>3. table \in [Users -> Account] /\ \A u \in Users : table[u] = After(u)
  BY <1>2
<1>. HIDE DEF table
<1>4. /\ r \in Database /\ r.user = table
      /\ r.member = d.member /\ r.group = d.group /\ r.org = d.org
      /\ r.token = d.token /\ r.grant = d.grant
  BY <1>1, <1>3 DEF Database
<1>5. \A u \in Users : /\ r.user[u].enabled = d.user[u].enabled
                       /\ r.user[u].context = IF Ends(u) THEN None ELSE d.user[u].context
  BY <1>2, <1>3, <1>4
<1>. QED
  BY <1>4, <1>5

(* The request changes a membership that is u's afterwards, or was u's     *)
(* when it is deleted.                                                     *)
Concerned(old, new, u) ==
  \E m \in MemberIds :
    /\ new.member[m] # old.member[m]
    /\ u = IF Exists(new, m) THEN new.member[m].user ELSE old.member[m].user

(* A membership it stores has the authority of its role, or the role it    *)
(* had; an active one shares its role with its account's others.           *)
MembersLawful(old, new) ==
  \A m \in MemberIds :
    Exists(new, m) /\ new.member[m] # old.member[m] =>
      /\ \/ new.member[m].party = RoleParty[new.member[m].role]
         \/ /\ Exists(old, m)
            /\ new.member[m].party = old.member[m].party
            /\ new.member[m].role = old.member[m].role
      /\ new.member[m].active =>
           \A o \in ActiveMembers(new, new.member[m].user) :
             new.member[o].role = new.member[m].role

(* It recomputes the groups of exactly the accounts it concerns.           *)
GroupsLawful(old, new) ==
  \A u \in Users, c \in Roles :
    /\ Concerned(old, new, u) =>
         (new.group[<<u, c>>] <=> \E m \in ActiveMembers(new, u) : new.member[m].role = c)
    /\ ~Concerned(old, new, u) => new.group[<<u, c>>] = old.group[<<u, c>>]

(* A token it leaves open and has written is new, not superseded, and      *)
(* alone open for its email and purpose.                                   *)
TokensLawful(old, new) ==
  \A t \in TokenIds :
    Open(new, t) /\ new.token[t] # old.token[t] =>
      /\ old.token[t] = None /\ new.token[t].superseded_by = None
      /\ \A o \in TokenIds \ {t} :
           Open(new, o) => \/ new.token[o].email # new.token[t].email
                           \/ new.token[o].purpose # new.token[t].purpose

(* It leaves no grant both revoked and valid that was not so before.       *)
GrantsLawful(old, new) ==
  \A g \in GrantIds :
    /\ new.grant[g] # None /\ new.grant[g].revoked /\ new.grant[g].valid
    => old.grant[g] # None /\ old.grant[g].revoked /\ old.grant[g].valid

(* It enables an account only by using up a valid token of one of the      *)
(* account's active memberships, and then changes no membership.           *)
EnablingLawful(old, new, at) ==
  \A u \in Users :
    ~old.user[u].enabled /\ new.user[u].enabled =>
      /\ new.member = old.member
      /\ \E t \in TokenIds :
           LET m == old.token[t].member IN
           /\ Valid(old, t, at) /\ m # None
           /\ old.member[m].user = u /\ old.member[m].active
           /\ new.token[t] = [old.token[t] EXCEPT !.consumed = TRUE]

(* When it suspends, no context stays on a membership it ends.             *)
SuspendingLawful(old, new) ==
  new.org # old.org =>
    \A u \in Users : \A m \in ActiveMembers(old, u) \ ActiveMembers(new, u) :
      new.user[u].context # m

(* What every request does to the tables it sees, whoever else is running. *)
Lawful(old, new, at) ==
  /\ new \in Database
  /\ MembersLawful(old, new) /\ GroupsLawful(old, new)
  /\ TokensLawful(old, new) /\ GrantsLawful(old, new)
  /\ EnablingLawful(old, new, at) /\ SuspendingLawful(old, new)

(* Recomputing the groups of the accounts concerned is lawful.             *)
LEMMA RecomputedLawful ==
  ASSUME NEW old \in Database, NEW stored \in Database, NEW us, NEW new,
         new = Recomputed(stored, us), stored.group = old.group,
         \A u \in Users : Concerned(old, new, u) <=> u \in us
  PROVE  GroupsLawful(old, new)
<1>1. /\ \A u \in us, c \in Roles :
           u \in Users => (new.group[<<u, c>>] <=>
                            \E m \in ActiveMembers(new, u) : new.member[m].role = c)
      /\ \A u \in Users \ us, c \in Roles : new.group[<<u, c>>] = stored.group[<<u, c>>]
  BY RecomputedFacts
<1>2. ASSUME NEW u \in Users, NEW c \in Roles, Concerned(old, new, u)
      PROVE  new.group[<<u, c>>] <=> \E m \in ActiveMembers(new, u) : new.member[m].role = c
  BY <1>1, <1>2
<1>3. ASSUME NEW u \in Users, NEW c \in Roles, ~Concerned(old, new, u)
      PROVE  new.group[<<u, c>>] = old.group[<<u, c>>]
  BY <1>1, <1>3
<1>4. QED
  BY <1>2, <1>3 DEF GroupsLawful

(* Changing memberships without moving them concerns their owners.         *)
LEMMA OwnersConcerned ==
  ASSUME NEW old, NEW new, NEW ms \in SUBSET MemberIds,
         \A m \in ms : /\ new.member[m] # old.member[m] /\ new.member[m] # None
                       /\ new.member[m].user = old.member[m].user,
         \A m \in MemberIds \ ms : new.member[m] = old.member[m]
  PROVE  \A u : Concerned(old, new, u) <=> u \in {old.member[m].user : m \in ms}
<1>1. ASSUME NEW u, NEW m \in MemberIds, new.member[m] # old.member[m],
             u = IF Exists(new, m) THEN new.member[m].user ELSE old.member[m].user
      PROVE  u \in {old.member[x].user : x \in ms}
  <2>1. m \in ms
    BY <1>1
  <2>2. u = old.member[m].user
    BY <1>1, <2>1 DEF Exists
  <2>3. QED
    BY <2>1, <2>2
<1>2. ASSUME NEW u, NEW m \in ms, u = old.member[m].user
      PROVE  Concerned(old, new, u)
  <2>1. /\ m \in MemberIds /\ new.member[m] # old.member[m]
        /\ u = IF Exists(new, m) THEN new.member[m].user ELSE old.member[m].user
    BY <1>2 DEF Exists
  <2>2. QED
    BY <2>1, Zenon DEF Concerned
<1>3. QED
  BY <1>1, <1>2 DEF Concerned

(* What GroupsLawful says depends on memberships and groups only.          *)
LEMMA SameGroups ==
  ASSUME NEW old, NEW new, NEW r, new.member = r.member, new.group = r.group,
         GroupsLawful(old, r)
  PROVE  GroupsLawful(old, new)
<1>1. \A u : Concerned(old, new, u) <=> Concerned(old, r, u)
  BY DEF Concerned, Exists
<1>2. \A u : ActiveMembers(new, u) = ActiveMembers(r, u)
  BY SameMembers
<1>3. ASSUME NEW u \in Users, NEW c \in Roles, Concerned(old, new, u)
      PROVE  new.group[<<u, c>>] <=> \E m \in ActiveMembers(new, u) : new.member[m].role = c
  BY <1>1, <1>2, <1>3 DEF GroupsLawful
<1>4. ASSUME NEW u \in Users, NEW c \in Roles, ~Concerned(old, new, u)
      PROVE  new.group[<<u, c>>] = old.group[<<u, c>>]
  BY <1>1, <1>4 DEF GroupsLawful
<1>5. QED
  BY <1>3, <1>4 DEF GroupsLawful

(* A request that leaves memberships, groups and organizations alone.      *)
LEMMA OthersLawful ==
  ASSUME NEW old \in Database, NEW new \in Database, NEW at,
         new.member = old.member, new.group = old.group, new.org = old.org
  PROVE  MembersLawful(old, new) /\ GroupsLawful(old, new) /\ SuspendingLawful(old, new)
BY DEF MembersLawful, GroupsLawful, SuspendingLawful, Concerned

(* A request that enables nobody.                                          *)
LEMMA SameEnabled ==
  ASSUME NEW old \in Database, NEW new \in Database, NEW at,
         \A u \in Users : new.user[u].enabled = old.user[u].enabled
  PROVE  EnablingLawful(old, new, at)
BY DEF EnablingLawful

(* A request that only deletes tokens and grants.                          *)
LEMMA GoneOrKept ==
  ASSUME NEW old \in Database, NEW new \in Database,
         \A t \in TokenIds : new.token[t] \in {None, old.token[t]},
         \A g \in GrantIds : new.grant[g] \in {None, old.grant[g]}
  PROVE  TokensLawful(old, new) /\ GrantsLawful(old, new)
BY DEF TokensLawful, GrantsLawful, Open

(* create() and write() of a membership (membership.py:172-182).           *)
LEMMA StoredLawful ==
  ASSUME NEW d \in Database, NEW m \in MemberIds, NEW v \in Member, v # d.member[m],
         NEW new \in Stored(d, m, v), NEW at
  PROVE  Lawful(d, new, at)
<1>. DEFINE stored == [d EXCEPT !.member[m] = v]
            us == {v.user}
<1>1. /\ stored \in Database
      /\ stored.member = [d.member EXCEPT ![m] = v]
      /\ stored.group = d.group /\ stored.user = d.user /\ stored.org = d.org
      /\ stored.token = d.token /\ stored.grant = d.grant
  BY DEF Database
<1>2. /\ new = Recomputed(stored, us)
      /\ RoleMatches(v) /\ SingleAuthorityFor(stored, m)
  BY Zenon DEF Stored
<1>. HIDE DEF stored, us
<1>3. /\ new \in Database
      /\ new.member = stored.member /\ new.user = d.user /\ new.org = d.org
      /\ new.token = d.token /\ new.grant = d.grant
  BY <1>1, <1>2, RecomputedFacts
<1>4. /\ new.member[m] = v /\ v # None /\ v.user \in Users
      /\ \A o \in MemberIds \ {m} : new.member[o] = d.member[o]
  BY <1>1, <1>3, NoneAssumption DEF Database, Member
<1>5. MembersLawful(d, new)
  <2>1. v.party = RoleParty[v.role]
    BY <1>2 DEF RoleMatches
  <2>2. ASSUME v.active, NEW o \in ActiveMembers(new, v.user) PROVE new.member[o].role = v.role
    <3>1. CASE o = m
      BY <1>4, <3>1
    <3>2. CASE o # m
      <4>1. /\ o \in ActiveMembers(stored, v.user) \ {m} /\ stored.member[m] = v
            /\ stored.member[o] = new.member[o]
        BY <1>3, <1>4, <2>2, <3>2 DEF ActiveMembers, Exists
      <4>. DEFINE others == {stored.member[x] : x \in ActiveMembers(stored, v.user) \ {m}}
      <4>2. /\ ~DualAuthority({w.party : w \in others}, v.party)
            /\ ~MixedRole({w.role : w \in {x \in others : x.party = v.party}}, v.role)
        BY <1>2, <2>2, <4>1, Zenon DEF SingleAuthorityFor
      <4>3. new.member[o] \in others
        BY <4>1
      <4>. HIDE DEF others
      <4>4. QED
        BY <4>2, <4>3 DEF DualAuthority, MixedRole
    <3>3. QED
      BY <3>1, <3>2
  <2>3. QED
    BY <1>4, <2>1, <2>2 DEF MembersLawful
<1>6. \A u \in Users : Concerned(d, new, u) <=> u \in us
  BY <1>4 DEF Concerned, Exists, us
<1>7. GroupsLawful(d, new)
  BY <1>1, <1>2, <1>6, RecomputedLawful
<1>8. TokensLawful(d, new) /\ GrantsLawful(d, new)
  BY <1>3, GoneOrKept
<1>9. EnablingLawful(d, new, at) /\ SuspendingLawful(d, new)
  BY <1>3 DEF EnablingLawful, SuspendingLawful
<1>. QED
  BY <1>3, <1>5, <1>7, <1>8, <1>9 DEF Lawful

(* unlink() of a membership, with what the foreign keys do.                *)
LEMMA UnlinkedLawful ==
  ASSUME NEW d \in Database, NEW m \in MemberIds, NEW new \in Unlinked(d, m), NEW at
  PROVE  Lawful(d, new, at)
<1>. DEFINE users  == [u \in Users |-> IF d.user[u].context = m
                                       THEN [d.user[u] EXCEPT !.context = None] ELSE d.user[u]]
            tokens == [t \in TokenIds |-> IF d.token[t] # None /\ d.token[t].member = m
                                          THEN None ELSE d.token[t]]
            grants == [g \in GrantIds |-> IF d.grant[g] # None /\ d.grant[g].member = m
                                          THEN None ELSE d.grant[g]]
            gone   == [d EXCEPT !.member[m] = None, !.user = users,
                                !.token = tokens, !.grant = grants]
            us     == {d.member[m].user}
<1>1. d.member[m] # None /\ new = Recomputed(gone, us)
  BY Zenon DEF Unlinked, Exists
<1>2. /\ tokens \in [TokenIds -> Token \cup {None}] /\ grants \in [GrantIds -> Grant \cup {None}]
      /\ \A t \in TokenIds : tokens[t] \in {None, d.token[t]}
      /\ \A g \in GrantIds : grants[g] \in {None, d.grant[g]}
  BY DEF Database
<1>3. users \in [Users -> Account] /\ \A u \in Users : users[u].enabled = d.user[u].enabled
  BY DEF Database, Account
<1>. HIDE DEF users, tokens, grants
<1>4. /\ gone \in Database
      /\ gone.member = [d.member EXCEPT ![m] = None]
      /\ gone.group = d.group /\ gone.user = users /\ gone.org = d.org
      /\ gone.token = tokens /\ gone.grant = grants
  BY <1>2, <1>3 DEF Database
<1>. HIDE DEF gone, us
<1>5. /\ new \in Database
      /\ new.member = gone.member /\ new.user = users /\ new.org = d.org
      /\ new.token = tokens /\ new.grant = grants
  BY <1>1, <1>4, RecomputedFacts
<1>6. /\ new.member[m] = None
      /\ \A o \in MemberIds \ {m} : new.member[o] = d.member[o]
  BY <1>4, <1>5 DEF Database
<1>7. MembersLawful(d, new)
  BY <1>6 DEF MembersLawful, Exists
<1>8. \A u \in Users : Concerned(d, new, u) <=> u \in us
  BY <1>1, <1>6 DEF Concerned, Exists, us
<1>9. GroupsLawful(d, new)
  BY <1>1, <1>4, <1>8, RecomputedLawful
<1>10. TokensLawful(d, new) /\ GrantsLawful(d, new)
  BY <1>2, <1>5, GoneOrKept
<1>11. EnablingLawful(d, new, at)
  BY <1>3, <1>5, SameEnabled
<1>12. SuspendingLawful(d, new)
  BY <1>5 DEF SuspendingLawful
<1>. QED
  BY <1>5, <1>7, <1>9, <1>10, <1>11, <1>12 DEF Lawful

(* switch_active_context.                                                  *)
LEMMA SwitchedLawful ==
  ASSUME NEW d \in Database, NEW u \in Users, NEW m \in MemberIds,
         NEW new \in Switched(d, u, m), NEW at
  PROVE  Lawful(d, new, at)
<1>. DEFINE users == [d.user EXCEPT ![u].context = m]
            switched == [d EXCEPT !.user[u].context = m]
            ms == {m}
<1>1. new = Invalidated(switched, ms)
  BY Zenon DEF Switched
<1>2. users \in [Users -> Account] /\ \A x \in Users : users[x].enabled = d.user[x].enabled
  BY DEF Database, Account
<1>3. switched = [d EXCEPT !.user = users]
  OBVIOUS
<1>. HIDE DEF users
<1>4. /\ switched \in Database
      /\ switched.member = d.member /\ switched.group = d.group /\ switched.org = d.org
      /\ switched.token = d.token /\ switched.grant = d.grant
      /\ \A x \in Users : switched.user[x].enabled = d.user[x].enabled
  BY <1>2, <1>3 DEF Database
<1>. HIDE DEF switched, ms
<1>5. /\ new \in Database
      /\ new.member = d.member /\ new.group = d.group /\ new.org = d.org
      /\ new.token = d.token /\ new.grant = d.grant
      /\ \A x \in Users : new.user[x].enabled = d.user[x].enabled
  BY <1>1, <1>4, InvalidatedFacts
<1>. QED
  BY <1>5, OthersLawful, SameEnabled, GoneOrKept DEF Lawful

(* suspend() of an organization (organization.py:47-61).                   *)
LEMMA SuspendedLawful ==
  ASSUME NEW d \in Database, NEW o \in Orgs, NEW new \in Suspended(d, o), NEW at
  PROVE  Lawful(d, new, at)
<1>. DEFINE ms  == {m \in MemberIds : Exists(d, m) /\ d.member[m].org = o /\ d.member[m].active}
            off(m) == [d.member[m] EXCEPT !.active = FALSE]
            ended == [m \in MemberIds |-> IF m \in ms THEN off(m) ELSE d.member[m]]
            left == [d EXCEPT !.org[o] = "suspended", !.member = ended]
            us  == {d.member[m].user : m \in ms}
            r   == Recomputed(left, us)
<1>1. new = Invalidated(r, ms)
  BY Zenon DEF Suspended
<1>2. /\ ms \subseteq MemberIds
      /\ \A m \in ms : d.member[m] \in Member /\ d.member[m] # None /\ d.member[m].active
  BY DEF Database, Exists
<1>. HIDE DEF ms
<1>3. \A m \in ms : /\ off(m) \in Member /\ ~off(m).active /\ off(m).party = d.member[m].party
                      /\ off(m).user = d.member[m].user /\ off(m).role = d.member[m].role
  BY <1>2 DEF Member
<1>. HIDE DEF off
<1>4. /\ ended \in [MemberIds -> Member \cup {None}]
      /\ \A m \in MemberIds \ ms : ended[m] = d.member[m]
      /\ \A m \in ms : /\ ended[m] # d.member[m] /\ ended[m] # None
                       /\ ended[m].user = d.member[m].user /\ ended[m].role = d.member[m].role
                       /\ ended[m].party = d.member[m].party /\ ~ended[m].active
  BY <1>2, <1>3, NoneAssumption DEF Database
<1>. HIDE DEF ended
<1>5. /\ left \in Database /\ left.member = ended
      /\ left.group = d.group /\ left.user = d.user
      /\ left.token = d.token /\ left.grant = d.grant
  BY <1>4 DEF Database
<1>. HIDE DEF left
<1>6. /\ r \in Database /\ r.member = ended /\ r.user = d.user
      /\ r.token = d.token /\ r.grant = d.grant
  BY <1>5, RecomputedFacts
<1>7. \A u \in Users : Concerned(d, r, u) <=> u \in us
  BY <1>2, <1>4, <1>6, OwnersConcerned
<1>. HIDE DEF us
<1>8. GroupsLawful(d, r)
  BY <1>5, <1>7, RecomputedLawful
<1>. HIDE DEF r
<1>9. /\ new \in Database /\ new.member = r.member /\ new.group = r.group
      /\ new.token = d.token /\ new.grant = d.grant
      /\ \A u \in Users :
           /\ new.user[u].enabled = d.user[u].enabled
           /\ new.user[u].context = IF \E m \in ms : /\ d.user[u].context = m
                                                     /\ ended[m].user = u /\ ~ended[m].active
                                    THEN None ELSE d.user[u].context
  BY <1>1, <1>6, InvalidatedFacts
<1>10. GroupsLawful(d, new)
  BY <1>8, <1>9, SameGroups
<1>11. MembersLawful(d, new)
  BY <1>2, <1>4, <1>6, <1>9 DEF MembersLawful, Exists
<1>12. TokensLawful(d, new) /\ GrantsLawful(d, new) /\ EnablingLawful(d, new, at)
  BY <1>9, GoneOrKept, SameEnabled
<1>13. ASSUME NEW u \in Users, NEW m \in ActiveMembers(d, u) \ ActiveMembers(new, u)
       PROVE  new.user[u].context # m
  <2>1. /\ m \in ms /\ m \in MemberIds /\ d.member[m].user = u
    BY <1>4, <1>6, <1>9 DEF ActiveMembers, Exists
  <2>2. ended[m].user = u /\ ~ended[m].active /\ m # None
    BY <1>4, <2>1, NoneAssumption
  <2>3. QED
    BY <1>9, <2>1, <2>2
<1>. QED
  BY <1>9, <1>10, <1>11, <1>12, <1>13 DEF Lawful, SuspendingLawful

(* issue() of a token, which ends the earlier ones (invitation.py:90-112). *)
LEMMA IssuedLawful ==
  ASSUME NEW d \in Database, NEW t \in TokenIds, d.token[t] = None, NEW creator,
         NEW email \in Users, NEW purpose \in Purposes, NEW m \in MemberIds \cup {None},
         NEW at \in 0 .. MaxTime, NEW new \in Issued(d, t, creator, email, purpose, m, at)
  PROVE  Lawful(d, new, at)
<1>. DEFINE fresh == [email |-> email, purpose |-> purpose, member |-> m, expires |-> at + TokenTTL,
                      consumed |-> FALSE, superseded_by |-> None]
            made == [d EXCEPT !.token[t] = fresh]
            previous == Superseded(made, t)
            ended(x) == [made.token[x] EXCEPT !.consumed = TRUE, !.superseded_by = t]
            tokens == [x \in TokenIds |-> IF x \in previous THEN ended(x) ELSE made.token[x]]
<1>1. new = [made EXCEPT !.token = tokens]
  BY Zenon DEF Issued
<1>2. fresh \in Token /\ fresh # None /\ ~fresh.consumed /\ fresh.superseded_by = None
  <2>1. at + TokenTTL \in 0 .. MaxTime + TokenTTL
    BY IdentityAssumption
  <2>2. fresh \in Token
    BY <2>1 DEF Token
  <2>3. QED
    BY <2>2, NoneAssumption
<1>. HIDE DEF fresh
<1>3. /\ made \in Database /\ made.token[t] = fresh
      /\ \A x \in TokenIds \ {t} : made.token[x] = d.token[x]
      /\ made.member = d.member /\ made.group = d.group /\ made.org = d.org
      /\ made.user = d.user /\ made.grant = d.grant
  BY <1>2 DEF Database
<1>. HIDE DEF made
<1>4. /\ previous \subseteq TokenIds \ {t}
      /\ \A x \in TokenIds \ {t} : Open(made, x) /\ x \notin previous =>
           made.token[x].email # fresh.email \/ made.token[x].purpose # fresh.purpose
      /\ \A x \in previous : made.token[x] \in Token
  BY <1>3 DEF Superseded, Open, Database
<1>. HIDE DEF previous
<1>5. \A x \in previous : ended(x) \in Token /\ ended(x).consumed
  BY <1>4 DEF Token
<1>. HIDE DEF ended
<1>6. /\ tokens \in [TokenIds -> Token \cup {None}]
      /\ \A x \in TokenIds : tokens[x] = IF x \in previous THEN ended(x) ELSE made.token[x]
  BY <1>3, <1>5 DEF Database
<1>. HIDE DEF tokens
<1>7. /\ new \in Database /\ new.token = tokens
      /\ new.member = d.member /\ new.group = d.group /\ new.org = d.org
      /\ new.user = d.user /\ new.grant = d.grant
  BY <1>1, <1>3, <1>6 DEF Database
<1>8. \A x \in TokenIds : Open(new, x) => x \notin previous /\ new.token[x] = made.token[x]
  BY <1>5, <1>6, <1>7 DEF Open
<1>9. TokensLawful(d, new)
  <2>. SUFFICES ASSUME NEW x \in TokenIds, Open(new, x), new.token[x] # d.token[x]
                PROVE  /\ d.token[x] = None /\ new.token[x].superseded_by = None
                       /\ \A o \in TokenIds \ {x} :
                            Open(new, o) => \/ new.token[o].email # new.token[x].email
                                            \/ new.token[o].purpose # new.token[x].purpose
    BY DEF TokensLawful
  <2>1. x = t /\ new.token[x] = fresh
    BY <1>3, <1>8
  <2>2. \A o \in TokenIds \ {t} : Open(new, o) => Open(made, o)
    BY <1>8 DEF Open
  <2>3. QED
    BY <1>2, <1>4, <1>8, <2>1, <2>2
<1>10. GrantsLawful(d, new)
  BY <1>7 DEF GrantsLawful
<1>. QED
  BY <1>7, <1>9, <1>10, OthersLawful, SameEnabled DEF Lawful

(* A set of memberships that is not empty has a first one.                 *)
LEMMA FirstExists ==
  ASSUME NEW S \in SUBSET MemberIds, S # {}
  PROVE  (CHOOSE m \in S : \A o \in S : m <= o) \in S
<1>1. IsWellFoundedOn(OpToRel(<, Nat), Nat)
  BY NatLessThanWellFounded
<1>2. S \subseteq Nat
  BY IdentityAssumption
<1>3. PICK m \in S : \A o \in S : ~(<<o, m>> \in OpToRel(<, Nat))
  BY <1>1, <1>2, WFMin
<1>4. ASSUME NEW o \in S PROVE m <= o
  <2>1. <<o, m>> \notin {ss \in Nat \X Nat : ss[1] < ss[2]}
    BY <1>3, Zenon DEF OpToRel
  <2>2. QED
    BY <1>2, <2>1
<1>5. QED
  BY <1>4

(* password_reset_request.                                                 *)
LEMMA ResetLawful ==
  ASSUME NEW d \in Database, NEW t \in TokenIds, d.token[t] = None, NEW u \in Users,
         NEW at \in 0 .. MaxTime, NEW new \in ResetRequested(d, t, u, at)
  PROVE  Lawful(d, new, at)
<1>. DEFINE ms == ActiveMembers(d, u)
            first == CHOOSE m \in ms : \A o \in ms : m <= o
<1>1. ms # {} /\ new \in Issued(d, t, None, u, "password_reset", first, at)
  BY Zenon DEF ResetRequested
<1>2. ms \subseteq MemberIds
  BY DEF ActiveMembers
<1>3. first \in MemberIds
  BY <1>1, <1>2, FirstExists
<1>. HIDE DEF first
<1>4. "password_reset" \in Purposes
  BY DEF Purposes
<1>5. QED
  BY <1>1, <1>3, <1>4, IssuedLawful

(* invite_accept.                                                          *)
LEMMA AcceptedLawful ==
  ASSUME NEW d \in Database, NEW t \in TokenIds, NEW at, NEW new \in Accepted(d, t, at)
  PROVE  Lawful(d, new, at)
<1>. DEFINE m == d.token[t].member
            u == d.member[m].user
            used == [d.token[t] EXCEPT !.consumed = TRUE]
            tokens == [d.token EXCEPT ![t] = used]
            users == [d.user EXCEPT ![u].enabled = TRUE]
<1>1. /\ Consumable(d, t, at) /\ MayEnter(d, m)
      /\ new = [d EXCEPT !.token[t].consumed = TRUE,
                         !.user[d.member[d.token[t].member].user].enabled = TRUE]
  BY Zenon DEF Accepted
<1>2. Valid(d, t, at) /\ m # None /\ d.member[m].active
  BY <1>1 DEF Consumable, MayEnter
<1>3. d.token[t] \in Token
  BY <1>2 DEF Valid, Open, Database
<1>4. used \in Token /\ used.consumed
  BY <1>3 DEF Token
<1>5. /\ users \in [Users -> Account]
      /\ \A x \in Users : x # u => users[x] = d.user[x]
  BY DEF Database, Account
<1>6. new = [d EXCEPT !.token = tokens, !.user = users]
  BY <1>1
<1>. HIDE DEF used, users
<1>7. /\ tokens \in [TokenIds -> Token \cup {None}] /\ tokens[t] = used
      /\ \A x \in TokenIds \ {t} : tokens[x] = d.token[x]
  BY <1>4 DEF Database
<1>. HIDE DEF tokens
<1>8. /\ new \in Database /\ new.token = tokens /\ new.user = users
      /\ new.member = d.member /\ new.group = d.group /\ new.org = d.org
      /\ new.grant = d.grant
  BY <1>5, <1>6, <1>7 DEF Database
<1>9. EnablingLawful(d, new, at)
  <2>. SUFFICES ASSUME NEW x \in Users, ~d.user[x].enabled, new.user[x].enabled
                PROVE  \E y \in TokenIds :
                         /\ Valid(d, y, at) /\ d.token[y].member # None
                         /\ d.member[d.token[y].member].user = x
                         /\ d.member[d.token[y].member].active
                         /\ new.token[y] = [d.token[y] EXCEPT !.consumed = TRUE]
    BY <1>8 DEF EnablingLawful
  <2>1. x = u
    BY <1>5, <1>8
  <2>2. new.token[t] = [d.token[t] EXCEPT !.consumed = TRUE]
    BY <1>7, <1>8 DEF used
  <2>3. QED
    BY <1>2, <2>1, <2>2
<1>10. TokensLawful(d, new) /\ GrantsLawful(d, new)
  BY <1>4, <1>7, <1>8 DEF TokensLawful, GrantsLawful, Open
<1>. QED
  BY <1>8, <1>9, <1>10, OthersLawful DEF Lawful

(* A change of one grant that does not make a revoked one valid.           *)
LEMMA GrantLawful ==
  ASSUME NEW d \in Database, NEW g \in GrantIds, NEW v \in Grant, NEW new, NEW at,
         new = [d EXCEPT !.grant[g] = v],
         v.revoked /\ v.valid => d.grant[g] # None /\ d.grant[g].revoked /\ d.grant[g].valid
  PROVE  Lawful(d, new, at)
<1>1. /\ new \in Database /\ new.grant = [d.grant EXCEPT ![g] = v]
      /\ new.member = d.member /\ new.group = d.group /\ new.org = d.org
      /\ new.token = d.token /\ new.user = d.user
  BY DEF Database
<1>2. GrantsLawful(d, new)
  BY <1>1 DEF GrantsLawful, Database
<1>3. TokensLawful(d, new)
  BY <1>1 DEF TokensLawful
<1>4. QED
  BY <1>1, <1>2, <1>3, OthersLawful, SameEnabled DEF Lawful

(* create() of a grant.                                                    *)
LEMMA GrantedLawful ==
  ASSUME NEW d \in Database, NEW g \in GrantIds, NEW m \in MemberIds, NEW end \in GrantEnds,
         NEW at, NEW new \in Granted(d, g, m, end, at)
  PROVE  Lawful(d, new, at)
<1>. DEFINE fresh == [member |-> m, expires |-> end, revoked |-> FALSE, valid |-> TRUE]
            made == [d EXCEPT !.grant[g] = fresh]
            v == [fresh EXCEPT !.valid = ActiveNow(made, g, at)]
<1>1. new = Revalidated(made, g, at)
  BY Zenon DEF Granted
<1>2. v \in Grant /\ ~v.revoked
  BY DEF Grant, ActiveNow
<1>3. new = [d EXCEPT !.grant[g] = v]
  BY <1>1 DEF Revalidated, Database
<1>. HIDE DEF v
<1>4. QED
  BY <1>2, <1>3, GrantLawful

(* refresh_validity, revoke() and the write of expires_at                  *)
(* (partner_grant.py:56-82).                                               *)
LEMMA ChangedGrantLawful ==
  ASSUME NEW d \in Database, NEW g \in GrantIds, d.grant[g] # None, NEW at,
         NEW new \in Refreshed(d, g, at) \cup Revoked(d, g, at)
                       \cup UNION {Extended(d, g, end) : end \in GrantEnds}
  PROVE  Lawful(d, new, at)
<1>. DEFINE row == d.grant[g]
<1>1. row \in Grant
  BY DEF Database
<1>2. CASE new \in Refreshed(d, g, at)
  <2>. DEFINE v == [row EXCEPT !.valid = ActiveNow(d, g, at)]
  <2>1. v \in Grant /\ (v.revoked => ~v.valid)
    BY <1>1 DEF Grant, ActiveNow
  <2>2. new = [d EXCEPT !.grant[g] = v]
    BY <1>2 DEF Refreshed, Revalidated
  <2>. HIDE DEF v
  <2>3. QED
    BY <2>1, <2>2, GrantLawful
<1>3. CASE new \in UNION {Extended(d, g, end) : end \in GrantEnds}
  <2>1. PICK end \in GrantEnds : new \in Extended(d, g, end)
    BY <1>3
  <2>. DEFINE v == [row EXCEPT !.expires = end]
  <2>2. v \in Grant /\ v.revoked = row.revoked /\ v.valid = row.valid
    BY <1>1 DEF Grant
  <2>3. new = [d EXCEPT !.grant[g] = v]
    BY <2>1 DEF Extended
  <2>. HIDE DEF v
  <2>4. QED
    BY <2>2, <2>3, GrantLawful
<1>4. CASE new \in Revoked(d, g, at)
  <2>. DEFINE closed == [row EXCEPT !.revoked = TRUE]
              made == [d EXCEPT !.grant[g] = closed]
              v == [closed EXCEPT !.valid = ActiveNow(made, g, at)]
              after == [d EXCEPT !.grant[g] = v]
              ms == {row.member}
  <2>1. new = Invalidated(Revalidated([d EXCEPT !.grant[g].revoked = TRUE], g, at), ms)
    BY <1>4, Zenon DEF Revoked
  <2>2. closed \in Grant /\ closed.revoked
    BY <1>1 DEF Grant
  <2>3. made = [d EXCEPT !.grant[g].revoked = TRUE]
    OBVIOUS
  <2>. HIDE DEF closed
  <2>4. made \in Database /\ made.grant[g] = closed
    BY <2>2 DEF Database
  <2>5. v \in Grant /\ ~v.valid
    BY <2>2, <2>4 DEF Grant, ActiveNow
  <2>6. Revalidated(made, g, at) = after
    BY <2>4 DEF Revalidated, Database
  <2>. HIDE DEF v, made, ms
  <2>7. after \in Database
    BY <2>5 DEF Database
  <2>8. Lawful(d, after, at)
    BY <2>5, GrantLawful
  <2>9. new = Invalidated(after, ms)
    BY <2>1, <2>3, <2>6
  <2>10. /\ after.member = d.member /\ after.group = d.group /\ after.org = d.org
         /\ after.token = d.token /\ after.user = d.user
    BY DEF Database
  <2>. HIDE DEF after
  <2>11. /\ new \in Database
         /\ new.member = d.member /\ new.group = d.group /\ new.org = d.org
         /\ new.token = d.token /\ new.grant = after.grant
         /\ \A u \in Users : new.user[u].enabled = d.user[u].enabled
    BY <2>7, <2>9, <2>10, InvalidatedFacts
  <2>12. GrantsLawful(d, new) /\ TokensLawful(d, new)
    BY <2>8, <2>11 DEF Lawful, GrantsLawful, TokensLawful
  <2>13. QED
    BY <2>11, <2>12, OthersLawful, SameEnabled DEF Lawful
<1>5. QED
  BY <1>2, <1>3, <1>4

-----------------------------------------------------------------------------
(* The tables of a database and their ids.                                 *)
LEMMA TablesOf ==
  ASSUME NEW d \in Database
  PROVE  /\ DOMAIN d = {"member", "user", "group", "org", "token", "grant"}
         /\ DOMAIN d["member"] = MemberIds /\ DOMAIN d["user"] = Users
         /\ DOMAIN d["group"] = Users \X Roles /\ DOMAIN d["org"] = Orgs
         /\ DOMAIN d["token"] = TokenIds /\ DOMAIN d["grant"] = GrantIds
BY DEF Database

(* The rows by which a database differs from another.                      *)
LEMMA InChanged ==
  ASSUME NEW old \in Database, NEW new, NEW t, NEW k
  PROVE  <<t, k>> \in Changed(old, new) <=>
           t \in DOMAIN old /\ k \in DOMAIN old[t] /\ old[t][k] # new[t][k]
<1>. DEFINE R(x) == {<<x, j>> : j \in {y \in DOMAIN old[x] : old[x][y] # new[x][y]}}
<1>1. Changed(old, new) = UNION {R(x) : x \in DOMAIN old}
  BY Zenon DEF Changed
<1>2. \A x : <<t, k>> \in R(x) <=> x = t /\ k \in DOMAIN old[t] /\ old[t][k] # new[t][k]
  OBVIOUS
<1>. HIDE DEF R
<1>3. <<t, k>> \in UNION {R(x) : x \in DOMAIN old} <=> t \in DOMAIN old /\ <<t, k>> \in R(t)
  BY <1>2, Zenon
<1>4. QED
  BY <1>1, <1>2, <1>3

LEMMA ChangedRows ==
  ASSUME NEW old \in Database, NEW new
  PROVE  LET rows == Changed(old, new) IN
         /\ \A m \in MemberIds : <<"member", m>> \in rows <=> new.member[m] # old.member[m]
         /\ \A u \in Users : <<"user", u>> \in rows <=> new.user[u] # old.user[u]
         /\ \A p \in Users \X Roles : <<"group", p>> \in rows <=> new.group[p] # old.group[p]
         /\ \A o \in Orgs : <<"org", o>> \in rows <=> new.org[o] # old.org[o]
         /\ \A t \in TokenIds : <<"token", t>> \in rows <=> new.token[t] # old.token[t]
         /\ \A g \in GrantIds : <<"grant", g>> \in rows <=> new.grant[g] # old.grant[g]
BY TablesOf, InChanged

LEMMA ChangedAreRows ==
  ASSUME NEW old \in Database, NEW new
  PROVE  Changed(old, new) \subseteq Rows
<1>. DEFINE R(x) == {<<x, j>> : j \in {y \in DOMAIN old[x] : old[x][y] # new[x][y]}}
<1>1. Changed(old, new) = UNION {R(x) : x \in DOMAIN old}
  BY Zenon DEF Changed
<1>2. ASSUME NEW x \in DOMAIN old PROVE R(x) \subseteq Rows
  BY TablesOf DEF Rows
<1>. HIDE DEF R
<1>3. QED
  BY <1>1, <1>2, Zenon

(* What a commit makes of a table: rows the request did not change stay as *)
(* they are in the database, and those it changed were, in the database,   *)
(* as it saw them.                                                         *)
Settles(was, old, new, is, ids) ==
  \A k \in ids : IF new[k] = old[k] THEN is[k] = was[k]
                                    ELSE was[k] = old[k] /\ is[k] = new[k]

Settled(was, old, new, is) ==
  /\ is \in Database
  /\ Settles(was.member, old.member, new.member, is.member, MemberIds)
  /\ Settles(was.user, old.user, new.user, is.user, Users)
  /\ Settles(was.group, old.group, new.group, is.group, Users \X Roles)
  /\ Settles(was.org, old.org, new.org, is.org, Orgs)
  /\ Settles(was.token, old.token, new.token, is.token, TokenIds)
  /\ Settles(was.grant, old.grant, new.grant, is.grant, GrantIds)

(* The rows by which `is` differs from the view d are among `rows`.        *)
Seen(is, d, rows) ==
  /\ \A m \in MemberIds : is.member[m] # d.member[m] => <<"member", m>> \in rows
  /\ \A u \in Users : is.user[u] # d.user[u] => <<"user", u>> \in rows
  /\ \A p \in Users \X Roles : is.group[p] # d.group[p] => <<"group", p>> \in rows
  /\ \A o \in Orgs : is.org[o] # d.org[o] => <<"org", o>> \in rows
  /\ \A t \in TokenIds : is.token[t] # d.token[t] => <<"token", t>> \in rows
  /\ \A g \in GrantIds : is.grant[g] # d.grant[g] => <<"grant", g>> \in rows

(* What a session has missed is all that happened since it began.          *)
Tracked == \A s \in Sessions : snap[s] # None => Seen(db, snap[s], missed[s])

(* The types, without the bound on the requests.                           *)
Typed ==
  /\ db \in Database
  /\ snap \in [Sessions -> Database \cup {None}]
  /\ missed \in [Sessions -> SUBSET Rows]
  /\ \A s \in Sessions : snap[s] = None => missed[s] = {}
  /\ now \in 0 .. MaxTime /\ requests \in Nat /\ touch \in Touches
  /\ blind \subseteq Users /\ unseen \subseteq SUBSET TokenIds

(* The tables a commit leaves, as Commit writes them.                      *)
Merged(was, new, rows) ==
  [t \in DOMAIN was |-> [k \in DOMAIN was[t] |->
    IF <<t, k>> \in rows THEN new[t][k] ELSE was[t][k]]]

LEMMA MergedTables ==
  ASSUME NEW was \in Database, NEW new \in Database, NEW rows, NEW is,
         is = Merged(was, new, rows)
  PROVE  /\ is \in Database
         /\ \A m \in MemberIds :
              is.member[m] = IF <<"member", m>> \in rows THEN new.member[m] ELSE was.member[m]
         /\ \A u \in Users :
              is.user[u] = IF <<"user", u>> \in rows THEN new.user[u] ELSE was.user[u]
         /\ \A p \in Users \X Roles :
              is.group[p] = IF <<"group", p>> \in rows THEN new.group[p] ELSE was.group[p]
         /\ \A o \in Orgs :
              is.org[o] = IF <<"org", o>> \in rows THEN new.org[o] ELSE was.org[o]
         /\ \A t \in TokenIds :
              is.token[t] = IF <<"token", t>> \in rows THEN new.token[t] ELSE was.token[t]
         /\ \A g \in GrantIds :
              is.grant[g] = IF <<"grant", g>> \in rows THEN new.grant[g] ELSE was.grant[g]
<1>. DEFINE T(t) == [k \in DOMAIN was[t] |->
                      IF <<t, k>> \in rows THEN new[t][k] ELSE was[t][k]]
<1>1. is = [t \in {"member", "user", "group", "org", "token", "grant"} |-> T(t)]
  BY TablesOf DEF Merged
<1>2. /\ T("member") \in [MemberIds -> Member \cup {None}]
      /\ \A m \in MemberIds :
           T("member")[m] = IF <<"member", m>> \in rows THEN new.member[m] ELSE was.member[m]
  BY TablesOf DEF Database
<1>3. /\ T("user") \in [Users -> Account]
      /\ \A u \in Users :
           T("user")[u] = IF <<"user", u>> \in rows THEN new.user[u] ELSE was.user[u]
  BY TablesOf DEF Database
<1>4. /\ T("group") \in [Users \X Roles -> BOOLEAN]
      /\ \A p \in Users \X Roles :
           T("group")[p] = IF <<"group", p>> \in rows THEN new.group[p] ELSE was.group[p]
  BY TablesOf DEF Database
<1>5. /\ T("org") \in [Orgs -> {"draft", "suspended"}]
      /\ \A o \in Orgs :
           T("org")[o] = IF <<"org", o>> \in rows THEN new.org[o] ELSE was.org[o]
  BY TablesOf DEF Database
<1>6. /\ T("token") \in [TokenIds -> Token \cup {None}]
      /\ \A t \in TokenIds :
           T("token")[t] = IF <<"token", t>> \in rows THEN new.token[t] ELSE was.token[t]
  BY TablesOf DEF Database
<1>7. /\ T("grant") \in [GrantIds -> Grant \cup {None}]
      /\ \A g \in GrantIds :
           T("grant")[g] = IF <<"grant", g>> \in rows THEN new.grant[g] ELSE was.grant[g]
  BY TablesOf DEF Database
<1>. HIDE DEF T
<1>8. /\ is.member = T("member") /\ is.user = T("user") /\ is.group = T("group")
      /\ is.org = T("org") /\ is.token = T("token") /\ is.grant = T("grant")
  BY <1>1
<1>9. is \in Database
  BY <1>1, <1>2, <1>3, <1>4, <1>5, <1>6, <1>7, <1>8 DEF Database
<1>10. QED
  BY <1>2, <1>3, <1>4, <1>5, <1>6, <1>7, <1>8, <1>9

(* The rows a commit writes, and Commit in those terms.                    *)
Writes(old, new) ==
  Changed(old, new)
    \cup (IF touch THEN {<<"user", u>> : u \in GroupsWritten(new, Changed(old, new))} ELSE {})

LEMMA CommitMerges ==
  ASSUME Typed, NEW s \in Sessions, NEW new, Commit(s, new)
  PROVE  /\ Writes(snap[s], new) \cap missed[s] = {}
         /\ db' = Merged(db, new, Changed(snap[s], new))
         /\ snap' = [snap EXCEPT ![s] = None]
         /\ missed' = [o \in Sessions |-> IF o = s \/ snap[o] = None THEN {}
                                          ELSE missed[o] \cup Writes(snap[s], new)]
         /\ UniqueMembers(db') /\ ForeignKeys(db')
         /\ requests' = requests + 1 /\ UNCHANGED <<now, touch>>
BY Zenon DEF Commit, Writes, Merged

(* First updater wins: no request overwrites a row it did not see.         *)
LEMMA CommitSettles ==
  ASSUME Typed, Tracked, NEW s \in Sessions, snap[s] # None, NEW new \in Database, Commit(s, new)
  PROVE  Settled(db, snap[s], new, db')
<1>. DEFINE old == snap[s]
            rows == Changed(old, new)
<1>1. old \in Database /\ db \in Database
  BY DEF Typed
<1>2. rows \cap missed[s] = {} /\ db' = Merged(db, new, rows)
  BY CommitMerges DEF Writes
<1>3. Seen(db, old, missed[s])
  BY DEF Tracked
<1>. HIDE DEF old
<1>4. /\ \A m \in MemberIds : <<"member", m>> \in rows <=> new.member[m] # old.member[m]
      /\ \A u \in Users : <<"user", u>> \in rows <=> new.user[u] # old.user[u]
      /\ \A p \in Users \X Roles : <<"group", p>> \in rows <=> new.group[p] # old.group[p]
      /\ \A o \in Orgs : <<"org", o>> \in rows <=> new.org[o] # old.org[o]
      /\ \A t \in TokenIds : <<"token", t>> \in rows <=> new.token[t] # old.token[t]
      /\ \A g \in GrantIds : <<"grant", g>> \in rows <=> new.grant[g] # old.grant[g]
  BY <1>1, ChangedRows
<1>. HIDE DEF rows
<1>. DEFINE is == db'
<1>5. is = Merged(db, new, rows)
  BY <1>2
<1>. HIDE DEF is
<1>6. /\ is \in Database
      /\ \A m \in MemberIds :
           is.member[m] = IF <<"member", m>> \in rows THEN new.member[m] ELSE db.member[m]
      /\ \A u \in Users :
           is.user[u] = IF <<"user", u>> \in rows THEN new.user[u] ELSE db.user[u]
      /\ \A p \in Users \X Roles :
           is.group[p] = IF <<"group", p>> \in rows THEN new.group[p] ELSE db.group[p]
      /\ \A o \in Orgs :
           is.org[o] = IF <<"org", o>> \in rows THEN new.org[o] ELSE db.org[o]
      /\ \A t \in TokenIds :
           is.token[t] = IF <<"token", t>> \in rows THEN new.token[t] ELSE db.token[t]
      /\ \A g \in GrantIds :
           is.grant[g] = IF <<"grant", g>> \in rows THEN new.grant[g] ELSE db.grant[g]
  BY <1>1, <1>5, MergedTables
<1>7. \A r \in missed[s] : r \notin rows
  BY <1>2
<1>8. Settles(db.member, old.member, new.member, is.member, MemberIds)
  BY <1>3, <1>4, <1>6, <1>7 DEF Settles, Seen
<1>9. Settles(db.user, old.user, new.user, is.user, Users)
  BY <1>3, <1>4, <1>6, <1>7 DEF Settles, Seen
<1>10. Settles(db.group, old.group, new.group, is.group, Users \X Roles)
  BY <1>3, <1>4, <1>6, <1>7 DEF Settles, Seen
<1>11. Settles(db.org, old.org, new.org, is.org, Orgs)
  BY <1>3, <1>4, <1>6, <1>7 DEF Settles, Seen
<1>12. Settles(db.token, old.token, new.token, is.token, TokenIds)
  BY <1>3, <1>4, <1>6, <1>7 DEF Settles, Seen
<1>13. Settles(db.grant, old.grant, new.grant, is.grant, GrantIds)
  BY <1>3, <1>4, <1>6, <1>7 DEF Settles, Seen
<1>14. QED
  BY <1>6, <1>8, <1>9, <1>10, <1>11, <1>12, <1>13 DEF Settled, is, old

(* Another session's commit adds the rows it writes to those missed.       *)
LEMMA SeenKept ==
  ASSUME NEW was, NEW old \in Database, NEW new, NEW is, NEW d, NEW rows, NEW more,
         Settled(was, old, new, is), Seen(was, d, rows), Changed(old, new) \subseteq more
  PROVE  Seen(is, d, rows \cup more)
<1>. DEFINE all == rows \cup more
            changed == Changed(old, new)
<1>1. /\ \A m \in MemberIds : <<"member", m>> \in changed <=> new.member[m] # old.member[m]
      /\ \A u \in Users : <<"user", u>> \in changed <=> new.user[u] # old.user[u]
      /\ \A p \in Users \X Roles : <<"group", p>> \in changed <=> new.group[p] # old.group[p]
      /\ \A o \in Orgs : <<"org", o>> \in changed <=> new.org[o] # old.org[o]
      /\ \A t \in TokenIds : <<"token", t>> \in changed <=> new.token[t] # old.token[t]
      /\ \A g \in GrantIds : <<"grant", g>> \in changed <=> new.grant[g] # old.grant[g]
  BY ChangedRows
<1>2. \A r : r \in changed \/ r \in rows => r \in all
  OBVIOUS
<1>. HIDE DEF changed, all
<1>3. /\ \A m \in MemberIds : is.member[m] # d.member[m] => <<"member", m>> \in all
      /\ \A u \in Users : is.user[u] # d.user[u] => <<"user", u>> \in all
  BY <1>1, <1>2 DEF Settled, Settles, Seen
<1>4. /\ \A p \in Users \X Roles : is.group[p] # d.group[p] => <<"group", p>> \in all
      /\ \A o \in Orgs : is.org[o] # d.org[o] => <<"org", o>> \in all
  BY <1>1, <1>2 DEF Settled, Settles, Seen
<1>5. /\ \A t \in TokenIds : is.token[t] # d.token[t] => <<"token", t>> \in all
      /\ \A g \in GrantIds : is.grant[g] # d.grant[g] => <<"grant", g>> \in all
  BY <1>1, <1>2 DEF Settled, Settles, Seen
<1>6. QED
  BY <1>3, <1>4, <1>5 DEF Seen, all

(* What a commit writes are rows.                                          *)
LEMMA GroupUsers ==
  ASSUME NEW new \in Database, NEW rows \in SUBSET Rows
  PROVE  GroupsWritten(new, rows) \subseteq Users
<1>1. ASSUME NEW r \in rows, r[1] = "group" PROVE r[2][1] \in Users
  BY <1>1 DEF Rows
<1>2. ASSUME NEW r \in rows, r[1] = "member", Exists(new, r[2])
      PROVE  new.member[r[2]].user \in Users
  <2>1. r[2] \in MemberIds
    BY <1>2 DEF Rows
  <2>2. new.member[r[2]] \in Member
    BY <1>2, <2>1 DEF Database, Exists
  <2>3. QED
    BY <2>2 DEF Member
<1>3. QED
  BY <1>1, <1>2, Zenon DEF GroupsWritten

LEMMA WritesAreRows ==
  ASSUME NEW old \in Database, NEW new \in Database
  PROVE  Writes(old, new) \subseteq Rows /\ Changed(old, new) \subseteq Writes(old, new)
<1>1. Changed(old, new) \subseteq Rows
  BY ChangedAreRows
<1>2. GroupsWritten(new, Changed(old, new)) \subseteq Users
  BY <1>1, GroupUsers
<1>3. \A u \in Users : <<"user", u>> \in Rows
  BY DEF Rows
<1>. DEFINE us == GroupsWritten(new, Changed(old, new))
            rows == Changed(old, new)
<1>. HIDE DEF us, rows
<1>4. {<<"user", u>> : u \in us} \subseteq Rows
  BY <1>2, <1>3 DEF us
<1>5. QED
  BY <1>1, <1>4 DEF Writes, us, rows

(* A new id is free in the view of the session that takes it.              *)
LEMMA NextIdFree ==
  ASSUME NEW s \in Sessions, snap[s] # None, NEW t, NEW ids, NEW i \in NextId(t, ids)
  PROVE  i \in ids /\ snap[s][t][i] = None
<1>1. snap[s] \in {db} \cup ({snap[o] : o \in Sessions} \ {None})
  OBVIOUS
<1>2. QED
  BY <1>1, Zenon DEF NextId

(* An edit of a membership is a membership, and another one.               *)
LEMMA EditsTyped ==
  ASSUME NEW v \in Member, NEW w \in Edits(v, Movable)
  PROVE  w \in Member /\ w # v
<1>. DEFINE toggled == {[v EXCEPT !.active = ~@]}
            moved == {[v EXCEPT !.user = u] : u \in Movable \ {v.user}}
            given == UNION {{[v EXCEPT !.role = r, !.party = p] : p \in Parties} :
                              r \in Roles \ {v.role}}
<1>1. Edits(v, Movable) = toggled \cup moved \cup given
  BY Zenon DEF Edits
<1>2. ASSUME w \in toggled PROVE w \in Member /\ w # v
  BY <1>2 DEF Member
<1>3. ASSUME w \in moved PROVE w \in Member /\ w # v
  BY <1>3, IdentityAssumption DEF Member
<1>4. ASSUME w \in given PROVE w \in Member /\ w # v
  <2>1. PICK r \in Roles \ {v.role}, p \in Parties : w = [v EXCEPT !.role = r, !.party = p]
    BY <1>4, Zenon
  <2>2. QED
    BY <2>1 DEF Member
<1>. HIDE DEF toggled, moved, given
<1>5. QED
  BY <1>1, <1>2, <1>3, <1>4

(* Every request is lawful in the view its session has, stale or not.      *)
Request(s) ==
  \/ CreateMembership(s) \/ WriteMembership(s) \/ UnlinkMembership(s)
  \/ SwitchContext(s) \/ Suspend(s)
  \/ Issue(s) \/ RequestReset(s) \/ Accept(s)
  \/ CreateGrant(s) \/ ChangeGrant(s)

LEMMA RequestLawful ==
  ASSUME Typed, NEW s \in Sessions, Request(s)
  PROVE  snap[s] # None /\ \E new : Lawful(snap[s], new, now) /\ Commit(s, new)
<1>. DEFINE old == snap[s]
<1>1. snap[s] # None
  BY Zenon DEF Request, CreateMembership, WriteMembership, UnlinkMembership, SwitchContext,
               Suspend, Issue, RequestReset, Accept, CreateGrant, ChangeGrant
<1>2. snap[s] \in Database /\ now \in 0 .. MaxTime
  BY <1>1 DEF Typed
<1>3. CASE CreateMembership(s)
  <2>1. PICK m \in NextId("member", MemberIds), v \in {x \in Member : x.active} :
          \E new \in Stored(snap[s], m, v) : Commit(s, new)
    BY <1>3 DEF CreateMembership
  <2>2. PICK new \in Stored(snap[s], m, v) : Commit(s, new)
    BY <2>1
  <2>3. m \in MemberIds /\ v \in Member /\ v # snap[s].member[m]
    BY <1>1, NextIdFree, NoneAssumption
  <2>4. QED
    BY <1>1, <1>2, <2>2, <2>3, StoredLawful
<1>4. CASE WriteMembership(s)
  <2>1. PICK m \in {x \in MemberIds : Exists(snap[s], x)} :
          \E v \in Edits(snap[s].member[m], Movable) :
            \E new \in Stored(snap[s], m, v) : Commit(s, new)
    BY <1>4 DEF WriteMembership
  <2>2. PICK v \in Edits(snap[s].member[m], Movable) :
          \E new \in Stored(snap[s], m, v) : Commit(s, new)
    BY <2>1
  <2>3. PICK new \in Stored(snap[s], m, v) : Commit(s, new)
    BY <2>2
  <2>4. m \in MemberIds /\ snap[s].member[m] \in Member
    BY <1>2 DEF Database, Exists
  <2>5. v \in Member /\ v # snap[s].member[m]
    BY <2>4, EditsTyped
  <2>6. QED
    BY <1>1, <1>2, <2>3, <2>4, <2>5, StoredLawful
<1>5. CASE UnlinkMembership(s)
  <2>1. PICK m \in MemberIds : \E new \in Unlinked(snap[s], m) : Commit(s, new)
    BY <1>5 DEF UnlinkMembership
  <2>2. QED
    BY <1>1, <1>2, <2>1, UnlinkedLawful
<1>6. CASE SwitchContext(s)
  <2>1. PICK u \in Users, m \in MemberIds : \E new \in Switched(snap[s], u, m) : Commit(s, new)
    BY <1>6 DEF SwitchContext
  <2>2. QED
    BY <1>1, <1>2, <2>1, SwitchedLawful
<1>7. CASE Suspend(s)
  <2>1. PICK o \in Orgs : \E new \in Suspended(snap[s], o) : Commit(s, new)
    BY <1>7 DEF Suspend
  <2>2. QED
    BY <1>1, <1>2, <2>1, SuspendedLawful
<1>8. CASE Issue(s)
  <2>1. PICK t \in NextId("token", TokenIds), email \in Users, purpose \in BackOffice :
          \E creator \in IF purpose = "initial_invite" THEN Users ELSE {None},
             m \in {None} \cup {x \in MemberIds : email \in Owners(x, snap[s], snap[s])} :
            \E new \in Issued(snap[s], t, creator, email, purpose, m, now) : Commit(s, new)
    BY <1>8, Zenon DEF Issue
  <2>2. PICK creator \in IF purpose = "initial_invite" THEN Users ELSE {None},
             m \in {None} \cup {x \in MemberIds : email \in Owners(x, snap[s], snap[s])} :
          \E new \in Issued(snap[s], t, creator, email, purpose, m, now) : Commit(s, new)
    BY <2>1, Zenon
  <2>3. PICK new \in Issued(snap[s], t, creator, email, purpose, m, now) : Commit(s, new)
    BY <2>2, Zenon
  <2>4. t \in TokenIds /\ snap[s].token[t] = None
    BY <1>1, NextIdFree
  <2>5. purpose \in Purposes /\ m \in MemberIds \cup {None}
    BY IdentityAssumption
  <2>6. Lawful(snap[s], new, now)
    BY <1>2, <2>4, <2>5, IssuedLawful
  <2>7. QED
    BY <1>1, <2>3, <2>6
<1>9. CASE RequestReset(s)
  <2>1. PICK t \in NextId("token", TokenIds), u \in Users :
          \E new \in ResetRequested(snap[s], t, u, now) : Commit(s, new)
    BY <1>9 DEF RequestReset
  <2>2. t \in TokenIds /\ snap[s].token[t] = None
    BY <1>1, NextIdFree
  <2>3. QED
    BY <1>1, <1>2, <2>1, <2>2, ResetLawful
<1>10. CASE Accept(s)
  <2>1. PICK t \in TokenIds : \E new \in Accepted(snap[s], t, now) : Commit(s, new)
    BY <1>10 DEF Accept
  <2>2. QED
    BY <1>1, <1>2, <2>1, AcceptedLawful
<1>11. CASE CreateGrant(s)
  <2>1. PICK g \in NextId("grant", GrantIds), m \in MemberIds, end \in GrantEnds :
          \E new \in Granted(snap[s], g, m, end, now) : Commit(s, new)
    BY <1>11 DEF CreateGrant
  <2>2. g \in GrantIds
    BY <1>1, NextIdFree
  <2>3. QED
    BY <1>1, <1>2, <2>1, <2>2, GrantedLawful
<1>12. CASE ChangeGrant(s)
  <2>1. PICK g \in {x \in GrantIds : snap[s].grant[x] # None} :
          \E new \in Refreshed(snap[s], g, now) \cup Revoked(snap[s], g, now)
                       \cup UNION {Extended(snap[s], g, end) : end \in GrantEnds} :
            Commit(s, new)
    BY <1>12 DEF ChangeGrant
  <2>2. QED
    BY <1>1, <1>2, <2>1, ChangedGrantLawful
<1>13. QED
  BY <1>3, <1>4, <1>5, <1>6, <1>7, <1>8, <1>9, <1>10, <1>11, <1>12 DEF Request

-----------------------------------------------------------------------------
(* A membership has the authority of its role (membership.py:65-84).       *)
PartiesMatch(d) ==
  \A m \in MemberIds : Exists(d, m) => d.member[m].party = RoleParty[d.member[m].role]

LEMMA PartiesKept ==
  ASSUME NEW was \in Database, NEW old \in Database, NEW new \in Database, NEW is,
         Settled(was, old, new, is), MembersLawful(old, new), PartiesMatch(was)
  PROVE  PartiesMatch(is)
<1>. SUFFICES ASSUME NEW m \in MemberIds, is.member[m] # None
              PROVE  is.member[m].party = RoleParty[is.member[m].role]
  BY DEF PartiesMatch, Exists
<1>1. CASE new.member[m] = old.member[m]
  BY <1>1 DEF Settled, Settles, PartiesMatch, Exists
<1>2. CASE new.member[m] # old.member[m]
  <2>1. is.member[m] = new.member[m] /\ was.member[m] = old.member[m]
    BY <1>2 DEF Settled, Settles
  <2>2. QED
    BY <1>2, <2>1 DEF MembersLawful, PartiesMatch, Exists
<1>3. QED
  BY <1>1, <1>2

(* No revoked grant is valid.                                              *)
Closed(d) == \A g \in GrantIds : d.grant[g] # None /\ d.grant[g].revoked => ~d.grant[g].valid

LEMMA ClosedKept ==
  ASSUME NEW was \in Database, NEW old \in Database, NEW new \in Database, NEW is,
         Settled(was, old, new, is), GrantsLawful(old, new), Closed(was)
  PROVE  Closed(is)
BY DEF Settled, Settles, GrantsLawful, Closed

(* An open token has not been superseded.                                  *)
NotSuperseded(d) == \A t \in TokenIds : Open(d, t) => d.token[t].superseded_by = None

LEMMA NotSupersededKept ==
  ASSUME NEW was \in Database, NEW old \in Database, NEW new \in Database, NEW is,
         Settled(was, old, new, is), TokensLawful(old, new), NotSuperseded(was)
  PROVE  NotSuperseded(is)
BY DEF Settled, Settles, TokensLawful, NotSuperseded, Open

(* Two open tokens of one email and purpose.  A commit leaves two only if  *)
(* they were there, or if it makes one and has not seen the other.         *)
Alike(d, t, o) ==
  /\ Open(d, t) /\ Open(d, o)
  /\ d.token[t].email = d.token[o].email /\ d.token[t].purpose = d.token[o].purpose

LEMMA OpenPairs ==
  ASSUME NEW was \in Database, NEW old \in Database, NEW new \in Database, NEW is, NEW rows,
         Settled(was, old, new, is), TokensLawful(old, new), Seen(was, old, rows),
         NEW t \in TokenIds, NEW o \in TokenIds, t # o, Alike(is, t, o)
  PROVE  \/ Alike(was, t, o)
         \/ /\ new.token[t] # old.token[t] /\ old.token[t] = None /\ <<"token", o>> \in rows
         \/ /\ new.token[o] # old.token[o] /\ old.token[o] = None /\ <<"token", t>> \in rows
<1>1. ASSUME NEW x \in TokenIds, NEW y \in TokenIds, x # y, Alike(is, x, y),
             new.token[x] # old.token[x]
      PROVE  old.token[x] = None /\ <<"token", y>> \in rows
  <2>1. is.token[x] = new.token[x] /\ Open(new, x)
    BY <1>1 DEF Settled, Settles, Alike, Open
  <2>2. /\ old.token[x] = None
        /\ ~(Open(new, y) /\ new.token[y].email = new.token[x].email
                          /\ new.token[y].purpose = new.token[x].purpose)
    BY <1>1, <2>1 DEF TokensLawful
  <2>3. is.token[y] # new.token[y]
    BY <1>1, <2>1, <2>2 DEF Alike, Open
  <2>4. was.token[y] # old.token[y]
    BY <2>3 DEF Settled, Settles
  <2>5. QED
    BY <2>2, <2>4 DEF Seen
<1>2. CASE new.token[t] # old.token[t]
  BY <1>1, <1>2
<1>3. CASE new.token[o] # old.token[o]
  <2>1. Alike(is, o, t)
    BY DEF Alike
  <2>2. QED
    BY <1>1, <1>3, <2>1
<1>4. CASE new.token[t] = old.token[t] /\ new.token[o] = old.token[o]
  BY <1>4 DEF Settled, Settles, Alike, Open
<1>5. QED
  BY <1>2, <1>3, <1>4

(* Membership m is there and is u's.                                       *)
OwnsIn(d, m, u) == d.member[m] # None /\ d.member[m].user = u

(* Account u has the groups of its active memberships and no others.       *)
GroupsMatch(d, u) ==
  \A c \in Roles : d.group[<<u, c>>] <=> \E m \in ActiveMembers(d, u) : d.member[m].role = c

(* A commit that concerns u, and has missed nothing of u's memberships and *)
(* groups, sets the groups of u right.                                     *)
LEMMA ConcernedMatch ==
  ASSUME NEW was \in Database, NEW old \in Database, NEW new \in Database, NEW is, NEW rows,
         Settled(was, old, new, is), GroupsLawful(old, new), Seen(was, old, rows),
         NEW u \in Users, Concerned(old, new, u),
         \A m \in MemberIds : <<"member", m>> \in rows => ~OwnsIn(old, m, u) /\ ~OwnsIn(was, m, u),
         \A c \in Roles : <<"group", <<u, c>>>> \notin rows
  PROVE  GroupsMatch(is, u)
<1>1. ASSUME NEW m \in MemberIds
      PROVE  /\ m \in ActiveMembers(is, u) <=> m \in ActiveMembers(new, u)
             /\ m \in ActiveMembers(new, u) => is.member[m] = new.member[m]
  <2>1. CASE is.member[m] = new.member[m]
    BY <2>1 DEF ActiveMembers, Exists
  <2>2. CASE is.member[m] # new.member[m]
    <3>1. new.member[m] = old.member[m] /\ is.member[m] = was.member[m]
      BY <2>2 DEF Settled, Settles
    <3>2. <<"member", m>> \in rows
      BY <2>2, <3>1 DEF Seen
    <3>3. ~OwnsIn(old, m, u) /\ ~OwnsIn(was, m, u)
      BY <3>2
    <3>4. m \notin ActiveMembers(is, u) /\ m \notin ActiveMembers(new, u)
      BY <3>1, <3>3 DEF OwnsIn, ActiveMembers, Exists
    <3>5. QED
      BY <3>4
  <2>3. QED
    BY <2>1, <2>2
<1>2. ASSUME NEW c \in Roles
      PROVE  is.group[<<u, c>>] = new.group[<<u, c>>]
  <2>. DEFINE p == <<u, c>>
  <2>1. p \in Users \X Roles /\ <<"group", p>> \notin rows
    OBVIOUS
  <2>. HIDE DEF p
  <2>2. was.group[p] = old.group[p]
    BY <2>1 DEF Seen
  <2>3. is.group[p] = new.group[p]
    BY <2>1, <2>2 DEF Settled, Settles
  <2>4. QED
    BY <2>3 DEF p
<1>3. \A d : ActiveMembers(d, u) \subseteq MemberIds
  BY DEF ActiveMembers
<1>4. ASSUME NEW c \in Roles
      PROVE  new.group[<<u, c>>] <=> \E m \in ActiveMembers(new, u) : new.member[m].role = c
  BY DEF GroupsLawful
<1>5. ASSUME NEW c \in Roles
      PROVE  is.group[<<u, c>>] <=> \E m \in ActiveMembers(is, u) : is.member[m].role = c
  BY <1>1, <1>2, <1>3, <1>4
<1>6. QED
  BY <1>5 DEF GroupsMatch

(* A commit that does not concern u, and takes no membership from u,       *)
(* leaves the groups of u as right as they were.                           *)
LEMMA UnconcernedMatch ==
  ASSUME NEW was \in Database, NEW old \in Database, NEW new \in Database, NEW is,
         Settled(was, old, new, is), GroupsLawful(old, new),
         NEW u \in Users, ~Concerned(old, new, u), GroupsMatch(was, u),
         \A m \in MemberIds : new.member[m] # old.member[m] =>
                               ~OwnsIn(old, m, u) /\ ~OwnsIn(new, m, u)
  PROVE  GroupsMatch(is, u)
<1>1. ASSUME NEW m \in MemberIds
      PROVE  /\ m \in ActiveMembers(is, u) <=> m \in ActiveMembers(was, u)
             /\ m \in ActiveMembers(was, u) => is.member[m] = was.member[m]
  <2>1. CASE is.member[m] = was.member[m]
    BY <2>1 DEF ActiveMembers, Exists
  <2>2. CASE is.member[m] # was.member[m]
    <3>1. /\ new.member[m] # old.member[m]
          /\ is.member[m] = new.member[m] /\ was.member[m] = old.member[m]
      BY <2>2 DEF Settled, Settles
    <3>2. m \notin ActiveMembers(is, u) /\ m \notin ActiveMembers(was, u)
      BY <3>1 DEF OwnsIn, ActiveMembers, Exists
    <3>3. QED
      BY <3>2
  <2>3. QED
    BY <2>1, <2>2
<1>2. ASSUME NEW c \in Roles
      PROVE  is.group[<<u, c>>] = was.group[<<u, c>>]
  BY DEF Settled, Settles, GroupsLawful
<1>3. \A d : ActiveMembers(d, u) \subseteq MemberIds
  BY DEF ActiveMembers
<1>4. ASSUME NEW c \in Roles
      PROVE  was.group[<<u, c>>] <=> \E m \in ActiveMembers(was, u) : was.member[m].role = c
  BY DEF GroupsMatch
<1>5. ASSUME NEW c \in Roles
      PROVE  is.group[<<u, c>>] <=> \E m \in ActiveMembers(is, u) : is.member[m].role = c
  BY <1>1, <1>2, <1>3, <1>4
<1>6. QED
  BY <1>5 DEF GroupsMatch

-----------------------------------------------------------------------------
(* The rest holds when a write of an account's groups writes the account's *)
(* row too.  Active memberships of an account have one role.               *)
OneRole(d) ==
  \A u \in Users : \A m, o \in ActiveMembers(d, u) : d.member[m].role = d.member[o].role

(* An account has the group of each of its active memberships.             *)
GroupHeld(d) ==
  \A u \in Users : \A m \in ActiveMembers(d, u) : d.group[<<u, d.member[m].role>>]

(* Whatever gives account u an active membership, or changes its groups,   *)
(* shows as a change of u's own row.                                       *)
TouchSeen(is, d, rows) ==
  /\ \A u \in Users : \A m \in ActiveMembers(is, u) :
       is.member[m] # d.member[m] => <<"user", u>> \in rows
  /\ \A u \in Users, c \in Roles :
       is.group[<<u, c>>] # d.group[<<u, c>>] => <<"user", u>> \in rows

LEMMA TouchWrites ==
  ASSUME touch, NEW old \in Database, NEW new \in Database
  PROVE  TouchSeen(new, old, Writes(old, new))
<1>. DEFINE changed == Changed(old, new)
            us == GroupsWritten(new, changed)
<1>1. Writes(old, new) = changed \cup {<<"user", u>> : u \in us}
  BY DEF Writes
<1>2. /\ \A m \in MemberIds : <<"member", m>> \in changed <=> new.member[m] # old.member[m]
      /\ \A p \in Users \X Roles : <<"group", p>> \in changed <=> new.group[p] # old.group[p]
  BY ChangedRows
<1>. HIDE DEF changed
<1>3. ASSUME NEW u \in Users, NEW m \in ActiveMembers(new, u), new.member[m] # old.member[m]
      PROVE  u \in us
  <2>1. /\ <<"member", m>> \in changed /\ Exists(new, m)
        /\ new.member[m].active /\ new.member[m].user = u
    BY <1>2, <1>3 DEF ActiveMembers
  <2>. DEFINE r == <<"member", m>>
  <2>2. /\ r \in {x \in changed : x[1] = "member" /\ Exists(new, x[2]) /\ new.member[x[2]].active}
        /\ new.member[r[2]].user = u
    BY <2>1
  <2>3. QED
    BY <2>2, Zenon DEF GroupsWritten
<1>4. ASSUME NEW u \in Users, NEW c \in Roles, new.group[<<u, c>>] # old.group[<<u, c>>]
      PROVE  u \in us
  <2>. DEFINE r == <<"group", <<u, c>>>>
  <2>1. r \in {x \in changed : x[1] = "group"} /\ r[2][1] = u
    BY <1>2, <1>4
  <2>2. QED
    BY <2>1, Zenon DEF GroupsWritten
<1>. HIDE DEF us
<1>5. QED
  BY <1>1, <1>3, <1>4 DEF TouchSeen

LEMMA TouchSeenKept ==
  ASSUME NEW was \in Database, NEW old \in Database, NEW new \in Database, NEW is,
         NEW d, NEW rows, NEW more,
         Settled(was, old, new, is), TouchSeen(was, d, rows), TouchSeen(new, old, more)
  PROVE  TouchSeen(is, d, rows \cup more)
<1>1. ASSUME NEW u \in Users, NEW m \in ActiveMembers(is, u), is.member[m] # d.member[m]
      PROVE  <<"user", u>> \in rows \cup more
  <2>1. m \in MemberIds
    BY DEF ActiveMembers
  <2>2. CASE new.member[m] = old.member[m]
    <3>1. is.member[m] = was.member[m] /\ m \in ActiveMembers(was, u)
      BY <2>1, <2>2 DEF Settled, Settles, ActiveMembers, Exists
    <3>2. QED
      BY <1>1, <3>1 DEF TouchSeen
  <2>3. CASE new.member[m] # old.member[m]
    <3>1. m \in ActiveMembers(new, u)
      BY <2>1, <2>3 DEF Settled, Settles, ActiveMembers, Exists
    <3>2. QED
      BY <2>3, <3>1 DEF TouchSeen
  <2>4. QED
    BY <2>2, <2>3
<1>2. ASSUME NEW u \in Users, NEW c \in Roles, is.group[<<u, c>>] # d.group[<<u, c>>]
      PROVE  <<"user", u>> \in rows \cup more
  <2>1. \/ is.group[<<u, c>>] = was.group[<<u, c>>]
        \/ new.group[<<u, c>>] # old.group[<<u, c>>]
    BY DEF Settled, Settles
  <2>2. QED
    BY <1>2, <2>1 DEF TouchSeen
<1>3. QED
  BY <1>1, <1>2 DEF TouchSeen

(* Two requests cannot give an account two roles, each unaware of the      *)
(* other: both would write its row.                                        *)
LEMMA OneRoleKept ==
  ASSUME NEW was \in Database, NEW old \in Database, NEW new \in Database, NEW is,
         NEW rows, NEW more, rows \cap more = {},
         Settled(was, old, new, is), MembersLawful(old, new), OneRole(was),
         TouchSeen(was, old, rows), TouchSeen(new, old, more)
  PROVE  OneRole(is)
<1>1. ASSUME NEW u \in Users, NEW m \in ActiveMembers(is, u), NEW o \in ActiveMembers(is, u),
             new.member[m] # old.member[m]
      PROVE  is.member[m].role = is.member[o].role
  <2>1. m \in MemberIds /\ o \in MemberIds
    BY DEF ActiveMembers
  <2>2. is.member[m] = new.member[m] /\ m \in ActiveMembers(new, u)
    BY <1>1, <2>1 DEF Settled, Settles, ActiveMembers, Exists
  <2>3. <<"user", u>> \notin rows
    BY <1>1, <2>2 DEF TouchSeen
  <2>4. is.member[o] = new.member[o] /\ o \in ActiveMembers(new, u)
    <3>1. CASE new.member[o] # old.member[o]
      BY <2>1, <3>1 DEF Settled, Settles, ActiveMembers, Exists
    <3>2. CASE new.member[o] = old.member[o]
      <4>1. is.member[o] = was.member[o] /\ o \in ActiveMembers(was, u)
        BY <2>1, <3>2 DEF Settled, Settles, ActiveMembers, Exists
      <4>2. was.member[o] = old.member[o]
        BY <2>3, <4>1 DEF TouchSeen
      <4>3. QED
        BY <2>1, <3>2, <4>1, <4>2 DEF ActiveMembers, Exists
    <3>3. QED
      BY <3>1, <3>2
  <2>5. /\ Exists(new, m) /\ new.member[m].active /\ new.member[m].user = u
    BY <2>2 DEF ActiveMembers
  <2>6. new.member[o].role = new.member[m].role
    BY <1>1, <2>1, <2>4, <2>5 DEF MembersLawful
  <2>7. QED
    BY <2>2, <2>4, <2>6
<1>2. ASSUME NEW u \in Users, NEW m \in ActiveMembers(is, u), NEW o \in ActiveMembers(is, u),
             new.member[m] = old.member[m], new.member[o] = old.member[o]
      PROVE  is.member[m].role = is.member[o].role
  <2>1. m \in MemberIds /\ o \in MemberIds
    BY DEF ActiveMembers
  <2>2. /\ is.member[m] = was.member[m] /\ m \in ActiveMembers(was, u)
        /\ is.member[o] = was.member[o] /\ o \in ActiveMembers(was, u)
    BY <1>2, <2>1 DEF Settled, Settles, ActiveMembers, Exists
  <2>3. QED
    BY <2>2 DEF OneRole
<1>3. ASSUME NEW u \in Users, NEW m \in ActiveMembers(is, u), NEW o \in ActiveMembers(is, u)
      PROVE  is.member[m].role = is.member[o].role
  BY <1>1, <1>2
<1>4. QED
  BY <1>3 DEF OneRole

(* For the same reason no request takes a group away that another has just *)
(* given with a membership.                                                *)
LEMMA GroupHeldKept ==
  ASSUME NEW was \in Database, NEW old \in Database, NEW new \in Database, NEW is,
         NEW rows, NEW more, rows \cap more = {},
         Settled(was, old, new, is), GroupsLawful(old, new), GroupHeld(was),
         TouchSeen(was, old, rows), TouchSeen(new, old, more)
  PROVE  GroupHeld(is)
<1>. SUFFICES ASSUME NEW u \in Users, NEW m \in ActiveMembers(is, u)
              PROVE  is.group[<<u, is.member[m].role>>]
  BY DEF GroupHeld
<1>. DEFINE c == is.member[m].role
<1>1. m \in MemberIds /\ is.member[m] # None /\ is.member[m].user = u
  BY DEF ActiveMembers, Exists
<1>2. is.member[m] \in Member /\ c \in Roles /\ <<u, c>> \in Users \X Roles
  BY <1>1 DEF Settled, Database, Member
<1>3. CASE new.member[m] # old.member[m]
  <2>1. is.member[m] = new.member[m] /\ m \in ActiveMembers(new, u)
    BY <1>1, <1>3 DEF Settled, Settles, ActiveMembers, Exists
  <2>2. <<"user", u>> \notin rows
    BY <1>3, <2>1 DEF TouchSeen
  <2>3. Concerned(old, new, u)
    BY <1>1, <1>3, <2>1 DEF Concerned, Exists
  <2>4. new.group[<<u, c>>]
    BY <1>2, <2>1, <2>3 DEF GroupsLawful
  <2>5. was.group[<<u, c>>] = old.group[<<u, c>>]
    BY <1>2, <2>2 DEF TouchSeen
  <2>6. is.group[<<u, c>>] = new.group[<<u, c>>]
    BY <1>2, <2>5 DEF Settled, Settles
  <2>7. QED
    BY <2>4, <2>6
<1>4. CASE new.member[m] = old.member[m]
  <2>1. is.member[m] = was.member[m] /\ m \in ActiveMembers(was, u)
    BY <1>1, <1>4 DEF Settled, Settles, ActiveMembers, Exists
  <2>2. was.group[<<u, c>>]
    BY <2>1 DEF GroupHeld
  <2>3. CASE new.group[<<u, c>>] = old.group[<<u, c>>]
    BY <1>2, <2>2, <2>3 DEF Settled, Settles
  <2>4. CASE new.group[<<u, c>>] # old.group[<<u, c>>]
    <3>1. <<"user", u>> \notin rows
      BY <1>2, <2>4 DEF TouchSeen
    <3>2. was.member[m] = old.member[m]
      BY <2>1, <3>1 DEF TouchSeen
    <3>3. m \in ActiveMembers(new, u) /\ new.member[m].role = c
      BY <1>1, <1>4, <2>1, <3>2 DEF ActiveMembers, Exists
    <3>4. new.group[<<u, c>>]
      BY <1>2, <2>4, <3>3 DEF GroupsLawful
    <3>5. QED
      BY <1>2, <2>4, <3>4 DEF Settled, Settles
  <2>5. QED
    BY <2>3, <2>4
<1>5. QED
  BY <1>3, <1>4

-----------------------------------------------------------------------------
(* The owners of memberships, and what Commit does to blind and unseen.    *)
LEMMA OwnersIn ==
  ASSUME NEW m, NEW d, NEW e, NEW u
  PROVE  u \in Owners(m, d, e) <=> OwnsIn(d, m, u) \/ OwnsIn(e, m, u)
<1>1. u \in Owners(m, d, e) <=> \E x \in {d, e} : Exists(x, m) /\ u = x.member[m].user
  BY Zenon DEF Owners
<1>2. QED
  BY <1>1 DEF OwnsIn, Exists

(* An account that is not blind after a commit: it was concerned and the   *)
(* request had missed nothing of it, or it was not concerned and lost no   *)
(* membership.                                                             *)
LEMMA BlindFacts ==
  ASSUME Typed, NEW s \in Sessions, snap[s] # None, NEW new \in Database, Commit(s, new),
         NEW u \in Users, u \notin blind'
  PROVE  /\ Concerned(snap[s], new, u) =>
              /\ \A m \in MemberIds : <<"member", m>> \in missed[s] =>
                                        ~OwnsIn(snap[s], m, u) /\ ~OwnsIn(db, m, u)
              /\ \A c \in Roles : <<"group", <<u, c>>>> \notin missed[s]
         /\ ~Concerned(snap[s], new, u) =>
              /\ u \notin blind
              /\ \A m \in MemberIds : new.member[m] # snap[s].member[m] =>
                                        ~OwnsIn(snap[s], m, u) /\ ~OwnsIn(new, m, u)
<1>. DEFINE old     == snap[s]
            rows    == Changed(old, new)
            ms      == {r[2] : r \in {x \in rows : x[1] = "member"}}
            redone  == UNION {Owners(m, IF Exists(new, m) THEN new ELSE old, new) : m \in ms}
            left    == (UNION {Owners(m, old, new) : m \in ms}) \ redone
            members == UNION {Owners(r[2], old, db) : r \in {x \in missed[s] : x[1] = "member"}}
            groups  == {r[2][1] : r \in {x \in missed[s] : x[1] = "group"}}
<1>1. blind' = (blind \ redone) \cup left \cup (redone \cap (members \cup groups))
  BY Zenon DEF Commit
<1>2. old \in Database
  BY DEF Typed
<1>3. \A m \in MemberIds : m \in ms <=> new.member[m] # old.member[m]
  <2>1. \A m \in MemberIds : <<"member", m>> \in rows <=> new.member[m] # old.member[m]
    BY <1>2, ChangedRows
  <2>2. rows \subseteq Rows
    BY <1>2, ChangedAreRows
  <2>. HIDE DEF rows, old
  <2>3. ASSUME NEW m \in MemberIds, <<"member", m>> \in rows PROVE m \in ms
    <3>. DEFINE r == <<"member", m>>
    <3>1. r \in {x \in rows : x[1] = "member"} /\ r[2] = m
      BY <2>3
    <3>2. QED
      BY <3>1, Zenon
  <2>4. ASSUME NEW m \in ms PROVE <<"member", m>> \in rows
    <3>1. PICK r \in rows : r[1] = "member" /\ m = r[2]
      BY Zenon
    <3>2. r = <<"member", m>>
      BY <2>2, <3>1 DEF Rows
    <3>3. QED
      BY <3>1, <3>2
  <2>5. QED
    BY <2>1, <2>3, <2>4
<1>4. ms \subseteq MemberIds
  <2>1. rows \subseteq Rows
    BY <1>2, ChangedAreRows
  <2>. HIDE DEF rows, old
  <2>2. QED
    BY <2>1 DEF Rows
<1>. HIDE DEF ms, rows
<1>5. u \in redone <=> Concerned(old, new, u)
  <2>1. u \in redone <=>
          \E m \in ms : u \in Owners(m, IF Exists(new, m) THEN new ELSE old, new)
    BY Zenon
  <2>2. ASSUME NEW m \in ms
        PROVE  u \in Owners(m, IF Exists(new, m) THEN new ELSE old, new) <=>
                 u = IF Exists(new, m) THEN new.member[m].user ELSE old.member[m].user
    <3>1. CASE Exists(new, m)
      BY <3>1, OwnersIn DEF OwnsIn, Exists
    <3>2. CASE ~Exists(new, m)
      <4>1. new.member[m] = None /\ old.member[m] # None
        BY <1>3, <1>4, <3>2 DEF Exists
      <4>2. QED
        BY <3>2, <4>1, OwnersIn DEF OwnsIn
    <3>3. QED
      BY <3>1, <3>2
  <2>. HIDE DEF redone, old
  <2>3. QED
    BY <1>3, <1>4, <2>1, <2>2 DEF Concerned
<1>6. ASSUME NEW m \in MemberIds, <<"member", m>> \in missed[s],
             OwnsIn(old, m, u) \/ OwnsIn(db, m, u)
      PROVE  u \in members
  <2>. DEFINE r == <<"member", m>>
  <2>1. r \in {x \in missed[s] : x[1] = "member"} /\ r[2] = m
    BY <1>6
  <2>2. u \in Owners(m, old, db)
    BY <1>6, OwnersIn
  <2>. HIDE DEF r
  <2>3. u \in Owners(r[2], old, db)
    BY <2>1, <2>2
  <2>4. QED
    BY <2>1, <2>3, Zenon
<1>7. ASSUME NEW c \in Roles, <<"group", <<u, c>>>> \in missed[s] PROVE u \in groups
  <2>. DEFINE r == <<"group", <<u, c>>>>
  <2>1. r \in {x \in missed[s] : x[1] = "group"} /\ r[2][1] = u
    BY <1>7
  <2>. HIDE DEF r
  <2>2. QED
    BY <2>1, Zenon
<1>8. ASSUME NEW m \in MemberIds, new.member[m] # old.member[m],
             OwnsIn(old, m, u) \/ OwnsIn(new, m, u)
      PROVE  u \in left \cup redone
  <2>1. m \in ms /\ u \in Owners(m, old, new)
    BY <1>3, <1>8, OwnersIn
  <2>2. u \in UNION {Owners(x, old, new) : x \in ms}
    BY <2>1, Zenon
  <2>. HIDE DEF redone
  <2>3. QED
    BY <2>2, Zenon
<1>. HIDE DEF redone, left, members, groups
<1>9. ASSUME Concerned(old, new, u) PROVE u \notin members /\ u \notin groups
  BY <1>1, <1>5, <1>9
<1>10. ASSUME ~Concerned(old, new, u) PROVE u \notin blind /\ u \notin left /\ u \notin redone
  BY <1>1, <1>5, <1>10
<1>. HIDE DEF old
<1>11. /\ Concerned(old, new, u) =>
            /\ \A m \in MemberIds : <<"member", m>> \in missed[s] =>
                                      ~OwnsIn(old, m, u) /\ ~OwnsIn(db, m, u)
            /\ \A c \in Roles : <<"group", <<u, c>>>> \notin missed[s]
       /\ ~Concerned(old, new, u) =>
            /\ u \notin blind
            /\ \A m \in MemberIds : new.member[m] # old.member[m] =>
                                      ~OwnsIn(old, m, u) /\ ~OwnsIn(new, m, u)
  BY <1>6, <1>7, <1>8, <1>9, <1>10
<1>12. QED
  BY <1>11 DEF old

-----------------------------------------------------------------------------
LEMMA OwnersAreUsers ==
  ASSUME NEW d \in Database, NEW e \in Database, NEW m \in MemberIds
  PROVE  Owners(m, d, e) \subseteq Users
<1>1. ASSUME NEW u, OwnsIn(d, m, u) \/ OwnsIn(e, m, u) PROVE u \in Users
  BY <1>1 DEF OwnsIn, Database, Member
<1>2. QED
  BY <1>1, OwnersIn

LEMMA BlindTyped ==
  ASSUME Typed, NEW s \in Sessions, snap[s] # None, NEW new \in Database, Commit(s, new)
  PROVE  blind' \subseteq Users
<1>. DEFINE old     == snap[s]
            rows    == Changed(old, new)
            ms      == {r[2] : r \in {x \in rows : x[1] = "member"}}
            redone  == UNION {Owners(m, IF Exists(new, m) THEN new ELSE old, new) : m \in ms}
            owners  == UNION {Owners(m, old, new) : m \in ms}
            left    == owners \ redone
            hidden  == (UNION {Owners(r[2], old, db) : r \in {x \in missed[s] : x[1] = "member"}})
                         \cup {r[2][1] : r \in {x \in missed[s] : x[1] = "group"}}
<1>1. blind' = (blind \ redone) \cup left \cup (redone \cap hidden)
  BY Zenon DEF Commit
<1>2. old \in Database /\ blind \subseteq Users
  BY DEF Typed
<1>3. ms \subseteq MemberIds
  <2>1. rows \subseteq Rows
    BY <1>2, ChangedAreRows
  <2>. HIDE DEF rows, old
  <2>2. QED
    BY <2>1 DEF Rows
<1>. HIDE DEF ms, rows, old
<1>4. \A m \in ms : Owners(m, old, new) \subseteq Users
  BY <1>2, <1>3, OwnersAreUsers
<1>5. \A m \in ms : Owners(m, IF Exists(new, m) THEN new ELSE old, new) \subseteq Users
  BY <1>2, <1>3, OwnersAreUsers
<1>6. owners \subseteq Users /\ redone \subseteq Users
  BY <1>4, <1>5, Zenon
<1>. HIDE DEF owners, redone, hidden
<1>7. QED
  BY <1>1, <1>2, <1>6

(* The pairs of tokens that a commit notes.                                *)
LEMMA UnseenFacts ==
  ASSUME Typed, NEW s \in Sessions, snap[s] # None, NEW new \in Database, Commit(s, new)
  PROVE  /\ unseen' \subseteq SUBSET TokenIds
         /\ unseen \subseteq unseen'
         /\ \A t, o \in TokenIds :
              /\ new.token[t] # snap[s].token[t] /\ snap[s].token[t] = None
              /\ <<"token", o>> \in missed[s]
              => {t, o} \in unseen'
<1>. DEFINE old    == snap[s]
            rows   == Changed(old, new)
            made   == {t \in TokenIds : old.token[t] = None /\ <<"token", t>> \in rows}
            others == {t \in TokenIds : <<"token", t>> \in missed[s]}
            pairs  == {{p[1], p[2]} : p \in made \X others}
<1>1. unseen' = unseen \cup pairs
  BY Zenon DEF Commit
<1>2. old \in Database /\ unseen \subseteq SUBSET TokenIds
  BY DEF Typed
<1>3. \A t \in TokenIds : <<"token", t>> \in rows <=> new.token[t] # old.token[t]
  BY <1>2, ChangedRows
<1>. HIDE DEF rows, old
<1>4. made \subseteq TokenIds /\ others \subseteq TokenIds
  OBVIOUS
<1>5. \A t, o \in TokenIds :
        new.token[t] # old.token[t] /\ old.token[t] = None /\ <<"token", o>> \in missed[s]
        => t \in made /\ o \in others
  BY <1>3
<1>. HIDE DEF made, others
<1>6. pairs \subseteq SUBSET TokenIds /\ \A t \in made, o \in others : {t, o} \in pairs
  <2>1. \A p \in made \X others : {p[1], p[2]} \in SUBSET TokenIds
    BY <1>4
  <2>2. ASSUME NEW t \in made, NEW o \in others PROVE {t, o} \in pairs
    <3>. DEFINE p == <<t, o>>
    <3>1. p \in made \X others /\ p[1] = t /\ p[2] = o
      OBVIOUS
    <3>. HIDE DEF p
    <3>2. {p[1], p[2]} \in pairs
      BY <3>1, Zenon
    <3>3. QED
      BY <3>1, <3>2
  <2>3. QED
    BY <2>1, <2>2
<1>. HIDE DEF pairs
<1>7. /\ unseen' \subseteq SUBSET TokenIds /\ unseen \subseteq unseen'
      /\ \A t, o \in TokenIds :
           new.token[t] # old.token[t] /\ old.token[t] = None /\ <<"token", o>> \in missed[s]
           => {t, o} \in unseen'
  BY <1>1, <1>2, <1>5, <1>6
<1>8. QED
  BY <1>7 DEF old

-----------------------------------------------------------------------------
(* The membership of a token exists.                                       *)
Refer(d) ==
  \A t \in TokenIds :
    d.token[t] # None /\ d.token[t].member # None => Exists(d, d.token[t].member)

(* Transactions are not begun beyond the bound on requests.                *)
OpenSessions == {o \in Sessions : snap[o] # None}
Counted == requests + Cardinality(OpenSessions) <= MaxRequests

(* What a session sees was itself the database once, so it is coherent; it *)
(* differs from the database as TouchSeen says.                            *)
Viewed ==
  \A s \in Sessions :
    snap[s] # None =>
      /\ Refer(snap[s])
      /\ touch => GroupHeld(snap[s]) /\ TouchSeen(db, snap[s], missed[s])

(* The database: apart from the types, what each property of Identity says *)
(* and what a commit needs to find to keep it so.                          *)
Apart == touch => OneRole(db) /\ GroupHeld(db)
Informed == \A u \in Users \ blind : GroupsMatch(db, u)
Superseding == \A t, o \in TokenIds : t # o /\ Alike(db, t, o) => {t, o} \in unseen

Sane(d) == PartiesMatch(d) /\ Closed(d) /\ NotSuperseded(d) /\ Refer(d)

(* The inductive invariant.                                                *)
Inv ==
  /\ Typed /\ Counted
  /\ Sane(db)
  /\ Tracked /\ Viewed
  /\ Apart /\ Informed /\ Superseding

LEMMA OpenFinite == IsFiniteSet(OpenSessions) /\ Cardinality(OpenSessions) \in Nat
<1>1. OpenSessions \subseteq Sessions
  BY DEF OpenSessions
<1>2. QED
  BY <1>1, IdentityAssumption, FS_Subset, FS_CardinalityType

LEMMA InitInv == Init => Inv
<1>. SUFFICES ASSUME Init PROVE Inv
  OBVIOUS
<1>1. /\ db \in Database
      /\ \A m \in MemberIds : Exists(db, m) => db.member[m].party = RoleParty[db.member[m].role]
      /\ \A u \in Users : \A m, o \in ActiveMembers(db, u) : db.member[m].role = db.member[o].role
      /\ \A u \in Users, r \in Roles :
           db.group[<<u, r>>] <=> \E m \in ActiveMembers(db, u) : db.member[m].role = r
      /\ \A t \in TokenIds : db.token[t] = None
      /\ \A g \in GrantIds : db.grant[g] = None
  BY Zenon, FoundedAssumption DEF Init
<1>2. Typed
  BY <1>1, IdentityAssumption DEF Init, Typed
<1>3. Counted
  <2>1. OpenSessions = {}
    BY DEF Init, OpenSessions
  <2>2. QED
    BY <2>1, FS_EmptySet, IdentityAssumption DEF Init, Counted
<1>4. Sane(db)
  BY <1>1 DEF Sane, PartiesMatch, Closed, NotSuperseded, Open, Refer
<1>5. Tracked /\ Viewed
  BY DEF Init, Tracked, Viewed
<1>6. OneRole(db)
  BY <1>1, Zenon DEF OneRole
<1>7. GroupHeld(db)
  <2>. SUFFICES ASSUME NEW u \in Users, NEW m \in ActiveMembers(db, u)
                PROVE  db.group[<<u, db.member[m].role>>]
    BY DEF GroupHeld
  <2>1. db.member[m].role \in Roles
    BY <1>1 DEF ActiveMembers, Exists, Database, Member
  <2>2. QED
    BY <1>1, <2>1
<1>8. Informed
  BY <1>1, Zenon DEF Informed, GroupsMatch
<1>9. Superseding
  BY <1>1 DEF Superseding, Alike, Open
<1>10. QED
  BY <1>2, <1>3, <1>4, <1>5, <1>6, <1>7, <1>8, <1>9 DEF Inv, Apart

-----------------------------------------------------------------------------
(* Steps that leave the tables alone.                                      *)
LEMMA QuietKeeps ==
  ASSUME Inv, db' = db, touch' = touch, blind' = blind, unseen' = unseen,
         Typed', Counted', Tracked', Viewed'
  PROVE  Inv'
<1>1. Sane(db') /\ Apart' /\ Informed' /\ Superseding'
  BY DEF Inv, Apart, Informed, Superseding
<1>2. QED
  BY <1>1 DEF Inv

LEMMA SeenItself ==
  ASSUME NEW d
  PROVE  Seen(d, d, {}) /\ TouchSeen(d, d, {})
BY DEF Seen, TouchSeen

LEMMA TickInv == ASSUME Inv, Tick PROVE Inv'
<1>1. Typed'
  BY IdentityAssumption DEF Inv, Tick, Typed
<1>2. Counted'
  BY DEF Inv, Tick, Counted, OpenSessions
<1>3. Tracked' /\ Viewed'
  BY DEF Inv, Tick, Tracked, Viewed
<1>4. QED
  BY <1>1, <1>2, <1>3, QuietKeeps DEF Tick

LEMMA UnchangedInv == ASSUME Inv, UNCHANGED vars PROVE Inv'
<1>1. Typed' /\ Counted' /\ Tracked' /\ Viewed'
  BY DEF Inv, vars, Typed, Counted, OpenSessions, Tracked, Viewed
<1>2. QED
  BY <1>1, QuietKeeps DEF vars

LEMMA BeginInv == ASSUME Inv, NEW s \in Sessions, Begin(s) PROVE Inv'
<1>1. /\ snap[s] = None /\ db \in Database /\ missed[s] = {}
      /\ snap \in [Sessions -> Database \cup {None}]
      /\ snap' = [snap EXCEPT ![s] = db]
      /\ UNCHANGED <<db, missed, now, touch, requests, blind, unseen>>
      /\ requests + Cardinality(OpenSessions) < MaxRequests
  BY Zenon DEF Inv, Typed, Begin, OpenSessions
<1>2. \A o \in Sessions : snap'[o] = IF o = s THEN db ELSE snap[o]
  BY <1>1
<1>3. Typed'
  BY <1>1 DEF Inv, Typed
<1>4. db # None
  BY <1>1, NoneAssumption
<1>5. Counted'
  <2>1. OpenSessions' = OpenSessions \cup {s} /\ s \notin OpenSessions
    BY <1>1, <1>2, <1>4 DEF OpenSessions
  <2>2. Cardinality(OpenSessions') = Cardinality(OpenSessions) + 1
    BY <2>1, OpenFinite, FS_AddElement
  <2>3. QED
    BY <1>1, <2>2, OpenFinite, IdentityAssumption DEF Counted, Inv, Typed
<1>6. Tracked'
  BY <1>1, <1>2, SeenItself DEF Inv, Tracked
<1>7. Viewed'
  BY <1>1, <1>2, SeenItself DEF Inv, Viewed, Sane, Apart
<1>8. QED
  BY <1>1, <1>3, <1>5, <1>6, <1>7, QuietKeeps

LEMMA OneLess ==
  ASSUME Typed, NEW s \in Sessions, snap[s] # None, snap' = [snap EXCEPT ![s] = None]
  PROVE  Cardinality(OpenSessions') = Cardinality(OpenSessions) - 1
<1>1. OpenSessions' = OpenSessions \ {s} /\ s \in OpenSessions
  BY DEF OpenSessions, Typed
<1>2. QED
  BY <1>1, OpenFinite, FS_RemoveElement

LEMMA RollbackInv == ASSUME Inv, NEW s \in Sessions, Rollback(s) PROVE Inv'
<1>1. /\ snap[s] # None
      /\ snap' = [snap EXCEPT ![s] = None]
      /\ missed' = [missed EXCEPT ![s] = {}]
      /\ UNCHANGED <<db, now, touch, requests, blind, unseen>>
  BY DEF Rollback
<1>2. Typed'
  BY <1>1 DEF Inv, Typed
<1>3. Counted'
  <2>1. Cardinality(OpenSessions') = Cardinality(OpenSessions) - 1
    BY <1>1, OneLess DEF Inv
  <2>2. requests + Cardinality(OpenSessions) <= MaxRequests /\ requests \in Nat
    BY DEF Inv, Typed, Counted
  <2>3. QED
    BY <1>1, <2>1, <2>2, OpenFinite, IdentityAssumption DEF Counted
<1>4. \A o \in Sessions :
        snap'[o] # None => snap'[o] = snap[o] /\ missed'[o] = missed[o]
  BY <1>1 DEF Inv, Typed
<1>5. Tracked' /\ Viewed'
  BY <1>1, <1>4 DEF Inv, Tracked, Viewed
<1>6. QED
  BY <1>1, <1>2, <1>3, <1>5, QuietKeeps

(* Steps that commit: one step of the proof for each part of Inv.          *)
LEMMA CommitInv ==
  ASSUME Inv, NEW s \in Sessions, snap[s] # None, NEW new, Lawful(snap[s], new, now),
         Commit(s, new)
  PROVE  Inv'
<1>. DEFINE old  == snap[s]
            rows == missed[s]
            more == Writes(old, new)
            is   == db'
<1>1. /\ Typed /\ Counted /\ Sane(db) /\ Tracked /\ Viewed /\ Apart /\ Informed /\ Superseding
  BY DEF Inv
<1>2. /\ old \in Database /\ new \in Database /\ db \in Database
      /\ rows \in SUBSET Rows
      /\ MembersLawful(old, new) /\ GroupsLawful(old, new)
      /\ TokensLawful(old, new) /\ GrantsLawful(old, new)
  BY <1>1 DEF Typed, Lawful
<1>3. /\ more \cap rows = {}
      /\ snap' = [snap EXCEPT ![s] = None]
      /\ missed' = [o \in Sessions |-> IF o = s \/ snap[o] = None THEN {} ELSE missed[o] \cup more]
      /\ ForeignKeys(is)
      /\ requests' = requests + 1 /\ UNCHANGED <<now, touch>>
  BY <1>1, CommitMerges
<1>4. Settled(db, old, new, is)
  BY <1>1, <1>2, CommitSettles
<1>5. /\ blind' \subseteq Users
      /\ unseen' \subseteq SUBSET TokenIds /\ unseen \subseteq unseen'
      /\ \A t, o \in TokenIds :
           new.token[t] # old.token[t] /\ old.token[t] = None /\ <<"token", o>> \in rows
           => {t, o} \in unseen'
  BY <1>1, <1>2, BlindTyped, UnseenFacts
<1>6. \A u \in Users \ blind' :
        /\ Concerned(old, new, u) =>
              /\ \A m \in MemberIds : <<"member", m>> \in rows =>
                                        ~OwnsIn(old, m, u) /\ ~OwnsIn(db, m, u)
              /\ \A c \in Roles : <<"group", <<u, c>>>> \notin rows
        /\ ~Concerned(old, new, u) =>
              /\ u \notin blind
              /\ \A m \in MemberIds : new.member[m] # old.member[m] =>
                                        ~OwnsIn(old, m, u) /\ ~OwnsIn(new, m, u)
  BY <1>1, <1>2, BlindFacts
<1>7. more \subseteq Rows /\ Changed(old, new) \subseteq more
  BY <1>2, WritesAreRows
<1>8. /\ Seen(db, old, rows)
      /\ touch => TouchSeen(db, old, rows) /\ TouchSeen(new, old, more)
  BY <1>1, <1>2, TouchWrites DEF Tracked, Viewed
<1>9. Counted'
  <2>1. Cardinality(OpenSessions') = Cardinality(OpenSessions) - 1
    BY <1>1, <1>3, OneLess
  <2>2. requests + Cardinality(OpenSessions) <= MaxRequests /\ requests \in Nat
    BY <1>1 DEF Typed, Counted
  <2>3. QED
    BY <1>3, <2>1, <2>2, OpenFinite, IdentityAssumption DEF Counted
<1>. HIDE DEF old, rows, more, is
<1>10. is \in Database
  BY <1>4 DEF Settled
<1>11. Typed'
  BY <1>1, <1>3, <1>5, <1>7, <1>10 DEF Typed, is
<1>12. \A o \in Sessions :
         snap'[o] # None => /\ o # s /\ snap[o] # None /\ snap'[o] = snap[o]
                            /\ missed'[o] = missed[o] \cup more
  BY <1>1, <1>3 DEF Typed
<1>13. Sane(is)
  <2>1. PartiesMatch(is) /\ Closed(is) /\ NotSuperseded(is)
    BY <1>1, <1>2, <1>4, PartiesKept, ClosedKept, NotSupersededKept DEF Sane
  <2>2. Refer(is)
    BY <1>3 DEF ForeignKeys, Refer
  <2>3. QED
    BY <2>1, <2>2 DEF Sane
<1>14. ASSUME NEW o \in Sessions, snap'[o] # None PROVE Seen(is, snap'[o], missed'[o])
  <2>1. Seen(db, snap[o], missed[o])
    BY <1>1, <1>12, <1>14 DEF Tracked
  <2>2. Seen(is, snap[o], missed[o] \cup more)
    BY <1>2, <1>4, <1>7, <2>1, SeenKept
  <2>3. QED
    BY <1>12, <1>14, <2>2
<1>15. ASSUME NEW o \in Sessions, snap'[o] # None
       PROVE  /\ Refer(snap'[o])
              /\ touch => GroupHeld(snap'[o]) /\ TouchSeen(is, snap'[o], missed'[o])
  BY <1>1, <1>2, <1>4, <1>8, <1>12, <1>15, TouchSeenKept DEF Viewed
<1>16. touch => OneRole(is) /\ GroupHeld(is)
  BY <1>1, <1>2, <1>3, <1>4, <1>8, OneRoleKept, GroupHeldKept DEF Apart
<1>17. ASSUME NEW u \in Users \ blind' PROVE GroupsMatch(is, u)
  <2>1. CASE Concerned(old, new, u)
    BY <1>2, <1>4, <1>6, <1>8, <2>1, ConcernedMatch
  <2>2. CASE ~Concerned(old, new, u)
    <3>1. GroupsMatch(db, u)
      BY <1>1, <1>6, <2>2 DEF Informed
    <3>2. QED
      BY <1>2, <1>4, <1>6, <2>2, <3>1, UnconcernedMatch
  <2>3. QED
    BY <2>1, <2>2
<1>18. ASSUME NEW t \in TokenIds, NEW o \in TokenIds, t # o, Alike(is, t, o)
       PROVE  {t, o} \in unseen'
  <2>1. \/ Alike(db, t, o)
        \/ /\ new.token[t] # old.token[t] /\ old.token[t] = None /\ <<"token", o>> \in rows
        \/ /\ new.token[o] # old.token[o] /\ old.token[o] = None /\ <<"token", t>> \in rows
    BY <1>2, <1>4, <1>8, <1>18, OpenPairs
  <2>2. CASE Alike(db, t, o)
    BY <1>1, <1>5, <1>18, <2>2 DEF Superseding
  <2>3. CASE /\ new.token[t] # old.token[t] /\ old.token[t] = None /\ <<"token", o>> \in rows
    BY <1>5, <2>3
  <2>4. CASE /\ new.token[o] # old.token[o] /\ old.token[o] = None /\ <<"token", t>> \in rows
    <3>1. {o, t} \in unseen' /\ {o, t} = {t, o}
      BY <1>5, <2>4
    <3>2. QED
      BY <3>1
  <2>5. QED
    BY <2>1, <2>2, <2>3, <2>4
<1>19. Tracked' /\ Viewed' /\ Apart' /\ Informed' /\ Superseding'
  BY <1>3, <1>14, <1>15, <1>16, <1>17, <1>18 DEF Tracked, Viewed, Apart, Informed, Superseding, is
<1>20. QED
  BY <1>9, <1>11, <1>13, <1>19 DEF Inv, is

-----------------------------------------------------------------------------
(* A step is quiet or commits something lawful.                            *)
LEMMA StepKinds ==
  ASSUME Inv, [Next]_vars
  PROVE  \/ UNCHANGED vars
         \/ Tick
         \/ \E s \in Sessions : Begin(s) \/ Rollback(s)
         \/ \E s \in Sessions : \E new :
              snap[s] # None /\ Lawful(snap[s], new, now) /\ Commit(s, new)
<1>1. ASSUME NEW s \in Sessions, Request(s)
      PROVE  snap[s] # None /\ \E new : Lawful(snap[s], new, now) /\ Commit(s, new)
  BY <1>1, RequestLawful DEF Inv
<1>2. QED
  BY <1>1, Zenon DEF Next, Request

LEMMA StepInv == Inv /\ [Next]_vars => Inv'
BY StepKinds, UnchangedInv, TickInv, BeginInv, RollbackInv, CommitInv

(* The invariant holds of every run of Identity: of any accounts,          *)
(* organizations, memberships, tokens, grants and sessions, and any        *)
(* database the code may have left.                                        *)
THEOREM Invariance == Spec => []Inv
BY InitInv, StepInv, PTL DEF Spec

(* Every table, and every view a session has of it, has the type declared; *)
(* a membership always has the authority of its role, although each        *)
(* request checks only what it sees (membership.py:65-84).                 *)
THEOREM IdentityTyped == Spec => []TypeOK
<1>1. Inv => TypeOK
  <2>. SUFFICES ASSUME Inv PROVE TypeOK
    OBVIOUS
  <2>1. requests \in 0 .. MaxRequests
    BY OpenFinite, IdentityAssumption DEF Inv, Typed, Counted
  <2>2. QED
    BY <2>1 DEF Inv, Typed, Sane, PartiesMatch, TypeOK
<1>2. QED
  BY <1>1, Invariance, PTL

(* An account never has two roles in force, whatever requests overlap, if  *)
(* the writes of its groups keep them apart (membership.py:104-123).       *)
THEOREM OneAuthority == Spec => []SingleAuthority
<1>1. Inv => SingleAuthority
  <2>. SUFFICES ASSUME Inv, touch, NEW u \in Users
                PROVE  Cardinality(Deserved(u)) <= 1
    BY DEF SingleAuthority
  <2>1. \A c, e \in Deserved(u) : c = e
    BY DEF Inv, Apart, OneRole, Deserved
  <2>2. CASE Deserved(u) = {}
    BY <2>2, FS_EmptySet
  <2>3. CASE Deserved(u) # {}
    <3>1. PICK c \in Deserved(u) : TRUE
      BY <2>3
    <3>2. Deserved(u) = {c}
      BY <2>1, <3>1
    <3>3. QED
      BY <3>2, FS_Singleton
  <2>4. QED
    BY <2>2, <2>3
<1>2. QED
  BY <1>1, Invariance, PTL

(* An active membership is never without its group, which an overlapping   *)
(* deactivation could take away (membership.py:152-169).                   *)
THEOREM ActiveMembersHaveGroups == Spec => []ActiveHasGroup
<1>1. Inv => ActiveHasGroup
  <2>. SUFFICES ASSUME Inv, touch, NEW u \in Users, NEW m \in ActiveMembers(db, u)
                PROVE  db.member[m].role \in Held(u)
    BY DEF ActiveHasGroup, Deserved
  <2>1. db.group[<<u, db.member[m].role>>]
    BY DEF Inv, Apart, GroupHeld
  <2>2. db.member[m].role \in Roles
    BY DEF ActiveMembers, Exists, Inv, Typed, Database, Member
  <2>3. QED
    BY <2>1, <2>2 DEF Held
<1>2. QED
  BY <1>1, Invariance, PTL

(* An account holds the groups of its active memberships and no others,    *)
(* unless the last request about its memberships could not see another or  *)
(* gave one of them away (membership.py:209-213).                          *)
THEOREM GroupsAreRight == Spec => []GroupsFollowMemberships
<1>1. Inv => GroupsFollowMemberships
  <2>. SUFFICES ASSUME Inv, NEW u \in Users \ blind PROVE Held(u) = Deserved(u)
    BY DEF GroupsFollowMemberships
  <2>1. GroupsMatch(db, u)
    BY DEF Inv, Informed
  <2>2. \A m \in ActiveMembers(db, u) : db.member[m].role \in Roles
    BY DEF ActiveMembers, Exists, Inv, Typed, Database, Member
  <2>3. QED
    BY <2>1, <2>2 DEF GroupsMatch, Held, Deserved
<1>2. QED
  BY <1>1, Invariance, PTL

(* Two tokens of one email and purpose are open only when neither request  *)
(* could see the other's (invitation.py:92).                               *)
THEOREM OneTokenIsOpen == Spec => []OneOpenToken
<1>1. Inv => OneOpenToken
  BY DEF Inv, Superseding, Alike, OneOpenToken
<1>2. QED
  BY <1>1, Invariance, PTL

(* A revoked grant never counts as valid again (partner_grant.py:66-73).   *)
THEOREM RevokedIsClosed == Spec => []RevokedStaysClosed
<1>1. Inv => RevokedStaysClosed
  BY DEF Inv, Sane, Closed, RevokedStaysClosed
<1>2. QED
  BY <1>1, Invariance, PTL

(* What the three properties of steps need of one that commits.            *)
LEMMA CommitFacts ==
  ASSUME Inv, NEW s \in Sessions, snap[s] # None, NEW new, Lawful(snap[s], new, now),
         Commit(s, new)
  PROVE  /\ db \in Database /\ snap[s] \in Database /\ new \in Database
         /\ Settled(db, snap[s], new, db')
         /\ Seen(db, snap[s], missed[s])
         /\ Changed(snap[s], new) \cap missed[s] = {}
         /\ snap'[s] = None
<1>1. Typed /\ Tracked /\ snap[s] \in Database /\ new \in Database
  BY DEF Inv, Typed, Lawful
<1>2. Settled(db, snap[s], new, db') /\ Seen(db, snap[s], missed[s])
  BY <1>1, CommitSettles DEF Tracked
<1>3. Writes(snap[s], new) \cap missed[s] = {} /\ snap' = [snap EXCEPT ![s] = None]
  BY <1>1, CommitMerges
<1>4. QED
  BY <1>1, <1>2, <1>3, WritesAreRows DEF Typed

(* A commit that enables an account: its token was valid in the database   *)
(* too, as the commit wrote the token's row; and the account still had the *)
(* group of the membership, as the commit wrote the account's row.         *)
LEMMA EnablingStep ==
  ASSUME Inv, NEW s \in Sessions, snap[s] # None, NEW new, Lawful(snap[s], new, now),
         Commit(s, new), NEW u \in Users, ~db.user[u].enabled, db'.user[u].enabled
  PROVE  /\ \E t \in TokenIds : /\ Valid(db, t, now)
                                /\ db'.token[t].consumed /\ db'.token[t].superseded_by = None
         /\ touch => Deserved(u)' # {} \/ u \in blind
<1>. DEFINE old == snap[s]
            is  == db'
            rows == missed[s]
<1>1. /\ db \in Database /\ old \in Database /\ new \in Database
      /\ Settled(db, old, new, is) /\ Seen(db, old, rows)
      /\ Changed(old, new) \cap rows = {}
  BY CommitFacts
<1>2. /\ EnablingLawful(old, new, now)
      /\ NotSuperseded(db) /\ Informed /\ Refer(old)
      /\ touch => GroupHeld(old) /\ TouchSeen(db, old, rows)
  BY DEF Lawful, Inv, Sane, Viewed
<1>. HIDE DEF old, rows, is
<1>3. new.user[u] # old.user[u] /\ db.user[u] = old.user[u] /\ is.user[u] = new.user[u]
  BY <1>1 DEF Settled, Settles, is
<1>4. ~old.user[u].enabled /\ new.user[u].enabled
  BY <1>3 DEF is
<1>5. PICK t \in TokenIds :
        /\ Valid(old, t, now) /\ old.token[t].member # None
        /\ old.member[old.token[t].member].user = u
        /\ old.member[old.token[t].member].active
        /\ new.token[t] = [old.token[t] EXCEPT !.consumed = TRUE]
  BY <1>2, <1>4 DEF EnablingLawful
<1>6. new.member = old.member
  BY <1>2, <1>4 DEF EnablingLawful
<1>7. old.token[t] \in Token /\ ~old.token[t].consumed
  BY <1>1, <1>5 DEF Valid, Open, Database
<1>8. new.token[t].consumed /\ new.token[t].superseded_by = old.token[t].superseded_by
  BY <1>5, <1>7 DEF Token
<1>9. db.token[t] = old.token[t] /\ is.token[t] = new.token[t]
  BY <1>1, <1>7, <1>8 DEF Settled, Settles
<1>10. Valid(db, t, now)
  BY <1>5, <1>9 DEF Valid, Open
<1>11. is.token[t].consumed /\ is.token[t].superseded_by = None
  BY <1>2, <1>8, <1>9, <1>10 DEF Valid, NotSuperseded
<1>12. ASSUME touch, u \notin blind PROVE Deserved(u)' # {}
  <2>. DEFINE m == old.token[t].member
              c == old.member[m].role
  <2>1. m \in MemberIds /\ old.member[m] # None /\ c \in Roles
    BY <1>1, <1>2, <1>5, <1>7 DEF Token, Refer, Exists, Valid, Open, Database, Member
  <2>2. old.group[<<u, c>>]
    BY <1>2, <1>5, <1>12, <2>1 DEF GroupHeld, ActiveMembers, Exists
  <2>3. <<"user", u>> \notin rows
    BY <1>1, <1>3, ChangedRows
  <2>4. db.group[<<u, c>>]
    BY <1>2, <1>12, <2>1, <2>2, <2>3 DEF TouchSeen
  <2>5. PICK o \in ActiveMembers(db, u) : db.member[o].role = c
    BY <1>2, <1>12, <2>1, <2>4 DEF Informed, GroupsMatch
  <2>6. is.member[o] = db.member[o] /\ o \in ActiveMembers(is, u)
    BY <1>1, <1>6 DEF Settled, Settles, ActiveMembers, Exists
  <2>7. QED
    BY <2>6 DEF Deserved, is
<1>13. QED
  BY <1>10, <1>11, <1>12 DEF is

LEMMA NothingEnabled ==
  ASSUME db' = db
  PROVE  /\ \A u \in Users : ~(~db.user[u].enabled /\ db'.user[u].enabled)
         /\ db.org = db'.org
OBVIOUS

(* An account is enabled only by using up a token that was valid when the  *)
(* request committed (invitation.py:149-176).                              *)
THEOREM EnabledByTokens == Spec => EnabledByAToken
<1>. DEFINE A == \A u \in Users : ~db.user[u].enabled /\ db'.user[u].enabled =>
                   \E t \in TokenIds :
                     /\ Valid(db, t, now)
                     /\ db'.token[t].consumed /\ db'.token[t].superseded_by = None
<1>1. ASSUME Inv, [Next]_vars PROVE A
  <2>1. CASE UNCHANGED vars \/ Tick \/ \E s \in Sessions : Begin(s) \/ Rollback(s)
    <3>1. db' = db
      BY <2>1 DEF vars, Tick, Begin, Rollback
    <3>2. QED
      BY <3>1, NothingEnabled
  <2>2. CASE \E s \in Sessions : \E new :
               snap[s] # None /\ Lawful(snap[s], new, now) /\ Commit(s, new)
    BY <1>1, <2>2, EnablingStep
  <2>3. QED
    BY <1>1, <2>1, <2>2, StepKinds
<1>2. Inv /\ [Next]_vars => [A]_vars
  BY <1>1
<1>. HIDE DEF A
<1>3. Spec => [][A]_vars
  BY <1>2, Invariance, PTL DEF Spec
<1>4. QED
  BY <1>3 DEF A, EnabledByAToken

(* An account is not enabled when its memberships have ended, also not by  *)
(* a request that overlaps their end (auth_controller.py:68-74).           *)
THEOREM EnabledAreMembers == Spec => EnabledIsMember
<1>. DEFINE A == \A u \in Users : touch /\ ~db.user[u].enabled /\ db'.user[u].enabled =>
                   Deserved(u)' # {} \/ u \in blind
<1>1. ASSUME Inv, [Next]_vars PROVE A
  <2>1. CASE UNCHANGED vars \/ Tick \/ \E s \in Sessions : Begin(s) \/ Rollback(s)
    <3>1. db' = db
      BY <2>1 DEF vars, Tick, Begin, Rollback
    <3>2. QED
      BY <3>1, NothingEnabled
  <2>2. CASE \E s \in Sessions : \E new :
               snap[s] # None /\ Lawful(snap[s], new, now) /\ Commit(s, new)
    BY <1>1, <2>2, EnablingStep
  <2>3. QED
    BY <1>1, <2>1, <2>2, StepKinds
<1>2. Inv /\ [Next]_vars => [A]_vars
  BY <1>1
<1>. HIDE DEF A
<1>3. Spec => [][A]_vars
  BY <1>2, Invariance, PTL DEF Spec
<1>4. QED
  BY <1>3 DEF A, EnabledIsMember

(* A commit that suspends and leaves a context on a membership it ends had *)
(* missed a write of that account.                                         *)
LEMMA SuspendingStep ==
  ASSUME Inv, NEW s \in Sessions, snap[s] # None, NEW new, Lawful(snap[s], new, now),
         Commit(s, new), NEW u \in Users, NEW m \in MemberIds,
         m \in ActiveMembers(db, u), m \notin ActiveMembers(db', u),
         db'.user[u].context = m, db.org # db'.org
  PROVE  snap'[s] # snap[s] /\ <<"user", u>> \in missed[s]
<1>. DEFINE old == snap[s]
            is  == db'
            rows == missed[s]
<1>1. /\ db \in Database /\ old \in Database /\ new \in Database
      /\ Settled(db, old, new, is) /\ Seen(db, old, rows)
      /\ snap'[s] = None
  BY CommitFacts
<1>2. SuspendingLawful(old, new)
  BY DEF Lawful
<1>. HIDE DEF old, rows, is
<1>3. new.org # old.org
  <2>1. is \in Database /\ is.org # db.org
    BY <1>1 DEF Settled, is
  <2>2. PICK o \in Orgs : is.org[o] # db.org[o]
    BY <1>1, <2>1 DEF Database
  <2>3. QED
    BY <1>1, <2>2 DEF Settled, Settles
<1>4. is.member[m] # db.member[m]
  BY DEF ActiveMembers, Exists, is
<1>5. db.member[m] = old.member[m] /\ is.member[m] = new.member[m]
  BY <1>1, <1>4 DEF Settled, Settles
<1>6. m \in ActiveMembers(old, u) \ ActiveMembers(new, u)
  BY <1>5 DEF ActiveMembers, Exists, is
<1>7. new.user[u].context # m
  BY <1>2, <1>3, <1>6 DEF SuspendingLawful
<1>8. is.user[u] # new.user[u]
  BY <1>7 DEF is
<1>9. db.user[u] # old.user[u]
  BY <1>1, <1>8 DEF Settled, Settles
<1>10. QED
  BY <1>1, <1>9 DEF Seen, rows

(* A suspension leaves no context on a membership it ends, unless the      *)
(* account was written while it ran (membership.py:96-101,                 *)
(* organization.py:47-61).                                                 *)
THEOREM SuspensionsEndContexts == Spec => SuspensionEndsContexts
<1>. DEFINE A == \A u \in Users, m \in MemberIds :
                   /\ m \in ActiveMembers(db, u) /\ m \notin ActiveMembers(db', u)
                   /\ Exists(db', m) /\ db'.user[u].context = m
                   /\ db.org # db'.org
                   => \E s \in Sessions : snap'[s] # snap[s] /\ <<"user", u>> \in missed[s]
<1>1. ASSUME Inv, [Next]_vars PROVE A
  <2>1. CASE UNCHANGED vars \/ Tick \/ \E s \in Sessions : Begin(s) \/ Rollback(s)
    <3>1. db' = db
      BY <2>1 DEF vars, Tick, Begin, Rollback
    <3>2. QED
      BY <3>1, NothingEnabled
  <2>2. CASE \E s \in Sessions : \E new :
               snap[s] # None /\ Lawful(snap[s], new, now) /\ Commit(s, new)
    BY <1>1, <2>2, SuspendingStep
  <2>3. QED
    BY <1>1, <2>1, <2>2, StepKinds
<1>2. Inv /\ [Next]_vars => [A]_vars
  BY <1>1
<1>. HIDE DEF A
<1>3. Spec => [][A]_vars
  BY <1>2, Invariance, PTL DEF Spec
<1>4. QED
  BY <1>3 DEF A, SuspensionEndsContexts
=============================================================================
