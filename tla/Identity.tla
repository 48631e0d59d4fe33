------------------------------ MODULE Identity ------------------------------
(***************************************************************************)
(* Memberships, invitations and partner grants under concurrent requests.  *)
(*                                                                         *)
(* The database (external).  Odoo runs a request as one transaction under  *)
(* REPEATABLE READ: it reads the tables as they were when it began, and    *)
(* fails when it writes a row that another request wrote and committed in  *)
(* the meantime; unique indexes are checked against committed rows.  What  *)
(* it reads may be stale when it commits.  lock_for_update takes a row     *)
(* nobody else has written since, or fails, so it is part of this.         *)
(*                                                                         *)
(* `touch` says whether a write of a user's groups, which are rows of      *)
(* another table, also writes the user's own row; that is up to Odoo, and  *)
(* the code relies on nothing else to keep requests about one user apart.  *)
(***************************************************************************)
EXTENDS Invitation, PartnerGrant

CONSTANTS
  Sessions,
  Founded,        \* the databases a run starts from
  Touches,        \* the values of touch considered
  BackOffice,     \* the purposes the back office issues tokens for
  Movable,        \* the accounts a membership may be moved to
  MaxRequests     \* bound: how many requests commit

ASSUME IdentityAssumption ==
  /\ RoleParty \in [Roles -> Parties]
  /\ MemberIds \subseteq Nat /\ TokenIds \subseteq Nat /\ GrantIds \subseteq Nat
  /\ MaxTime \in Nat /\ TokenTTL \in Nat \ {0} /\ GrantEnds \subseteq Nat
  /\ Touches \subseteq BOOLEAN /\ BackOffice \subseteq Purposes
  /\ Movable \subseteq Users /\ MaxRequests \in Nat /\ IsFiniteSet(Sessions)

VARIABLES
  db,         \* the committed tables
  snap,       \* what each session's transaction sees, or None
  missed,     \* rows committed by others since it began
  now,        \* the clock
  touch,
  requests,   \* how many requests have committed
  blind,      \* accounts whose last change of memberships could not see another
  unseen      \* pairs of tokens issued by requests that could not see each other

vars == <<db, snap, missed, now, touch, requests, blind, unseen>>

(* The tables; an absent row is None.                                      *)
Database ==
  [member : [MemberIds -> Member \cup {None}], user : [Users -> Account],
   group : [Users \X Roles -> BOOLEAN], org : [Orgs -> {"draft", "suspended"}],
   token : [TokenIds -> Token \cup {None}], grant : [GrantIds -> Grant \cup {None}]]

(* A row is named by its table and its id.                                 *)
Rows ==
  ({"member"} \X MemberIds) \cup ({"user"} \X Users) \cup ({"group"} \X (Users \X Roles))
    \cup ({"org"} \X Orgs) \cup ({"token"} \X TokenIds) \cup ({"grant"} \X GrantIds)

TypeOK ==
  /\ db \in Database
  /\ \A m \in MemberIds : Exists(db, m) => db.member[m].party = RoleParty[db.member[m].role]
  /\ snap \in [Sessions -> Database \cup {None}]
  /\ missed \in [Sessions -> SUBSET Rows]
  /\ \A s \in Sessions : snap[s] = None => missed[s] = {}
  /\ now \in 0 .. MaxTime /\ requests \in 0 .. MaxRequests /\ touch \in Touches
  /\ blind \subseteq Users /\ unseen \subseteq SUBSET TokenIds

ASSUME NoneAssumption == None \notin MemberIds \cup Member \cup Token \cup Grant \cup Database

(* A run starts from memberships as the code leaves them: one role in an   *)
(* account's active ones, and their groups.                                *)
ASSUME FoundedAssumption ==
  \A d \in Founded :
    /\ d \in Database
    /\ \A m \in MemberIds : Exists(d, m) => d.member[m].party = RoleParty[d.member[m].role]
    /\ \A u \in Users : \A m, o \in ActiveMembers(d, u) : d.member[m].role = d.member[o].role
    /\ \A u \in Users, r \in Roles :
         d.group[<<u, r>>] <=> \E m \in ActiveMembers(d, u) : d.member[m].role = r
    /\ \A t \in TokenIds : d.token[t] = None
    /\ \A g \in GrantIds : d.grant[g] = None

(***************************************************************************)
(* Transactions.                                                           *)
(***************************************************************************)
(* Ids come from a sequence and are not used again while anybody sees them. *)
NextId(t, ids) ==
  LET views == {db} \cup ({snap[s] : s \in Sessions} \ {None})
      free  == {i \in ids : \A d \in views : d[t][i] = None}
  IN  {i \in free : \A j \in free : i <= j}

(* Rows the tables must not hold together.                                 *)
ForeignKeys(d) ==
  /\ \A u \in Users : d.user[u].context # None => Exists(d, d.user[u].context)
  /\ \A t \in TokenIds : d.token[t] # None /\ d.token[t].member # None => Exists(d, d.token[t].member)
  /\ \A g \in GrantIds : d.grant[g] # None => Exists(d, d.grant[g].member)

Changed(old, new) == UNION {{<<t, k>> : k \in {x \in DOMAIN old[t] : old[t][x] # new[t][x]}} : t \in DOMAIN old}

(* Accounts whose groups a request writes: _sync_security_group adds the   *)
(* group of an active membership even when it is there already.            *)
GroupsWritten(new, rows) ==
  {r[2][1] : r \in {x \in rows : x[1] = "group"}}
    \cup {new.member[r[2]].user :
            r \in {x \in rows : x[1] = "member" /\ Exists(new, x[2]) /\ new.member[x[2]].active}}

(* The owners of membership m in the views d and e.                        *)
Owners(m, d, e) == {x.member[m].user : x \in {y \in {d, e} : Exists(y, m)}}

(* A session with the effect `new` on the tables it sees commits, unless a *)
(* row it writes was written by another, or a constraint refuses it.       *)
Commit(s, new) ==
  LET old     == snap[s]
      rows    == Changed(old, new)
      written == rows \cup (IF touch THEN {<<"user", u>> : u \in GroupsWritten(new, rows)} ELSE {})
      merged  == [t \in DOMAIN db |-> [k \in DOMAIN db[t] |->
                    IF <<t, k>> \in rows THEN new[t][k] ELSE db[t][k]]]
      ms      == {r[2] : r \in {x \in rows : x[1] = "member"}}
      redone  == UNION {Owners(m, IF Exists(new, m) THEN new ELSE old, new) : m \in ms}
      left    == (UNION {Owners(m, old, new) : m \in ms}) \ redone
      hidden  == (UNION {Owners(r[2], old, db) : r \in {x \in missed[s] : x[1] = "member"}})
                   \cup {r[2][1] : r \in {x \in missed[s] : x[1] = "group"}}
      made    == {t \in TokenIds : old.token[t] = None /\ <<"token", t>> \in rows}
      others  == {t \in TokenIds : <<"token", t>> \in missed[s]}
  IN  /\ written \cap missed[s] = {}
      /\ db' = merged
      /\ UniqueMembers(db') /\ ForeignKeys(db')
      /\ snap' = [snap EXCEPT ![s] = None]
      /\ missed' = [o \in Sessions |->
           IF o = s \/ snap[o] = None THEN {} ELSE missed[o] \cup written]
      /\ blind' = (blind \ redone) \cup left \cup (redone \cap hidden)
      /\ unseen' = unseen \cup {{p[1], p[2]} : p \in made \X others}
      /\ requests' = requests + 1
      /\ UNCHANGED <<now, touch>>

Begin(s) ==
  /\ snap[s] = None
  /\ requests + Cardinality({o \in Sessions : snap[o] # None}) < MaxRequests
  /\ snap' = [snap EXCEPT ![s] = db]
  /\ UNCHANGED <<db, missed, now, touch, requests, blind, unseen>>

(* The request raises, or loses to another.                                *)
Rollback(s) ==
  /\ snap[s] # None
  /\ snap' = [snap EXCEPT ![s] = None]
  /\ missed' = [missed EXCEPT ![s] = {}]
  /\ UNCHANGED <<db, now, touch, requests, blind, unseen>>

(* Nothing is to be seen of time after the last request.                   *)
Tick ==
  /\ now < MaxTime /\ requests < MaxRequests
  /\ now' = now + 1
  /\ UNCHANGED <<db, snap, missed, touch, requests, blind, unseen>>

(***************************************************************************)
(* Requests: what a session in its transaction does before it commits.     *)
(***************************************************************************)
CreateMembership(s) ==
  /\ snap[s] # None
  /\ \E m \in NextId("member", MemberIds), v \in {x \in Member : x.active} :
       \E new \in Stored(snap[s], m, v) : Commit(s, new)

WriteMembership(s) ==
  /\ snap[s] # None
  /\ \E m \in {x \in MemberIds : Exists(snap[s], x)} :
       \E v \in Edits(snap[s].member[m], Movable) :
         \E new \in Stored(snap[s], m, v) : Commit(s, new)

UnlinkMembership(s) ==
  /\ snap[s] # None
  /\ \E m \in MemberIds : \E new \in Unlinked(snap[s], m) : Commit(s, new)

SwitchContext(s) ==
  /\ snap[s] # None
  /\ \E u \in Users, m \in MemberIds : \E new \in Switched(snap[s], u, m) : Commit(s, new)

Suspend(s) ==
  /\ snap[s] # None
  /\ \E o \in Orgs : \E new \in Suspended(snap[s], o) : Commit(s, new)

(* issue() as the back office calls it.                                    *)
Issue(s) ==
  /\ snap[s] # None
  /\ \E t \in NextId("token", TokenIds), email \in Users, purpose \in BackOffice :
       \E creator \in IF purpose = "initial_invite" THEN Users ELSE {None},
          m \in {None} \cup {x \in MemberIds : email \in Owners(x, snap[s], snap[s])} :
         \E new \in Issued(snap[s], t, creator, email, purpose, m, now) : Commit(s, new)

RequestReset(s) ==
  /\ snap[s] # None
  /\ \E t \in NextId("token", TokenIds), u \in Users :
       \E new \in ResetRequested(snap[s], t, u, now) : Commit(s, new)

(* Commit follows the call at once, so that a token is compared with the   *)
(* clock of the commit; the code reads it before (invitation.py:174).      *)
Accept(s) ==
  /\ snap[s] # None
  /\ \E t \in TokenIds : \E new \in Accepted(snap[s], t, now) : Commit(s, new)

CreateGrant(s) ==
  /\ snap[s] # None
  /\ \E g \in NextId("grant", GrantIds), m \in MemberIds, end \in GrantEnds :
       \E new \in Granted(snap[s], g, m, end, now) : Commit(s, new)

ChangeGrant(s) ==
  /\ snap[s] # None
  /\ \E g \in {x \in GrantIds : snap[s].grant[x] # None} :
       \E new \in Refreshed(snap[s], g, now) \cup Revoked(snap[s], g, now)
                    \cup UNION {Extended(snap[s], g, end) : end \in GrantEnds} :
         Commit(s, new)

Init ==
  /\ db \in Founded
  /\ snap = [s \in Sessions |-> None]
  /\ missed = [s \in Sessions |-> {}]
  /\ now = 0 /\ touch \in Touches /\ requests = 0
  /\ blind = {} /\ unseen = {}

Next ==
  \/ Tick
  \/ \E s \in Sessions :
       \/ Begin(s) \/ Rollback(s)
       \/ CreateMembership(s) \/ WriteMembership(s) \/ UnlinkMembership(s)
       \/ SwitchContext(s) \/ Suspend(s)
       \/ Issue(s) \/ RequestReset(s) \/ Accept(s)
       \/ CreateGrant(s) \/ ChangeGrant(s)

Spec == Init /\ [][Next]_vars

-----------------------------------------------------------------------------
(***************************************************************************)
(* Properties.                                                             *)
(***************************************************************************)
Deserved(u) == {db.member[m].role : m \in ActiveMembers(db, u)}
Held(u) == {r \in Roles : db.group[<<u, r>>]}

(* An account never has two roles in force, whatever requests overlap, if  *)
(* the writes of its groups keep them apart (membership.py:104-123).       *)
SingleAuthority == touch => \A u \in Users : Cardinality(Deserved(u)) <= 1

(* An active membership is never without its group, which an overlapping   *)
(* deactivation could take away (membership.py:152-169).                   *)
ActiveHasGroup == touch => \A u \in Users : Deserved(u) \subseteq Held(u)

(* An account holds the groups of its active memberships and no others     *)
(* (membership.py:209-213), unless the last request about its memberships  *)
(* could not see another or gave one of them away; the next that sees them *)
(* all sets the groups right.                                              *)
GroupsFollowMemberships == \A u \in Users \ blind : Held(u) = Deserved(u)

(* The same without the exception.                                         *)
GroupsAreDeserved == \A u \in Users : Held(u) \subseteq Deserved(u)

(* A new token ends the earlier ones of its email and purpose at once      *)
(* (invitation.py:92), so two are open only when neither request could see *)
(* the other's.                                                            *)
OneOpenToken ==
  \A t, o \in TokenIds :
    /\ t # o /\ Open(db, t) /\ Open(db, o)
    /\ db.token[t].email = db.token[o].email /\ db.token[t].purpose = db.token[o].purpose
    => {t, o} \in unseen

(* An account is enabled only by using up a token that was valid, never by *)
(* one already used or superseded (invitation.py:149-176).                 *)
EnabledByAToken ==
  [][\A u \in Users : ~db.user[u].enabled /\ db'.user[u].enabled =>
       \E t \in TokenIds : /\ Valid(db, t, now)
                           /\ db'.token[t].consumed /\ db'.token[t].superseded_by = None]_vars

(* An account is never enabled when its memberships have ended             *)
(* (auth_controller.py:68-74), also not by a request that overlaps their   *)
(* end, as long as their end takes its groups away.                        *)
EnabledIsMember ==
  [][\A u \in Users : touch /\ ~db.user[u].enabled /\ db'.user[u].enabled =>
       Deserved(u)' # {} \/ u \in blind]_vars

(* A suspension leaves no context on a membership it ends                  *)
(* (membership.py:96-101, organization.py:47-60), unless the account was   *)
(* written while it ran.                                                   *)
SuspensionEndsContexts ==
  [][\A u \in Users, m \in MemberIds :
       /\ m \in ActiveMembers(db, u) /\ m \notin ActiveMembers(db', u)
       /\ Exists(db', m) /\ db'.user[u].context = m
       /\ db.org # db'.org
       => \E s \in Sessions : snap'[s] # snap[s] /\ <<"user", u>> \in missed[s]]_vars

(* A revoked grant never counts as valid again, in the flag the record     *)
(* rules read, whatever is refreshed, extended or revoked at the same time *)
(* (partner_grant.py:66-73).                                               *)
RevokedStaysClosed ==
  \A g \in GrantIds : db.grant[g] # None /\ db.grant[g].revoked => ~db.grant[g].valid
=============================================================================
