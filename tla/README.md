# Octa Connect: a verification project

TLA+ models of `octa_connect`, a hub between ordering channels, merchants and
their point-of-sale systems, written as Odoo addons and a few plain Python
tools. An order event comes in through a webhook, is stored as an order with an
outbox item, and a worker delivers the item to the point of sale. The models
cover that path, the accounts and permissions of the back office, and the tools
that have rules of their own; what is left out is listed in section 7.

Paths in this file are relative to `src/octa_connect/`, with `api/` for
`addons/octa_hub_api/` and `core/` for `addons/octa_hub_core/`.

## 1. The system

| Component | State it keeps | Operations | Modelled by |
|---|---|---|---|
| Order ingress (`api/controllers/api_controller.py`, `api/lib/duplicate_resolution.py`) | rows of `octa_hub_order` and `octa_hub_outbox_item`, written in one transaction | `receive_order_event` | `OrderIngress` |
| Order states (`core/models/order.py`, `core/lib/state_machine.py`) | transport and commercial state, two timestamps | `create`, `write` | `OrderLifecycle` |
| Outbox table (`api/models/outbox_item.py`, `api/data/outbox_cron.xml`) | rows with a status, two budgets and a reference | `enqueue`, `run_worker_batch`, `run_query_batch` and what they call | `OutboxTable`, `Delivery` |
| Outbox (`api/lib/outbox.py`) | the same in memory, behind a lock, shared by threads | `enqueue`, the two claims, four marks, the two cycles | `Outbox` |
| Point of sale (`tools/mock_pos/mock_pos_service.py`) and its adapter (`api/lib/mock_pos_adapter.py`) | registered orders, idempotency keys | POST and GET of an order | `MockPos` |
| Idempotency store (`api/lib/idempotency.py`), repeats on demand (`core/lib/reprocessing.py`) | orders and attempts in memory | `register_event`, the marks, `apply_cancel`, `apply_stale_update` | `EventStore` |
| Memberships (`core/models/membership.py`, `core/lib/authority_context.py`, `core/models/organization.py`) | memberships, groups, active context | `create`, `write`, `unlink`, `switch_active_context`, `suspend` | `Membership`, `Identity` |
| Invitations (`core/models/invitation.py`, `core/controllers/auth_controller.py`) | tokens by hash, consumed or superseded | `issue`, `preview_only`, `consume`, the pages | `Invitation`, `Identity` |
| Partner grants (`core/models/partner_grant.py`) | expiry, revocation, a stored validity flag | `create`, `write`, `revoke`, `refresh_validity` | `PartnerGrant`, `Identity` |
| Activation (`core/models/activation.py`, `core/wizards/`) | steps of a branch, `active` | `mark`, `invalidate_step_and_downstream`, the import, `action_go_live` | `Activation` |
| Catalog reconciliation (`tools/catalog_reconcile/reconcile.py`) | committed records, SKU index | `reconcile_batch` | `Reconcile` |
| Prices (`core/lib/price_resolution.py`, `core/models/catalog.py`) | stored prices | `resolve_price` | `Prices` |
| Opening hours (`core/lib/operating_hours.py`) | nothing | `is_open_by_schedule`, `compute_day_status` | `Hours` |
| Availability (`core/lib/availability_state.py`) | what is wanted and confirmed of an item | `apply_confirmation`, `display_state` | `Availability` |
| Modifiers, traces, metrics, mappings | rows, or nothing | pure functions | |
| Connections, access rules, keys, user interface, demo | configuration | | |

How they interact. The webhook writes the order and the outbox item in one
transaction (`api_controller.py:217-227`). Cron workers and threads share the
outbox only through its rows, or its lock; each claims items, calls the point
of sale outside any transaction of the point of sale, and records the result
afterwards. Sessions of the back office write orders in transactions of their
own. Requests about accounts share the tables of memberships, groups, users,
tokens and grants: a suspension ends memberships, which takes groups and
contexts; accepting an invitation reads both the membership behind the token and
its organization. The wizard of the activation imports a catalog into a store
made for the occasion. Nothing else is shared.

What is hard. A worker can be overtaken between a claim and its mark; answers are
lost after the effect; a cron run dies after its POSTs and takes its marks with
it; searches read a snapshot and constraints do not; senders repeat events while
the first delivery is still being handled; groups, contexts and flags are stored
copies of what memberships and grants say, and two requests may each update them
without seeing the other; confirmations, updates and batches arrive in any order
and more than once. `PROJECT.json` lists these hazards
line by line with the properties that cover them.

What makes each part correct:

- ingress: an acknowledged event is stored, once, with something that will send
  it; a repeat is told that it is one; every sender is answered in the end;
- order states: committed orders never go back, and the timestamps `write` sets fit;
- outbox: DONE only when the point of sale has the order, one effect per order,
  no item lost or stuck, budgets kept, one dispatcher per item;
- idempotency store: one order per key, every arrival on record, final states kept;
- invitations: one open token at most per purpose, an account enabled only by one;
- memberships: one authority and role per user, groups and contexts that follow
  the memberships;
- grants: no access after revocation;
- activation: live only when every step has passed and none was invalidated;
- reconciliation: repeating a batch changes nothing, no SKU has two records;
- prices: the most specific one, in its currency, free only with permission;
- hours: open exactly within the windows of the schedule in force;
- availability: a request is pending until it is answered, and what is shown then
  follows the newest confirmation.

## 2. The modules

**`MockPos`** is the point of sale and the adapter in front of it. `posOrders`
and `posKeys` are the two dictionaries behind the service's lock; `effects`
counts creations and is history. A payload is represented by the item it belongs
to, so that the model can tell *whose* order is registered. `PosPost` is the
whole handler of POST; `PostOutcome` and `QueryOutcome` are what the adapter
makes of an answer.

**`ItemOrder`** holds the two operators both outboxes order their work by: the
oldest item, and the first `n`.

**`Outbox`** is `outbox.py`. `item` is the dictionary of `OutboxItem`s; `mode`,
`batch` and `verdict` are the local variables of a worker thread inside
`run_dispatch_cycle` or `run_query_cycle`. Each hold of the lock is one action
(`Enqueue`, `ClaimBatch` with the reclaiming it starts with, `ClaimForQuery`,
`Record` for the four `mark_*`), and so is each call to the point of sale
(`Dispatch`, `Query`): between any two of them other workers run. A POST may be
handled with its answer lost, or be given up on and arrive later
(`late`, `LateArrival`). `Stop` is the worker that dies mid-cycle. Time is one
flag per item, `due`, which says that the timer of its current status has run
out; `TimerLapses` may raise it at any moment, also under a worker that is merely slow,
and `overrun` remembers that this happened. `max_attempts`, `max_query_attempts`
and `batch_size` are constants.

**`OutboxTable`** is `outbox_item.py` wired as the comment in `outbox_cron.xml`
shows. One cron run is one transaction that first dispatches and then queries:
`phase` says how far it is, `view` is the table as it sees it, `locked` the rows it
holds. The database is external and modelled from what the code relies on:
a snapshot taken by the first query, row locks until the end,
`try_lock_for_update` passing over held rows, and a serialization failure when a
row to be locked has changed (`Conflict`). `Crash` undoes the marks and not the
POSTs. Which rows' time has come by a worker's clock is any set, `ripe`.

**`Delivery`** is what an outbox promises: an open item is settled once, and as
delivered only after the point of sale has received it. `OutboxTable`
implements it under the mapping in `OutboxTable!D`.

**`OrderIngress`** is `receive_order_event`. A request goes through the phases of
the handler (search, insert in a savepoint, violation, second search, enqueue,
commit, answer); `Receive` covers everything up to the first search in the
order of the code, the checks being the parameter `Refusal`. A commit makes the
order and the outbox item visible together. Senders repeat an event at any time,
also while it is being handled and after it was answered. `AsStored` says how a
content reads back from the order's columns: the sender's 30.0 is kept in an Integer column
and comes back as 30. The isolation level is chosen at the start, among `Isolations`.
`OrderIds` bounds the sequence of ids: an insert takes a free one (`FreeIds`).

**`OrderLifecycle`** is `create()` and `write()` of an order with the tables of
`state_machine.py`. Sessions have transactions with snapshots, as above; a
`write` checks every order of its record set against the state the session
*sees*. The values of a call are a record of four fields, each of which may be
`NotGiven`: a timestamp among them is kept, a missing one is stamped from the clock `now`
(`setdefault`), and a write of the timestamps alone is checked for nothing. Which
timestamps callers may give is `SentTimes` and `ConfirmedTimes`; `supplied` is history and
says that one was given for the order.

**`Membership`**, **`Invitation`** and **`PartnerGrant`** say what each method
does to a database `d` (a record of tables, each a function from ids to rows).
`Stored(d, m, v)`, `Suspended(d, o)`, `Accepted(d, t, now)` and the like are the
set of databases the call may leave: empty when it raises, otherwise the one
with everything it writes, the recomputed groups, contexts and flags included. A raw
token, its hash and its row are one id. The branches of a membership and the
scope of a grant, which nothing here changes, are left out.

**`Identity`** runs these calls as requests. `Begin` gives a session the snapshot
`snap`; each request applies one call to what it sees, and `Commit` merges the
rows it changed into `db`, unless one of them was committed by another since
(`missed`) or a unique index or foreign key refuses. `Rollback` is a request that raises.
A run starts from one of the databases `Founded`, which `FoundedAssumption`
describes: memberships as the code leaves them, no token and no grant yet.
`blind` and `unseen` are history: the accounts whose last change of memberships
could not see another one (or the groups it wrote), or moved a membership away, and the
tokens issued by requests that could not see each other. A request and its commit are one
step, so that `Accept` compares a token with the clock of the commit, where
`invitation.py:174` reads the clock a little before it. `touch` is chosen at the start: whether a write
of `group_ids`, rows of another table, also writes the row of the user. That is
Odoo's decision, the code says nothing of it, and what keeps two requests about
one user apart depends on it; both values are checked, and the properties that
need it say so.

**`EventStore`** is the in-memory reference store. Every method holds the lock,
so each is one step; `appliedSeq` is the dictionary callers pass to
`apply_stale_update`. `Reprocess` is a repeat on demand, an attempt of the
tracker's and the same event again.

**`Activation`** is the stored checklist and the wizard. Requests have snapshots
(`view`) and fail on rows written since (`rewritten`), as in `Identity`; `stale`
remembers which steps a change has reached that nobody has marked since.

**`Reconcile`** is `reconcile_batch` within one scope: `Reconciled` decides one
record, `Imported` is a batch, record after record, and `NewCatalog` the empty store a
catalog begins as. **`Prices`**, **`Hours`** and
**`Availability`** are the three pure tools. The first two have one variable, the
question, so that a run answers every question within its bounds, each checked against
a definition written from the documented rule and not from the code's search: `Best` takes
the first in the order `Precedes`, the property looks for the levels one by one.
`Availability` has a state: the record of the latest request, which is a new one and
inherits no confirmation, its expiry, and confirmations the destination numbers as it
sends them, which arrive in any order, any number of times, after a later request or never.
`former` remembers which were sent before the request.

**`MCTools`** puts the last six side by side; their initial states and steps have
names of their own (`EventInit`, `ActivationNext`, ...). They share no state, so a
behaviour chooses one `part` at the start and takes the steps of that one only:
the state count is the sum of theirs. All they share is the value `None`, declared in **`Null`**.

Definitions named `*_Mutant*` are not part of the models. Each is the body a plausible
bug would give the definition after it; used in its place, it makes the
property it is paired with in `PROJECT.json` fail.

## 3. The runs

All with `tlc -config <cfg> <module>`. Deadlock is checked except in `identity`,
`identity_skew` and `tools`, where the number of requests is bounded, or a question is
asked once, and nothing is left to do after.

| Run | Bounds | What it shows |
|---|---|---|
| `outbox_safety` (`MCOutbox.cfg`) | 2 items with ids of their own, 2 threads, batches of 2, 2 attempts, 2 queries | the safety properties of `Outbox`; 1.8 million states |
| `outbox_liveness` (`MCOutboxLive.cfg`) | 1 item, 2 threads, one of them stopped once | `EventuallySettled` |
| `outbox_shared_id` | 2 items with one external id, 1 thread | finding 1 |
| `outbox_resend` | as `outbox_safety` | finding 2 |
| `outbox_table` | 2 items, 2 cron workers, 1 crash, 2 attempts, 1 query | `OutboxTable` implements `Delivery`; `SentOnlyWhilePending` |
| `order_ingress` | 4 events (a repeat with a float total, a conflicting one, a refused one) on one key, 2 HTTP workers, 1 fault, both isolation levels | safety of `OrderIngress`, `EventuallyAnswered` |
| `ingress_race` | the same, REPEATABLE READ only | finding 3 |
| `order_lifecycle` | 1 order, 2 sessions, 2 moments, callers may give the moment of the confirmation | `NeverBack`, `DurationsMakeSense`; 197,816 states |
| `lifecycle_restamp` | 1 order, 1 session, 2 moments, callers give no timestamp | finding 4 |
| `identity` (`MCIdentity.cfg`) | 2 users, 2 organizations, 3 roles of 2 authorities, 4 memberships (3 there at the start), 2 tokens, 1 grant, 2 sessions, 3 requests, both values of `touch` | the properties of `Identity`; 107,504 states |
| `identity_skew` (`MCIdentitySkew.cfg`) | the same with 2 requests, `touch`, nothing moved between users | finding 5 |
| `tools` (`MCTools.cfg`) | 2 keys, 2 contents, 3 attempts, 2 sequence numbers; 3 steps, 2 sessions; 2 ids, 2 SKUs, 2 texts, 2 versions, batches of 2; 2 overrides over 2 amounts (0 among them), 2 currencies, 2 versions; days of 3 minutes with one window at most, a week of 2; 4 numbers of confirmations | the properties of the six tools; 536,203 states |

Why the bounds are enough. Being overtaken takes two workers and one item; a second
item adds batches, of which one element is being worked on while another waits
under the same claim. Two attempts give one retry and the limit; two queries
one inconclusive answer and the limit. One crash anywhere in a run, with the
other run overlapping it, is what a transaction can be exposed to before it is
over. A race for a key takes two requests; the one fault is a lost answer or
a request that fails anywhere, and the race may come before or after it. One order suffices for transitions, since orders share no
state and a record set is checked element by element. Two moments tell sent before
confirmed from sent after it. Callers give one of the two timestamps, as the other is
treated alike; the proof has both. In `outbox_safety` no
worker is stopped: a stopped worker does nothing more, which a worker that is
simply never scheduled again shows as well.

For `identity`, a race takes two requests, and a third is either what prepares
it (a switch of the context, a token, a grant) or what follows it. The owner of
two organizations in the same role is the case in which groups are shared by
memberships; the identity admin is needed to invite, and has another authority. Two
tokens suffice for superseding, two moments for expiry. In `tools`, two keys show that attempts
are not mixed up; three steps have one before and one after the imported one;
a batch of two holds every pair of records, and its effect on a third
record is the same after an earlier batch. Two overrides compare every pair of
levels and versions, nulls included; the windows of two days meet in every
order within three minutes.

The constants `Max...` bound only the environment (stops, crashes, faults, the
clock). `MaxAttempts` and `MaxQueryAttempts` are the program's own budgets. Symmetry is used for
workers and sessions in runs without liveness only.

### Properties

- `DoneMeansRegistered`, `EffectAtMostOnce`, `BudgetsRespected`,
  `AwaitingHasReference`, `ExclusiveDispatch`: the outbox under overtaking.
  The marks check nothing, so none of these follows from a guard: each rests on
  what the point of sale never forgets and on what a worker can have in its hands.
- `ImplementsDelivery`, `SentOnlyWhilePending`, `CommittedRowsAreFinished`: the
  table under overlapping and dying runs. In contrast to the threads, a cron run
  never sends an item that awaits confirmation.
- `StoredOnceAndQueued`, `AcknowledgedIsStored`, `ConflictIsReal`,
  `LoserHasAWinner`, `EventuallyAnswered`: ingress under races and faults. Where a race
  stays unresolved (finding 3), `LoserHasAWinner` says that the order it was lost to is there.
- `NeverBack`, `DurationsMakeSense`: orders under overlapping sessions; the second for
  orders of which no caller gave a timestamp, as no caller in the repository does.
- `SingleAuthority`, `ActiveHasGroup`, `GroupsFollowMemberships`,
  `SuspensionEndsContexts`: what is derived from memberships, under overlapping
  requests. The first two hold if `touch`, and TLC refutes them without it: the
  constraint reads a snapshot.
- `OneOpenToken`, `EnabledByAToken`, `EnabledIsMember`: invitations under races
  with each other, with their reissue, and with suspensions.
- `RevokedStaysClosed`: a revocation against refreshes and extensions.
- `OneOrderAllAttempts`, `SettledStays`: the reference store in every order of calls.
- `PassedIsCurrent`, `GoesLiveWhenReady`: the checklist under overlapping requests.
- `RepeatChangesNothing`, `OneRecordPerSku`, `MostSpecificNewest`,
  `StoredPriceCounts`, `OpenWithinAWindow`, `ShowsNewestConfirmation`: the tools
  against their documented rules, but for the cases in which the code departs from the
  rule, which the properties leave out by name and section 4 lists.

### Fairness

- `Outbox`: threads run their cycles for ever (`WF` of both claims and of a
  cycle's next step), and time passes (`WF` of `TimerLapses`). The network is
  owed nothing: a POST may be lost every time, and the budgets end it. A
  worker's stop is not fair and is bounded: reclaiming counts no attempt, so an
  item that stops every worker would be tried for ever.
- `OrderIngress`: a sender repeats until it has an answer other than 5xx and is
  not shut out for ever by busy workers (`SF` of `Receive`, for unsettled events),
  and a request taken up is carried on with (`WF` of its next step).

## 4. Findings

1. *Shared external ids* (`outbox_shared_id`). The adapter derives the
   idempotency key from `external_order_id` alone (`mock_pos_adapter.py:40`), an
   id that is unique only per organization and connection (`order.py:78-79`).
   The second order with an id is taken for a repeat of the first and marked
   done although its payload was never registered.
2. *Sent again while awaiting confirmation* (`outbox_resend`). The marks of
   `outbox.py` do not look at `claimed_by`. A worker whose claim ran out goes on
   with its batch and POSTs items that were left AWAITING_CONFIRMATION
   by the worker that took over, which `outbox.py:225-227` excludes. The key
   keeps the effect single, as `EffectAtMostOnce` shows; a point of sale
   without keys would create the order twice.
3. *The loser of a race gets a 500* (`ingress_race`). The search after the
   violation runs in the snapshot of the first search and does not see the
   winner under Odoo's REPEATABLE READ, so the branch at
   `api_controller.py:199-205` is reached only under READ COMMITTED. The order that
   won is there at either level (`LoserHasAWinner`), and the sender's next repeat is
   answered.
4. *Timestamps move without a transition* (`lifecycle_restamp`).
   `write({"transport_state": "registered_confirmed"})` on a confirmed order is
   allowed as a repeated write and stamps again (`order.py:125-126`), without any
   caller giving a timestamp.
5. *A group outlives its memberships* (`identity_skew`). Groups are recomputed
   from a search (`membership.py:225`) that runs in the snapshot of the request.
   Two requests that each end one of a user's two memberships in a role both
   find the other, neither removes the group, and no row is written by both.
   `membership.py:210-213` promises that what is not deserved is removed. The
   next change of the user's memberships puts it right (`GroupsFollowMemberships`).

Noted while reading, and not shown by a run of its own:

- ingress: a total sent as 30.0 or null is stored as an integer, so the identical
  repeat hashes differently and is refused with 409 (`ConflictIsReal` is stated
  for contents that read back as sent); the payload `receive_order_event` enqueues has
  neither items nor total, which the point of sale then registers as they come.
- order timestamps: `write` keeps a timestamp its caller gives (`setdefault`,
  `order.py:124,126`), `create` keeps one as well, and a write of timestamps alone passes
  the check of line 111. An order may then have been confirmed before it was sent, or be
  stamped without having been sent at all, although lines 60-63 say the fields record the
  moment of the actual transition. The model has all of these calls; `DurationsMakeSense`
  is stated for orders of which no caller gave a timestamp.
- invitations: `consume` compares the token with the clock before it commits
  (`invitation.py:174`), so a token may expire between the two.
- memberships: `write` of `user_id` recomputes the groups of the new user only
  (`membership.py:196`), which `GroupsFollowMemberships` excepts through `blind`;
  `write` of `active` empties no context (line 180), as only `suspend` and
  `switch_active_context` do (lines 96-101). Nothing refuses a membership in a
  suspended organization.
- grants: `is_currently_valid` is computed by `create`, `revoke` and
  `refresh_validity` only. The help at `partner_grant.py:35` says on every write, and a
  write of `expires_at` does not; no cron refreshes it yet, as line 39 says.
- idempotency store: a cancellation that comes before its order is reported and
  not kept, although the docstring at `idempotency.py:155` says that it is;
  `REJECTED` is not among the states an update cannot leave (line 174).
- reconciliation: a newer version with the same fields is UNCHANGED and its version is not
  kept, so an older one may follow it. A batch that lists the newer first
  is therefore not idempotent, which `RepeatChangesNothing` excludes. An SKU stays
  with its first owner for ever.
- prices: a base price of 0 may be stored although `catalog.py:101` says it is
  always above 0; it is then refused when it is asked for. A null inherits from a less
  specific level according to `price_resolution.py:6-7,44` and the comment at line 93; the
  code takes the next override in its order (line 94), which may be an older one of the null's own
  level. `MostSpecificNewest` leaves out overrides with a null above an amount on one level.
- hours: a window that crosses midnight also counts early on the day it begins
  (`operating_hours.py:47`), besides the day after; `OpenWithinAWindow` names this case.
  An empty exception closes its date for the whole day according to line 55, as does the test
  at `test_operating_hours.py:48`; the code asks yesterday's windows first (78-80) and
  keeps the branch open early on that date if one of them crosses midnight.
  `OpenWithinAWindow` leaves such dates out.
- availability: an old success does not prove a new request (`availability_state.py:4-6`),
  and a new record starts unconfirmed. But a confirmation does not say which request it
  answers, and a new record starts at version 1 (line 38), so a late answer to an
  earlier request is newer than nothing (line 67) and shown as one to the latest.
  `ShowsNewestConfirmation` says nothing while only such answers have arrived.
- activation: the import checks the batch against a store of its own
  (`activation_wizard.py`), so conflicts with the stored catalog are not found.
- modifiers (not modelled): an option listed twice counts as two in
  `validate_selection`, and `channel_supports_repeat_or_reject` does not look at
  `allow_repeat` of the options.

## 5. The proofs

`OutboxProofs` proves, with TLAPS, for every set of items and workers, every
batch size and every budget:

| Theorem | Statement |
|---|---|
| `TypeCorrect` | `Spec => [](TypeOK /\ Control)` |
| `EffectOnce` | `Spec => []EffectAtMostOnce` |
| `BudgetsKept` | `Spec => []BudgetsRespected` |
| `AwaitingAskable` | `Spec => []AwaitingHasReference` |
| `DoneIsRegistered` | `Spec => []DoneMeansRegistered` |
| `DispatchIsExclusive` | `Spec => []ExclusiveDispatch` |

The assumptions are the named ones of `MockPos` and `Outbox`: items are natural
numbers (their order is the order of creation), every item has an external id,
the limits are natural numbers and positive where the code needs it, and `None`
is none of the values it stands beside. TLC evaluates them in every run of `MCOutbox`.

The properties are not inductive by themselves. The argument goes through:

- `Control`: a worker is in a cycle exactly while it has items left, and a
  verdict it holds is one its kind of cycle can reach. With `TypeOK` it forms `Shape`,
  on which all else rests.
- `Registration` (for `EffectOnce`): an order has been created as often as it is
  registered, and whatever is registered has its key recorded, under its own id. A
  second POST therefore meets the key.
- `BudgetsKept` needs only `Shape`: every mark decides by the count it
  reads, and a reclaimed or claimed item was within its budget before.
- `References` (for `AwaitingAskable`): the reference an item carries is its
  own external id.
- `Vouched` (for `DoneIsRegistered`): not only an item that is done, but also one a
  worker *is about to record* as done, is registered with its own payload.
  Between the answer and the mark anything may happen, but the service never forgets.
- `Exclusion` (for `DispatchIsExclusive`): as long as no claim has run out under
  a running worker, what a dispatching worker holds is PROCESSING, claimed by it
  and not due; and what a querying worker holds is not PROCESSING. So neither a
  claim nor a query's mark can come between.

`EventStoreProofs`, for every set of keys and contents and any number of events:

| Theorem | Statement |
|---|---|
| `OneOrderPerKey` | `EventSpec => []OneOrderAllAttempts` |
| `SettledForEver` | `EventSpec => SettledStays` |

The assumption is that `None` is no order (`NoneIsNoOrder`). `OneOrderInv` adds to the property that
attempt ids are numbers given out by `seq`, so that the next one is new to every key;
events add one, and every other step rewrites an order in place
(`RewrittenInPlace`). `SettledForEver` needs only the types: each method is
shown to respect what is settled by its own guards (`EventSettles`,
`MarkSettles`, `CancelSettles`, `UpdateSettles`).

`ActivationProofs`, for any number of steps and sessions:

| Theorem | Statement |
|---|---|
| `PassedStepsAreCurrent` | `ActivationSpec => []PassedIsCurrent` |
| `LiveBranchesAreReady` | `ActivationSpec => GoesLiveWhenReady` |

The strengthening is `SeenIsCurrent`: a step that nobody has written since a
session began is in the state the session sees. An invalidation that overlooks
a passed step, because its snapshot shows it otherwise, therefore overlooks only what was
marked while it ran. `ActivationAssumption` says that `Absent` is no checklist,
that `Last` is a number and that the imported step is one of the steps.

`CatalogProofs`, for any ids, SKUs, texts and versions, batches of any size, any number of
overrides, amounts, currencies and stored prices, days and weeks of any length, and any
numbering of confirmations:

| Theorem | Statement |
|---|---|
| `SkusApart` | `ReconcileSpec => []OneRecordPerSku` |
| `RepeatsAreIdle` | `ReconcileSpec => []RepeatChangesNothing` |
| `PriceIsMostSpecific` | `PriceSpec => []MostSpecificNewest` |
| `StoredPricesCount` | `PriceSpec => []StoredPriceCounts` |
| `OpenByItsWindows` | `HourSpec => []OpenWithinAWindow` |
| `NewestIsShown` | `AvailabilitySpec => []ShowsNewestConfirmation` |

What is said of a batch, or of a list, holds at the first position and is handed on from
each position to the next. The library's induction takes the formula as a parameter;
`Along` says the same of a *set* of positions and is proved by the least one that is
missing, so that it can be cited. From it come `PassExists` (the recursive function in
`Imported` is the sequence of catalogs after each record), `LastCommitExists` and
`BestIsFirst`.

- `Owned` (for `SkusApart`) is the strengthening: the SKU index knows the SKU of every committed
  record, so that no second record can be committed with it. A commit keeps it because it
  takes an SKU from nobody.
- `RepeatsAreIdle` compares two passes over one batch. Along a pass an owner stays and
  versions rise (`Follows`), so the second pass finds every SKU owned as the first left it.
  It is not idle record by record: with two texts of one version for an id, it writes the
  first again and then the second. `Repeating` says what holds in between: an id is as the
  first pass left it, or at an earlier record of its own and its last commit (`LastCommit`) still
  to come. `RecordAgain` is the step, `SecondPass` the whole; the order of versions in
  the batch is used where a record behind the last one might be written.
- `PrecedesIsOrder` (for the prices): the order of overrides is total and transitive, so
  there is a first (`BestIsFirst`), and when it is null, the first with an amount precedes
  every other that has one (`PriceIsFirst`). By `FirstIsNewest` it is the newest of the most specific level, as every level with
  an override has a newest one (`NewestExists`) and, by the property's hypothesis, that one has an
  amount wherever any has.
  A stored item's price is then that of the list `ItemPrice` makes, whichever
  order the list has (`Listed`, `ItemPriceCounts`), since `Storable` allows one price a channel.
- `OpenByItsWindows` compares the window's minutes of today and yesterday with the minutes
  counted from the beginning of yesterday, window by window; today is not a date that an
  empty exception closes.
- `HoldsNewest` (for `NewestIsShown`): the record holds the confirmation with the
  highest number that has arrived since the request, if one above the first version has. What was
  sent since has higher numbers than what was sent before, so the newest answer is
  the newest of all.

The assumptions: `None` is no record and no id (`ReconcileAssumption`), no amount, and
versions are integers (`PriceAssumption`), a day's length is a natural number, a week is not empty and
`None` is no Boolean (`HourAssumption`), nor is `Unconfirmed` (`UnconfirmedIsNoState`). The bounds
`MaxBatch`, `MaxOverrides` and `MaxWindows` only limit what TLC enumerates. TLC evaluates
these assumptions, and those of the two sections before, in the run `tools`.

`OrderLifecycleProofs`, for any number of orders, sessions and moments:

| Theorem | Statement |
|---|---|
| `OrdersTyped` | `Spec => []TypeOK` |
| `NeverBackHolds` | `Spec => NeverBack` |
| `DurationsHold` | `Spec => []DurationsMakeSense` |

`Isolated` says that an order a session has written is held by it alone, and that
what it will commit follows, by transitions, from the committed row as it still is: a
write is checked against a view, and only the lock makes the view
good. That no transition leads back is proved of the two tables (`TransportMoves`,
`CommercialMoves`). `Timed` carries `DurationsMakeSense` to everything a session may
yet commit, with the addition that no dispatch began in the future, on
which the next stamp rests. All three hold for any timestamps callers may give; the third
speaks of the orders of which none was given, and a write that gives one takes
its order out (`supplied`). `SuppliedAssumption` says that such timestamps are moments or
empty, `NotGivenAssumption` that a field left out is told from every value of it.

`OrderIngressProofs`, for any events, keys, contents and HTTP workers, either isolation
level and any number of faults:

| Theorem | Statement |
|---|---|
| `IngressTyped` | `Spec => []TypeOK` |
| `OneOrderOneItem` | `Spec => []StoredOnceAndQueued` |
| `AcknowledgementsHold` | `Spec => []AcknowledgedIsStored` |
| `ConflictsAreReal` | `Spec => []ConflictIsReal` |
| `RacesAreLostToOrders` | `Spec => []LoserHasAWinner` |

`Coherent` says what a request holds in each phase of the handler. `RowsApart` adds to
`StoredOnceAndQueued` that an uncommitted row shares neither key nor id with any other
row, committed or not, so that whatever commits next keeps both unique. `Honest`
says of every answer, received or on its way, that it is true of the orders
there are (`Truthful`), that a snapshot shows nothing that is not there, and that a
refused insert has a committed order behind it; since orders are only added, what was
true stays true. Contents need `ReadsBack`: reading a stored content back changes
it no further, which `EventsAssumption` demands of `AsStored` and a column guarantees.

`OutboxTableProofs`, for any items, cron workers, batch size, budgets and number of crashes:

| Theorem | Statement |
|---|---|
| `TableTyped` | `Spec => []TypeOK` |
| `OnlyFinishedWorkIsSeen` | `Spec => []CommittedRowsAreFinished` |
| `OnlyPendingIsSent` | `Spec => SentOnlyWhilePending` |
| `TableEffectOnce` | `Spec => []EffectAtMostOnce` |
| `TableImplementsDelivery` | `OwnExtId`, then `Spec => ImplementsDelivery` |

`Sound` is the heart: rows are held by one run at a time (`Exclusive`), and a row that is
held is open in the table and as it was when it was claimed; those a run has
yet to send are pending in the table and PROCESSING only in its own view
(`RunSound`). So nothing is sent that is not pending, and what a commit makes
visible is finished. `Delivered` adds that a row a run has marked DONE is
registered. `Delivery` is then simulated step by step: enqueuing adds an item, a POST
receives it, a commit settles what the run has settled, and all else, a crash
included, is a stutter (`DeliveryStep`). `OwnExtId`, external ids that no two items share,
is the one hypothesis; without it the promise is not kept (finding 1).

`IdentityProofs`, for any accounts, organizations, memberships, tokens, grants and
sessions, and any databases to start from that satisfy `FoundedAssumption`:

| Theorem | Statement |
|---|---|
| `IdentityTyped` | `Spec => []TypeOK` |
| `OneAuthority` | `Spec => []SingleAuthority` |
| `ActiveMembersHaveGroups` | `Spec => []ActiveHasGroup` |
| `GroupsAreRight` | `Spec => []GroupsFollowMemberships` |
| `OneTokenIsOpen` | `Spec => []OneOpenToken` |
| `RevokedIsClosed` | `Spec => []RevokedStaysClosed` |
| `EnabledByTokens` | `Spec => EnabledByAToken` |
| `EnabledAreMembers` | `Spec => EnabledIsMember` |
| `SuspensionsEndContexts` | `Spec => SuspensionEndsContexts` |

The argument has two halves. `Lawful(old, new, at)` says what any request does to
the tables it *sees*: the groups of the accounts it concerns are recomputed, and no
others; an active membership it stores has its owner's role; a token it leaves open is
new and alone; an account is enabled only with a valid token; and so on. It is
proved of each operation of `Membership`, `Invitation` and `PartnerGrant` by
itself (`StoredLawful`, `SuspendedLawful`, `AcceptedLawful`, ..., together `RequestLawful`). `Settled`
says what a commit makes of that in the database: every row is as the database
had it, or was as the request saw it and becomes what the request made of it
(`CommitSettles`, from `Tracked`: what a session has missed contains all that changed since it began).
Then each part of the invariant is shown to survive a lawful change that
settles, without looking at the requests again: parties, grants and tokens
row by row; groups for accounts that are not `blind`, from what `Commit` counts as
hidden; and, if `touch`, one role and all groups per account, from `TouchSeen`: any
change that gives an account an active membership, or changes its groups,
shows as a change of the account's row, so two of them cannot both commit unaware.

What the attempts found. The first invariant for `GroupsFollowMemberships` was not
inductive, for a good reason: `blind` counted the memberships a request had
missed and not the groups, and an account that was given a membership and lost it
again, while a request that changes another of its memberships was running, kept a
group unnoticed. TLC confirmed it on an instance of two memberships;
`Commit` now counts missed groups as hidden, and the code's behaviour there is that of
finding 5. `NextId` of `OrderIngress` chose an id also when none was left; the insert
now needs a free one.

The assumptions on constants are named in the modules that declare them (`...Assumption`):
ids are numbers, limits are positive where the code needs it, functions have
their types, `None` is none of the values it stands beside, sessions are finitely many
(`MaxRequests` bounds how many are open). TLC evaluates them in the runs. No fairness is used.

What stays with TLC, and why:

- liveness (`EventuallySettled`, `EventuallyAnswered`), which needs ENABLED;
- that `touch` is needed, and the findings, which are counterexamples.

## 6. Plan

What is left:

1. Modifier selection and the aggregate over several destinations
   (`aggregate_across_destinations`), as operators against a reference definition.

## 7. Not modelled

- Access rules and groups in XML are evaluated by Odoo; the models stop at the
  groups and flags the rules read. The audit log only grows.
- Of the pages: passwords, mails, the purpose `factor_change`, and ending the HTTP sessions of a
  user, which happens outside the database. Of grants: actions and branches.
- Hashing, key formats and outbound URL checks are pure and stateless.
- Of orders: the event and attempt logs, appended to by nobody on the modelled
  path, `payment_state`, and `apply_trusted_correction`, which nothing calls.
- Permissions and the rate limit of a repeat on demand; traces, metrics and
  reports, which only read. `AttemptTracker` numbers attempts without a lock,
  which is harmless only while one thread repeats; the model counts them in one step.
- Uptime, rounding of amounts, overlapping effective periods and mappings; the
  in-memory `activation_checklist.py`, which is the same logic as the stored one.
- The user interface, connector definitions and the demo.
