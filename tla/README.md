# A verification of the Quick-Bite order service

TLA+ models of the order service, checked with TLC and, for the core, proved
with TLAPS. Source references are to the repository (`src/app/...`,
`src/lib/...`, `docs/business-logic/...`); `PROJECT.json` maps every definition
that models code to its lines.

## 1. The system

An Express process serves HTTP for customers, restaurant members, admins and
delivery agents; a second process (`worker.ts`) runs cron jobs. Either may run
in several copies. They share one PostgreSQL database per region, one Redis and
one RabbitMQ. Two services are outside: *core* (branches, products, stock,
permissions; called over HTTP, heard through events) and *Kashier* (the payment
page and its webhooks). The style is the same everywhere: a handler reads a row
without a lock, checks the copy, perhaps calls another service, and then opens
a short transaction that writes; Redis keys are updated after the commit, one
command at a time. So almost every hard behaviour is one of: another handler
runs between the read and the write, a step after the commit does not happen,
or a message comes twice, late, or not at all.

| Component (source) | State | Operations | Interacts with | What makes it correct |
|---|---|---|---|---|
| Order status machine (`order/service/order-status.service.ts`) | none | `assertTransition` over a table of 14 rules | every writer of `orders.status` | statuses move along the table, by the right actor |
| Order lifecycle (`order/service/order.service.ts`, `order/repository/order.repo.ts`) | `orders`: status, agent, timestamps; outbox rows | `placeOrder`, `updateStatus`, `voidOrderSafe`, reads | core (stock), payment, outbox, settlement, assignment | no step leaves the table; a terminal order stays; stock, events and money follow the status |
| Settlement (`agent/service/settlement.service.ts`) | `transactions`, `restaurant_balances`, `agent_earnings`, `orders.commission` | `settleDelivered` | core (branch fetch), presence, outbox | credited once; the ledger, the order and the balance agree |
| Restaurant finance (`finance/`) | balance, payout transactions | `recordPayout`, reads | settlement | no negative balance; a key pays out once |
| Online payment (`payment/`) | `payment_sessions`, `transactions` (charges), `payment_webhook_events` | `initOnlinePayment`, `processKashierWebhook` | Kashier, order row, outbox | an order is placed iff it was paid; a webhook counts once, and is not lost |
| Assignment (`assignment/`) | Redis `offer:`, `claim:`, `assign:attempts:` keys; `orders.delivery_agent_id` | `tickRegion`/`tryAssign`, `claim`, `reject`, `adminAssign` | presence, order row | one winner, who was offered the order; every ready order is served or alerted; the cap on rounds |
| Presence (`agent/service/presence.service.ts`) | Redis `presence:geo`, `:meta`, `:busy` | `upsert`, `goOffline`, `markBusy`, `clearBusy` | assignment, settlement, order row | an agent offline holds no order; busy while delivering |
| Agent tasks (`agent/service/agent.service.ts`) | none of its own | `accept`, `reject`, `transition`, reads | assignment, settlement | only the order's agent picks up and delivers |
| Job scheduler (`lib/jobs/scheduler.ts`) | which jobs run | start, stop; a tick is dropped while the last runs | all jobs | no job overlaps itself in one process |
| Transactional outbox (`lib/events/`) | `events_outbox` | insert in the writer's transaction; `drainOutboxBatch` | RabbitMQ | every committed event is published, in order per aggregate |
| Core events and caches (`lib/core-events/consumer.ts`, `core-data-cache.service.ts`, `lib/core-client/branch.client.ts`) | Redis caches of branches and products; event dedupe keys | read-through fetches; invalidate and merge on events | core | a change in core is seen in bounded time; no update is lost |
| Core client (`lib/core-client/core-client.ts`, `pkg/utils/retry.ts`) | none | HTTP with retries and an idempotency key | core | retries end; core holds stock for exactly the orders that were announced |
| Idempotency middleware (`lib/idempotency/`) | Redis responses by key | replay or store | `placeOrder` | one order and one answer per key |
| Response cache (`lib/cache/withCache.ts`) | Redis copies of a list for 10 s | serve or fill | branch lists | see section 7 |
| Archival (`lib/jobs/archival.*`) | archive tables, a Redis lock | copy old rows in batches, delete them | every reader and writer of the rows | no row lost; an archived order has its items; last year arrives |
| Pagination (`lib/http/pagination/`, the lists of `order.service.ts`) | the client's cursor | a page of one cluster, or of two merged | archival, new orders | every order once, in order; the walk ends |
| Permission cache (`lib/rbac/`) | an in-process map | read-through, invalidate | core | a revoked permission stops working |
| Sharding (`lib/sharding`, `lib/knex/shards.ts`) | none | region to connection | all | a pure lookup |
| WebSocket gateway, JWT, role checks, validation, logging, RabbitMQ and Kashier clients, DTOs | connections | transport | all | see section 7 |

The hazards, each at its line and with the properties that would catch it, are
in `PROJECT.json` under `hazards`.

## 2. The modules

| Module | Models | Abstract spec | Proofs |
|---|---|---|---|
| `OrderStatus` | the table and `assertTransition` | - | lemmas `EdgeFacts`, `AssertedIsEdge` |
| `OrderMachine` | what the service promises of an order | is one | - |
| `OrderLifecycle` | every writer of the order row, interleaved | `OrderMachine` | `OrderLifecycleProofs` |
| `RestaurantLedger` | what the restaurants' money promises | is one | - |
| `Settlement` | `settleDelivered` and `recordPayout` with amounts | `RestaurantLedger` | `SettlementProofs` |
| `Checkout` | `placeOrder`, the payment session, webhooks, the customer's cancellation | - | `CheckoutProofs` |
| `Assignment` | worker ticks, offers, claims, rejections, counters | - | `AssignmentProofs` |
| `OutboxDrain` | the rows of `events_outbox` from commit to broker | - | `OutboxDrainProofs` |
| `CoreCache` | the caches of branches, products and permissions; core's events from the queue to the handlers | - | `CoreCacheProofs` |
| `Archival` | the nightly move of rows, updates of them, the lookup of an order | - | `ClusterProofs` |
| `Requests` | a placement and its repetitions: middleware, saga, calls to core | - | `RequestsProofs` |
| `Pagination` | a client's walk through a list | - | `ClusterProofs` |

`OrderLifecycle` composes the handlers of five services over the row they
share. `Settlement`, `Checkout` and `Assignment` each refine one stretch of the
lifecycle with the state it leaves out (amounts; sessions, charges and stock;
offers and counters), and abstract the rest of the row. `OutboxDrain` takes over
where each of them ends: what they record as written events becomes its rows.
`Requests` looks at the saga of `Checkout` from outside, through the middleware
in front of it and the client of core beneath it: there a stock call is one step
with three outcomes, here its attempts, timeouts and late arrivals are steps and
the payment is left out. `Pagination` uses of the archiver that a row's move
becomes visible at once (`MoveToArchive`); `Archival` has its steps.

### How steps correspond to code

A handler becomes one action per stretch between two points where other
handlers can run: the read and check (`ReadForUpdate`, `ReadPicked`,
`ReadOrderAndSession`, ...), the transaction (`CommitStatus`,
`CommitSettlement`, `CommitReconcile`, ...), and each call after it
(`ReleaseStock`, `MarkBusy`, `ClearBusy`, `DropClaimKey`, ...). A request in
flight is a record: the step it is at and what it has read. A transaction is
one step because its first statement takes the lock on the row; what it
rechecks under the lock (`WHERE status = 'ready' AND delivery_agent_id IS
NULL` in `claimReadyOrderForAgent`, the balance floor in
`decrementIfSufficient`) is a guard of the step, and what it does not recheck
is not. A failed call or a dead process is an action that drops the request
where it stands (`Crash`, `AbortSettlement`, `PlaceCrash`, `WebhookFails`,
`RequestCrash`, `WorkerCrash`), so every prefix of a handler's steps is a
behaviour.

- **`OrderLifecycle`.** `status`, `agent`, `acceptedAt` are columns; `credits`
  counts committed settlements, `events` is the set of outbox rows, `released`
  the orders whose stock went back, `claimKey` and `busy` are Redis. The actors
  are all of `PATCH .../status` with every actor and target, the webhook,
  claims and admin assignments, the agent's pick-up and delivery, and
  `goOffline`, whose three steps (check, reset, forget presence) interleave with
  everything else.
- **`Settlement`.** The columns a settlement writes, with amounts. Unique
  indexes with `ON CONFLICT DO NOTHING` are `InsertIgnore`; the increment of the
  balance is unconditional, as in the code, but refused beyond the INT range.
- **`Checkout`.** The saga of `placeOrder` (reserve, insert, open session, and
  the undo steps void and release whose failures are swallowed), the webhook
  from its recording to its stamp, and one cancellation per order.
- **`Assignment`.** The tick of each worker process is a record (its batch, the
  order it is at, the step, the candidates found); each Redis command is a step.
  `rounds`, `entitled` and `alerted` are history variables that no guard reads
  except `AttemptsExpire` (section 4).

- **`OutboxDrain`.** A drain is a record: the rows it has locked, those it has
  still to publish, those it has published. `SKIP LOCKED` is `Locked`; the commit
  marks what was published and nothing else. A publication that is rejected ends
  the batch (the broker may have the message or not), one whose confirm is lost
  with the connection is repeated by the client. The locks of a process that dies
  outlive it (`orphaned`). `concurrent` is a history variable.
- **`CoreCache`.** A datum is the number of its last change, so "stale" is "less
  than core's". A behaviour has one branch, one product and one role, and its
  requests use the key `scope`. An event is queued, taken by a process (up to
  the prefetch), seen (`MarkSeen`, the dedupe key, before the handler), in a
  handler, acknowledged or dead; each Redis command of a handler is a step. A
  request fetches, then fills: between the two any event may be handled
  (`late`). `disorder` (two events of a key in hand together, or one lost,
  replayed or redelivered) and `raced` (a fill that began before a handler) are
  history variables.
- **`Archival`.** A row is a version in the hot database and one in the archive.
  A run takes the lock, and then for each table in turn selects a batch, inserts
  it, deletes it: three steps, with updates, other runs and the lookup between
  them. The three tables stand for six: the others behave as `transactions` do.
- **`Requests`.** A run is the handling of one copy of the request. `late` holds
  the calls to core whose client has given up and that may still be applied.
  `exposed` is a history variable: the stored response failed to cover a
  repetition.
- **`Pagination`.** A page is one step (it is one query, or two at once);
  `created_at` is a tick, the cursor is cut to `PerMs` ticks. `times`, `always`
  and `edges` are history variables.

`overlapped` in `Settlement` and `Checkout` is a history variable: the orders
two of whose requests were ever in progress at the same time. `Isolated` in
`OrderLifecycle` and `Assignment` is a constant that restricts the environment
to requests that do not overlap on one order (or agent). Neither stands for
anything in the code: the service has no lock that prevents overlaps. They
separate what the code guarantees always from what it guarantees only then.
`disorder`, `raced`, `overrun`, `touched` and `exposed` do the same in the newer
modules: each is set by the steps that open a window the code does not close.

## 3. What the runs show

`tlc -config <cfg> <module>`; all with deadlock checking off, because a finished
system stops: every order ends, every webhook is acknowledged, every list has a
last page.

| Run | Instance | Shows |
|---|---|---|
| `lifecycle_overlap` | 1 order, 2 agents, 2 requests, free overlap | no direct handover; `order.delivered` iff credited |
| `lifecycle_isolated` | 2 orders, 2 agents, 2 requests, no overlap | refinement of `OrderMachine`; one credit; stock of dead orders only; offline agents hold nothing |
| `settlement` | 3 orders on 2 accounts, 2 requests, 2 payout keys, balance column of 0..4 | see below |
| `settlement_doublecredit` | the same | **violated**: two overlapping deliveries credit twice |
| `checkout` | an online order with a failed and a captured attempt, a COD order, 2 webhook deliveries at once, all faults | see below; and, until a call fails, that a captured first payment places its order unless cancelled |
| `assignment` | 1 order, 2 agents, 2 workers, 1 request, all faults | the cap (plus one per further worker), who may win, offers not overwritten |
| `assignment_live` | 1 order, 2 workers, no faults | every ready order is claimed, cancelled or alerted |
| `outbox` | 4 events of 2 orders, 2 processes, batch of 2, 2 faults | no event lost, extra copies owed to faults, nothing dispatched is repeated, order per order without overlap, every event dispatched |
| `cache` | 2 processes, prefetch 2, 1 request at a time, 2 changes in core, 2 faults | a cached value is behind core only while its event is to come, or for a reason the history variables name (a role, also in a process that did not take the event); a closed branch takes no order even then; a price is never half an entry; every event is settled |
| `archival` | 2 orders, each of this year or the last, 2 workers, batch of 1, 1 update, 2 faults | no row is lost; one mover until a lock lapses; the lookup finds every order, from the archive with its items; last year arrives |
| `requests` | a request and one repetition, 1 unit of stock, 3 attempts per call, 3 faults | one live order and one answer while the stored response covers the repetitions; stock agrees with the answer always; every run is answered |
| `pagination` | 3 orders, milliseconds of 2 ticks, the year opens with the second; pages of 1 and 2, 5 sources, both directions | ties returned once when timestamps are whole milliseconds; pages in order, and the first page across clusters the first of the merged list; the walk ends |

**Bounds, and why they are enough.** The properties relate at most two
requests, two agents or two orders: a race needs two parties, a handover two
agents, a credit to the wrong account two accounts, a payout that races a
settlement one of each. One order suffices where overlap on one row is the
question and orders share nothing else (`lifecycle_overlap`, `assignment`); two
are used where agents or accounts connect them. Subtotals are chosen so that a
commission rounds (3 and 2 at 5000 bps), fees so that one is zero (the code
books no row), the INT maximum so that one credit fits and two do not unless a
payout comes between. `MaxCredits` bounds `credits` by a guard; it is 1 in
`lifecycle_overlap`, whose properties tell only zero from more, and 2 in
`lifecycle_isolated`, where a second credit must be possible for its absence to
mean something. `MaxAttempts = 1` reaches the cap after one round.
In `outbox` a batch of two takes events of both orders or of one, and leaves
others for the other process; two faults are enough for a retry that fails again.
In `cache` two changes make a later event overtake an earlier one, or a merge of
a price meet one of a stock; two faults make a failure and a replay, or a death
and a lapsed dedupe key. In `archival` a batch of one puts every step of one
order's move between two of another's, and two faults are a lock that lapses
and a run that hangs past it, or a crash and a failed delete. In `requests` one
unit makes two executions compete and the second be refused; three faults
combine a failed SET, a death and an expiry. In `pagination` two ticks to a
millisecond are what a cursor cannot tell apart, two milliseconds put an order
before, at and after it, and three orders give a page, its extra row and one
beyond. Symmetry is declared only in runs without liveness.

**What the code does under overlap.** `settlement` and `checkout` check all at
once: whatever overlaps and fails, balances stay within the column, what a
delivered order has booked is never changed or repeated, an online order is
placed only when paid and announced exactly once, and a webhook stamped as
processed left a charge on its order. For orders that no overlap has touched,
more: the balance can be recomputed, a placed order holds its stock, a succeeded
charge has its captured session, and the tables implement `RestaurantLedger`.

A run checks what is deepest; what is proved and follows from it, or was checked
while the proof was made, is stated in the module without a run: the type
invariants of the modules with proofs, `AssignedHasAgent`, `AgentMatchesStatus`,
`OneEnding`, `CommissionWithinSubtotal`, `CommissionAgrees`, `AnnouncedOnce`,
`DispatchedForGood`, `ArchivedOrderHasItems`.

Each property of a passing run has a mutant in `PROJECT.json`: an operator
beside the original that makes a plausible mistake (a lost guard, an
overwriting insert, an off-by-one cap, SET without NX) and that violates it.

### Disagreements between text and code

With a run (see `findings` for the quotes): `settlement_doublecredit`. Met while
modelling, without a run of their own:

- `orders.md:183` says the status sequence is monotonic. `updateStatus` checks
  the status it read and then writes unconditionally, so two overlapping
  requests may overwrite `cancelled`, `rejected` or `delivered`.
- `kashier-webhook.service.ts:45` says a failed webhook is stamped and re-thrown
  so that Kashier retries; the retry is answered as a duplicate, because the row
  of the first delivery is already there, and nothing reconciles it.
- `payments.md:82` says a failed order is eligible for retry. The failed attempt
  closes the session, and a second, captured one finds no active session: it is
  stamped as processed and never booked.
- `order-status.service.ts:15` says `delivered` is not reachable through the
  public PATCH; the order's own agent may send it to the customer route
  (`order/routes.ts:40-46`, `resolveStatusActor`), and then nothing is settled.
- `deliveries.md:114` equates `presence:busy` with holding an order; an admin's
  cancellation of an assigned order leaves the agent busy for ever, and so does
  a crash between the commit of a delivery and `clearBusy`.
- `deliveries.md:71` says going offline deletes the claim key; the code leaves
  it to its TTL, and until then every claim of the ready order is refused.
- `deliveries.md:73` says the maximum caps the broadcast rounds; each worker
  process beyond the first may add one (`RoundsBounded` states the true bound).
- `deliveries.md:58` says a live offer is not overwritten; `reject` writes back
  the offer it read, whatever happened to the key since.
- `deliveries.md:72` says an order put back to ready is picked up on the next
  tick; the batch is the oldest ready rows (`order.repo.ts:138`), exhausted ones
  included, so exhausted orders that fill it starve every newer one.
  `ReadyIsServed` is therefore checked with no more orders than the batch takes.
- `payments.md:148`: a failed webhook that overlaps a successful one overwrites
  the captured session (`SucceededIsCaptured` holds only without overlap).
- `order.service.ts:110` says stock MUST be released on failure; a reservation
  that timed out after core applied it is outside the `try`, and a failed
  release is swallowed.
- `orders.md:175` and `:201` promise a refund on cancellation, `:185` a sweep of
  stale `pending_payment` orders; the code has neither.
- `system-design.md` says events of core are handled at least once, and
  `consumer.ts:9` that all handlers are idempotent invalidations; the dedupe key
  is set before the handler, so a redelivery after a death is skipped: at most
  once. Two of the handlers merge, and renew the entry's TTL.
- `permission-cache.service.ts:14-16` says the event keeps the cache fresh; the
  queue is shared, so it reaches one process and the others keep a revoked
  permission for an hour.
- `implementation-plan.md:233` says a key replays its response and a different
  body is a 409. The body is not looked at; whatever was answered first is
  stored, a transient 503 too, and replayed with status 200 for a day; and two
  requests that overlap are both executed.
- `system-design.md:149` says the client of core never mutates; `reserveStock`
  and `releaseStock` do.
- `archival.worker.ts:10-12` says children go before their parents; a ledger row
  written this year for an order of last year stays hot when its order goes.
  While a run is between the two tables, `getOrder` shows an order that is still
  hot without its items. Orders of last year still in progress are moved too,
  and an update between SELECT and DELETE is lost with the hot row.
- `cursor-pagination.ts:45-54` says a cursor can neither skip nor repeat a tied
  row. `created_at` has microseconds and the cursor milliseconds: oldest first,
  the row at the cursor comes again (and with a page no larger than the rows of
  its millisecond the walk never ends, which is why `WalkEnds` excepts it);
  newest first, rows of its millisecond may be skipped. Across clusters the next
  cursor is computed from pages already cut, so it may be absent although there
  is more, and rows of last year not yet moved are in neither part.
- `invalidateBranchOrdersCache` (`order.service.ts:63-64` and `:535-539`) deletes
  `/api/restaurant/orders?branchId=`; the list is cached under
  `/api/restaurants/:id/branches/:id/orders` (`order/routes.ts:50-57`).

## 4. Fairness and assumptions

- `Checkout!FairSpec`: weak fairness of a started `placeOrder`, webhook handler
  and cancellation (an awaited promise settles; Node keeps running the handler)
  and of Kashier's redelivery until it is answered with 200. Nothing forces a
  customer to pay or to cancel. `PaidIsPlaced` is claimed of behaviours in which
  no call has failed (`faulted`): after a failure the retry is taken for a
  duplicate, and the payment stays unplaced.
- `Assignment!FairSpec`: weak fairness of each worker's tick (cron fires again
  and again), of its steps, of a started request, and of the TTLs of the offer
  and claim keys (Redis expires them). The attempts counter's expiry is not fair:
  it must not help.
- `OutboxDrain!FairSpec`: weak fairness of the claim (the job fires every few
  seconds), of the next publication (the broker comes back; `MaxFaults` bounds
  what goes wrong before), of the commit, and of the server that rolls back the
  transactions of lost connections. A row the broker never accepts is outside
  this: it would head every batch and block all rows behind it.
- `CoreCache!FairSpec`: weak fairness of each event's next step (some process is
  connected and its event loop runs). Requests, expiries and replays are not fair.
- `Archival!Fairness`: weak fairness of a run's steps, of the job that starts
  one (cron fires every night in every worker), and of the lock's TTL. Failures
  are bounded by `MaxFaults`; a table that fails every night would block the
  tables behind it.
- `Requests!FairSpec`: weak fairness of a run's handler: every call to core ends
  by an answer or by its timeout. Nothing is assumed of calls that are late.
- `Pagination!FairWalk`: the client asks for the next page while there is one.
- The rows of one order become visible in the order of their ids, because every
  writer holds the lock of the order's row when it inserts them.
- A transaction that fails leaves nothing behind.
- Kashier captures at most one payment of a session.
- `commissionBps` and the agent's share are at most 10000. Core's answer is not
  validated by the service: with a larger rate the net credit would be negative.
- The attempts counter's TTL of an hour outlasts a tick, and without faults the
  rounds up to the alert (`AttemptsExpire`). Its INCR and EXPIRE are one step: a
  death between them leaves a counter that never expires, and the expiry has no
  fairness, so that is a behaviour already.
- Core applies the stock calls of one idempotency key once and answers every
  copy of them alike; it numbers its changes, and its events carry what changed.
- The flag of a closed branch lives seven days, longer than a behaviour; the
  budget of an archival run is an hour at 03:00, so the year does not turn in it.
- Two reads in a row without a write between (the order and its session in
  `reconcile`) are one step: a change between them could as well come after.

## 5. What is proved

For every value of the constants, from the module's named `ASSUME` only.

- **`OrderLifecycle`, any overlap.** `TypeCorrect`; `AssignedAlwaysHasAgent`
  and `NeverHandedOver`, which rest on who writes the two columns: only the
  conditional UPDATE of a claim sets the agent, and `updateStatus` can reach
  neither `assigned` nor `placed` because no caller is the system
  (`CallerTargets`); `CreditAndEventTogether`.
- **`OrderLifecycle`, isolated.** `IsolatedInv` is inductive. None of the
  safety properties is so alone: a settlement credits once only because what it
  read is still true when it commits. So the invariant carries `SnapshotFresh`
  (what a request in flight has read still holds), which needs `Apart` (no two
  requests on one order) and `OfflineApart` (no request on an agent going
  offline), and `EndingIsStatus` and `OfflineProgress` for `OneEnding` and
  `OfflineHoldsNothing`. `IsolatedSafety` draws the invariants,
  `IsolatedRefinement` the implementation of `OrderMachine`.
- **`Settlement`, any overlap.** `IInv` adds to the properties `FeeWithin` (a
  delivery in flight carries a commission within its order's subtotal, from
  `ShareBounds`), `Booked` and `NothingEarly` (a picked order has no rows, so
  the first insert wins and is complete). It gives `BalanceAlwaysInRange`,
  `CommissionAlwaysWithin` and the action property `AlwaysBookedForGood`.
- **`Settlement`, orders not overlapped.** `StillPicked` (the order of a
  delivery in flight is still picked and has no other) and `SettledOnce` are
  inductive on top of it and give `AlwaysAnnouncedOnce`,
  `CommissionAlwaysAgrees` and `LedgerImplemented`, the refinement.
- **`Settlement`, an account at a time.** `BalanceAlwaysAuditable`: the balance
  is the library's sum over the settled orders less that over the payouts, for
  any number of both. `Books` is inductive on top of the two invariants above:
  a settlement adds one order that was not settled (`StillPicked`) at what its
  new row says (`SettledOnce`), a payout one key that paid nothing. What it
  needs of sums is proved in the module: the fold is well defined over a finite
  set (`RecursExists`), any element may come first (`TotalRemove`), and only the
  values on the set count (`TotalSame`). The inductions go by `SetInduction`,
  in which a set of sets stands for the predicate that the library's own
  induction theorems take as an operator.
- **`Checkout`, any overlap and fault.** `IInv` adds `AnnouncedIsPaid`,
  `NotYetInserted` and `SentIsAnswered` (a webhook comes only for an answered
  order). It gives `TypeCorrect` (with `placed` at most 1: announced once),
  `PlacedAlwaysPaid` and `PlacedAlwaysAnnounced`. (`FaultedType`: the history of
  faults is a Boolean, apart, because it needs another prover.)
  `AccountInv` adds `PlacedIsAnswered` (the restaurant sees only orders whose
  request was answered, charges come only from attempts that were made) and
  `SessionIsAccounted` (a session no longer open has a charge on its order, and
  a webhook about to be stamped has written it), and gives
  `StampedAlwaysAccounted`.
- **`Checkout`, orders not overlapped.** Neither property is inductive alone,
  because a reconciliation writes what it read. `AloneInv` says, of an order
  none of whose requests overlapped: one request at a time (`OneAtATime`), what
  it read is still so (`StillRead`), and stock is reserved from the insert to
  the cancellation (`StockHeld`). It gives `PlacedAlwaysHoldsStock` and
  `SucceededAlwaysCaptured`, whatever fails.
- **`OutboxDrain`, any number of events, drains and faults.** `IInv` adds to the
  properties `RowsApart` (a row is dispatched, orphaned, or in one drain at
  most), `CopiesOwed` (an event neither dispatched nor published by an open drain
  has no more copies than faults; without it a second publication after a
  rollback could not be told from one of two drains), and `TodoFollows` (no
  older sibling of what a drain still has to publish is left out, because
  `Oldest` takes with a row every older one, `OldestClosed`). It gives
  `DispatchedAlwaysPublished`, `CopiesAlwaysFaults` and the action properties
  `AlwaysDispatchedForGood` and `FirstCopiesAlwaysInOrder`.

- **`Archival`, any orders, processes, batch, updates and faults.** `IInv` adds
  to the properties `BatchIsArchived` (what a run is about to delete, the archive
  has: the reason that no death loses a row), `CopiesAreLatest` (a copy is behind
  the last update only if the update came after it was read), `YearShape` and
  `ItemsMoved` (items are stamped with their order's date and their table comes
  first; once a run is past it, `ShortBatchIsAll` says that none was left),
  `BatchShape`, `LockHeld` and `LookupKnows`. It gives `NothingEverLost`,
  `ArchivedOrderAlwaysHasItems`, `OneMoverAtATime`, `LookupAlwaysFinds`.
- **`Requests`, any stock and number of repetitions and faults.** `IInv` has core's
  books, `StockAddsUp` (what is left and the units held make the stock, a
  cardinality) and `HeldAsAsked` (a unit is held iff core made the reservation and
  not the release), then `RunShape` (what core may have heard of a run at each of
  its steps), `BodiesAreTrue` (what is stored is of a run that placed its order), and, while
  nothing exposed the repetitions, `Covered` (behind a stored order nobody else
  places). It gives `AlwaysOneOrderOneAnswer` and `StockAlwaysMatches`.
- **`Assignment`, any failure and overlap.** `Counted`: broadcasts told or about
  to be told do not exceed the counter, and the counter plus the workers past its
  check stay below the cap plus the workers. Neither half is inductive without
  the other's workers counted. It gives `RoundsAlwaysBounded`.
- **`Assignment`, isolated.** `IsolatedInv`: `Apart` (no two requests about one
  order), `RejectFresh` (the offer a reject read is still the offer when it
  writes), `OffersEntitled`, `AcceptEntitled`. It gives `LiveOfferNeverGrown` and
  `WinnerAlwaysEntitled`.
- **`CoreCache`, any number of changes, processes and faults.** `BaseInv` is
  types and `Numbered`: the events of a datum are its changes, in their order.
  On top of it,
  `Sounds` (every entry, and every copy a handler or a request holds of one, is
  made of values core had, all of them if it is full) gives
  `PricedAlwaysWhole`. `InOrder` (unless something of the key was lost, replayed
  or handled together, events are taken in their order and a handler reads or
  writes an entry only after all before it are acknowledged) is what the other two rest on: with `FlagFollows` (the closed
  flag is what the last acknowledged event made it) and `ShutIsClosed` it gives
  `NoOrderAlwaysOnceClosed`; with `Fresh`, `StaleAlwaysAnnounced`. `Fresh` has
  to speak of more than the caches: what a handler read in order to merge into
  it, and what a request fetched and is about to store, is also behind core only
  if a newer change is still to be handled.

- **`Pagination`, any orders, page sizes and precision of `created_at`.** A page
  is `IsFirst` of what remains behind the cursor: in order, and what it leaves
  out follows its last order. That rests on a sorted sequence of finitely many
  orders existing (`SortExists`, by `SetInduction`: of a strict order, total on
  distinct ids, one is last), on cutting it (`FirstOf`), and across clusters on
  the archive's orders being older (`MergedFirst`, `AcrossOrder`); the cut of
  the cursor to milliseconds costs what `BehindCursor` and `CursorBehind` say.
  `WalkInv` adds to the properties `RowsApart`, `CursorFollows` (the cursor is
  the last page's last order), `AlwaysListed` and `Returned`, the property
  before the walk's end: what was listed throughout and is not behind the cursor
  was returned. It gives `WalkTypeCorrect`, `TiesAlwaysReturnedOnce` and
  `PagesAlwaysInOrder`. The theorems share `ClusterProofs` with those of
  `Archival`; that is why the walk's definitions have names of their own
  (`WalkInit`, `WalkNext`, `WalkSpec`).

Only model-checked: liveness (`PaidIsPlaced`, `ReadyIsServed`,
`VisibleIsDispatched`, `EventsAreSettled`, `LastYearIsArchived`, `IsAnswered`,
`WalkEnds`), which the prover does not reach.

## 6. Plan

The lifecycle, the money, the checkout, the assignment, the outbox, the caches,
the archival, the requests and the pagination are modelled, and every safety
property of the passing runs is a theorem. What is left:
`NoOrderOnceClosed` and `StaleIsAnnounced` for behaviours about several keys at
once: the model has one, and its keys do not meet.

## 7. Not modelled, and why

WebSocket messages are fire-and-forget after a commit and nothing reads them
back. JWT and role checks, request validation, error handling and logging are
stateless and precede every change of state. The RabbitMQ, Redis, knex and
Kashier clients are adapters; what they do is in the modules that call them.
DTOs are layout, and so are the earnings report and the finance reads. The
response cache (`withCache`) keeps the answer of a branch list for ten seconds
and changes nothing; no step deletes the key it uses. Sharding is a lookup:
every module is about one region, and no operation spans two. The start and stop
of the scheduler happen once in a process. Migrations and configuration give the
unique indexes, column types and constants that the modules use. Filters of the
lists only narrow their rows. Distances of agents are abstracted: any agent
present may be near.
