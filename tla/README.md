# Verification of the mini order service

TLA+ specifications of the order service in `src/`, the TLC runs that check
them on small instances, and TLAPS proofs of their safety properties for every
instance. All code is cited by its path under `src/`.

## 1. Inventory

The service is a pipeline of three programs that share a Postgres database and
a Kafka broker:

    client -> API -> [products, orders, order_items, outbox_messages]
                          |
                     outbox workers -> orders.events -> consumer -> [notifications]
                                                            |
                                                     orders.events.dlq

| Component | State | Operations | Interacts through | What is hard | What makes it correct |
|---|---|---|---|---|---|
| Order placement (`app/services/order_service.py`, repositories, models, `app/api/schemas/order.py`) | `products.stock`, `orders`, `order_items`, one transaction per call with its row locks and its uncommitted row | `create_order`: replay look-up, insert and flush, lock products, reject or decrement, flush, outbox row, commit; recovery after a unique violation | Postgres: READ COMMITTED, a unique index, `FOR UPDATE` | interleaved transactions with the same key or the same products, lost connections, a COMMIT whose answer is lost, deadlock, pool exhaustion | stock conserved; one order per key and the same answer to every call with it; order and event together; no deadlock; every call answered |
| Products (`product_service.py`) | `products` | `create_product`, listings | Postgres | a product appears while calls run | part of the above |
| Transactional outbox (`core/events.py`, `models/outbox_message.py`, `repositories/outbox_repository.py`) | `outbox_messages`: status, attempts, available_at | inserted with its order, claimed, settled | Postgres | it shares the fate of its order | an event exists exactly when the order does |
| Outbox workers (`services/outbox_publisher.py`, `workers/outbox_publisher.py`) | the claimed batch, `now`, the results of the sends | claim, send, time out, settle; failed cycle, crash, restart | `SKIP LOCKED` claims; Kafka sends inside the transaction | several workers; a batch-wide timeout; records appended after their sender gave up; transactions lost while sending | nothing marked published is missing; duplicates only where a failure explains them; final fates; no row forgotten |
| Notification consumer (`services/notification_consumer.py`, `workers/notification_consumer.py`, `repositories/notification_repository.py`) | position in the batch, attempt counters, committed offset; `notifications`, the dead letter topic | poll, attempt, store, skip, dead-letter, retry, commit; SIGTERM, crash, restart | consumer group, `ON CONFLICT DO NOTHING` | rebalance in mid-batch, crash before commit, poisonous records, transient errors | no record skipped, no event notified twice, no record blocks the partition |
| Back-off (`core/backoff.py`) | none | `retry_ceiling`, `retry_delay`, `next_attempt_at` | a clock | a stale `now`; a ceiling that overflows a float | a refused row waits; an outage is waited out |
| HTTP layer (`api/schemas`, `api/routers`, `api/errors.py`) | none of its own | validation, the fingerprint of a payload, the loop over its item list, responses with their amounts (`core/money.py`), statuses | the order and product services | lists against baskets; objects of a session against the rows that its flushes leave; values at the limits of their columns, and amounts between two cents | a repeated call is a replay, however it lists its items; an order or a product looks the same to whoever sees it; a 500 is due to a value that no column of the type can hold, never to a check, a key or a length |
| The pipeline (`docker-compose.yml`, `tests/integration/test_end_to_end.py`) | all of the above | a call, a row, a record, a notification | the outbox table and the topic | a failure of one part while another works on the same event | no event lost between the parts; one notification for a key |
| Settings, engine | the connection pool | | | pool size | constants of the models |
| Migration | the constraints of the tables | once, before everything else | | | constraints modelled with the HTTP layer |
| Logging | none | | | | not modelled |

## 2. Modules

* `OrderLedger.tla`: what POST /orders promises, each call one atomic step on
  the committed tables.
* `OrderService.tla`: the transactions. One action per SQL statement of
  `create_order`; `phase[r]` is the statement call `r` is about to execute, or
  its answer. `locked` and `seen` are the row locks of `SELECT ... FOR UPDATE`
  and the stock read under them. An uncommitted orders row is not a variable:
  it exists exactly in the phases `lock` and `commit` (`KeyHolders`). The
  commit applies a call's writes. `ImplementsLedger` is the refinement of
  `OrderLedger`: an answer is "pending" until the phase is an answer, all else
  maps to itself.
* `OutboxPublisher.tla`: the workers, the rows and what the workers can see of
  Kafka. A send is `flying`, `appended`, `acked` or `failed`; a request whose
  sender gave up becomes a `stray` that may be appended later. Time is
  relative: `due[m]` is the time left until `available_at`, `elapsed[w]` the
  age of the worker's `now`, both capped by the longest back-off, so the clock
  needs no bound. A delay is drawn from 1 to its ceiling, in whole ticks, for
  each row by its own count of attempts (`Delays`): the code draws a real
  number from 0 to the ceiling, here rounded up. The results of a batch are
  kept by row, as `zip(..., strict=True)` pairs them. A COMMIT whose
  answer is lost is `Settle`: the worker's memory of the cycle is gone either
  way. SIGTERM ends a worker between two cycles, as a `Crash` of an idle one.
* `NotificationConsumer.tla`: the members of the consumer group and one
  partition. `pc[c]` is the place in the worker's loop or in `process()`.
  The log grows while the members read it (`Produce`). `Assign` may take the
  partition from a member in mid-batch, who goes on with the records in its
  hands until its commit fails. A transient error leads through `_pause()`
  back to another attempt; what matters is that the row may have been stored
  before the error was raised (`Halfway`), and that the delay of the attempt
  after `MaxWaits` cannot be computed (`PauseOverflows`).
* `OrderDelivery.tla`: what the service promises about an order, in three
  variables: placed, notified at most once or parked, and one of the two in
  the end.
* `OrderPipeline.tla`: the composition. `Service`, `Publisher` and `Consumer`
  are instances of the three modules above over the variables of one module;
  an order, its outbox row and its event have the name of the call that
  created the order. `Commit` joins the commit of a call, acknowledged or not,
  with `Insert` of the outbox (the transaction of `create_order`), `Arrive`
  joins an append of the workers with `Produce` of the partition; every other
  step is one part's own.
  `ImplementsDelivery` is the refinement of `OrderDelivery`: `stored` are its
  notifications, failed rows and dead letters its parked orders.
* `OrderApi.tla`: the HTTP side, one call after the other, with what the other
  modules abstract from: item lists, names, keys, prices, totals, the
  fingerprint, the constraints of the tables, the responses. `payload[r]` is
  what is sent, `products`, `orders` and `orderItems` are the tables, `views`
  every `OrderResponse` a client has seen. `sorted()` is written as positions
  (`Position`, `Sorted`), and the loop over the items as sums: what it takes
  of a product (`TakenOf`) and the total it adds up (`Total`), with
  `SumFunction` of the community modules. An object of the session and a row
  are two things: `Added` and `Filled` are the order at the first flush and
  after the loop, `Flushed(r, n)` what the n-th flush finds of it, `OrderRow`
  and `ItemRows` what the columns make of that. The answer to a created order
  is made of the object as it is after the commit, every other view of the
  rows (`Stored`). Amounts are in tenths of a cent, so that there are some
  that a column rounds (`ToColumn`, a half upwards) and a response rounds
  (`format_amount`, a half to even). Lengths of names, keys and fingerprints
  are numbers, a missing key has length 0, and a name may have blanks around
  it or a NUL in it. `ImplementsLedger` maps lists to baskets (`Ledger...`).
* `MC*.tla` and `*.cfg`: instances for TLC.
* `OrderServiceProofs.tla`, `OutboxPublisherProofs.tla`,
  `NotificationConsumerProofs.tla`, `OrderPipelineProofs.tla`,
  `OrderApiProofs.tla`: theorems. `SumTheorems.tla`: the theory of sums that
  two of them share.

Operators introduced by a comment "Mistake: ..." are plausible bugs of the
definition that follows them. They are not part of any specification: put in
place of that definition, each makes a property of the module fail, which
shows that the property is about the code.

## 3. Runs

| Run | Instance | What it shows |
|---|---|---|
| `orders_safety` | 3 calls, 2 keys, 3 products, 5 baskets, symmetric in calls and keys | types, conservation of stock, idempotent replies, recovery always finds its order, no deadlock, the proofs' invariant, stock moves only with orders, refinement of the ledger |
| `orders_live` | 3 calls, 2 keys, 2 products, 2 connections | every call is answered |
| `outbox_safety` | 2 rows, 2 workers, batch 2, 3 attempts, 1 loss | published rows are on the topic, failed means exhausted, exclusive claims, duplicates accounted for, final fates, the proofs' invariant |
| `outbox_live` | 2 rows, 2 workers, batch 1, 2 attempts, 1 loss | every row is settled |
| `consumer_safety` | 2 members, every log of up to 3 records over 2 events, 2 attempts, 2 faults | nothing skipped, notified once, the proofs' invariant |
| `consumer_live` | 2 members, every log of up to 2 records | every record is settled |
| `pipeline` | the transactions of 2 calls with one key and one basket, 1 worker, 1 consumer, a topic of 3 records, 1 attempt of each, 1 loss, 2 faults | no event lost between the parts, one notification for the key, the proofs' invariant, refinement of the delivery with its liveness |
| `api` | every 3 of 13 payloads, 6 products, symmetric in calls | repeated calls are replays, views agree, products are listed as answered, only what no column can hold fails, the proofs' invariant, refinement of the ledger |
| `outbox_failed_but_sent`, `outbox_acked_but_charged`, `outbox_retry_at_once`, `consumer_outage` | small | a sentence of `src/README.md` that the code does not keep (section 6) |

The bounds. Three calls are enough for two that share a key (or products) and
a third that disturbs them, and for a cycle of three row locks; the baskets
ask for the products in every pair, for more than half of the supply, and for
an amount `Numeric(12, 2)` refuses (10 stands for its limit). Two workers and
two rows give batches that overlap and are split; three attempts have a first,
a middle and a last, and with a back-off of 2 capped at 3 the second delay is
one that the cap shortens; the losses bound connections, commits and processes lost.
Three records make batches with records before and behind the current one;
two faults allow a rebalance and a rebalance back, or a crash after one.
`MaxWaits` is 1024 in the code (attempt 1024 waits by 2.0 ** 1023, the last
power that is a float) and 1 or 3 here.

`pipeline` is the product of three state spaces, so each part is at its
smallest: what matters there is a failure of one part between two steps of
another. Three records are the copy of the order and two duplicates of it. With one attempt a refused row is failed at once; retries
of the same row after a crash or a lost transaction remain, and further
attempts are the subject of `outbox_safety`. The proofs of section 5 cover
every other size.

`api` takes 2 for the greatest length, 10 cents for the largest amount, 3 for
the largest quantity and 5 for the largest integer of a column. Its payloads
have no items, a product twice, two products in both orders, a quantity above
the limit, no key, a key that is too long, a quantity below and at the stock
(above it once another call has bought), a total below and above the limit,
and a product that does not exist (yet, or ever). Its products have a name
with blanks around it, which fits once they are stripped, a price whose
multiple is too much, a stock that overflows, a NUL in the name, a price with
half a cent, which is refused, and a name that is too long. One length above 1
is enough for a name or a key that is admitted, too long or empty; the proofs
cover all others.

`MaxLosses` and `MaxFaults` bound how often the environment fails and
`LogSize` how many records are produced; every other count is bounded by the
code itself. Deadlock is not checked, because all the systems come to rest:
every call answered, every row settled, every record committed.

Fairness. `OrderService`: each call proceeds when it can (the event loop runs,
Postgres serves lock queues); nothing forces failures or products to occur.
`OutboxPublisher`: the loop polls, `wait_for` ends every send phase, docker's
`restart: unless-stopped` restarts a worker, time passes; the broker owes
nothing, not even an answer. `NotificationConsumer`: the coordinator finds an
owner for an orphaned partition, the loop runs, docker restarts it; and
handling a record does not end in a transient error for ever (strong fairness
of `Handle \/ FailUnexpectedly`, since retries go through other steps). Which
of success and unexpected failure it is remains open, so a record that fails
every time is among the behaviours checked. Where a commit can fail for an
owner, the failures are counted as faults, and so is each outage of more than
`MaxWaits` attempts: an outage without end is outside every liveness claim.
`OrderPipeline` has the fairness of the workers and of the group and adds
none: a client need not call, and a call need not be answered. A full topic (`LogSize`) refuses every append,
which the workers see as a silent broker.

## 4. Properties

`OrderService`
* `NoOversell`: the stock left and the quantities of the recorded orders add
  up to the supply.
* `StockFollowsOrders`: stock moves only in the step that records an order, by
  its quantities.
* `IdempotentReplies`: one key, one order; whoever is shown an order for the
  key is shown that one, and asked for that very basket.
* `RecoveryFindsOrder`: the re-raise at `order_service.py:81` is unreachable.
* `NoDeadlock`: no set of open transactions waits for itself through row locks
  and uncommitted keys.
* `EveryRequestAnswered`; `ImplementsLedger`.

`OutboxPublisher`
* `PublishedIsOnTopic`, `ClaimsAreExclusive`, `FailedIsExhausted`,
  `FateIsFinal`, `EveryRowSettled`.
* `DuplicatesAccounted`: copies beyond the one of the live claim or of the
  success are at most the failed attempts recorded and the cycles cut short.

`NotificationConsumer`
* `NothingSkipped`: all behind the committed offset is settled.
* `NotifiedOnce`, `EveryRecordSettled`. The latter does not say that the
  committed offset reaches the end: a member that loses the partition and gets
  it back commits the older offsets of its batch, and the offset moves back.
  The records behind are handled again at the next assignment, harmlessly.

`OrderPipeline`
* `PublishedIsNotLost`: a row marked published, which no worker will send
  again, is notified, dead-lettered or still ahead of the committed offset.
* `NotifiedOncePerKey`: repeated calls and repeated events together make one
  notification, of the order that every answer for the key shows.
* `ImplementsDelivery`: every order is notified or parked in the end, and
  nothing is notified or parked that was not placed.

`OrderApi`
* `RepeatsAreReplays`: after a call succeeded, its key is answered 200 for the
  same basket however it is listed, and 409 for another, whatever happened to
  stock since.
* `ViewsAgree`: the created answer, of the session's objects after the commit,
  and the replays and listings, of the rows that the flushes left, show the
  same lines and a total that is their sum. A change of the order behind the
  last flush would break it, and so would an amount that a column rounds.
* `ListedAsAnswered`: the same of a product: the name and price of the answer
  to POST /products, from the object that was never read back, are those of
  the listing. It needs `decimal_places=2`: with half a cent the column rounds
  up what the response rounds to even.
* `OnlyUnstorableFails`: an admitted call hits no check, unique key, foreign
  key or length of a column. What is left for a 500 is a total or a stock
  beyond its column's type, and a product name with a NUL, which pydantic lets
  pass and Postgres does not store.
* `ApiInv`: at any later time an order, a view of it and the reason of a
  failure are still what its payload makes of the products.
* `ImplementsLedger`.

## 5. Proofs

The theorems hold for every value of the constants that meets the `ASSUME`s of
the module (`ProductAssumption`, `BasketAssumption`, `LimitAssumption`,
`PublisherAssumption`, `ConsumerAssumption`, `PipelineAssumption`,
`ApiAssumption`).

* `OrderServiceProofs`. `TransactionInvariant`: `TransactionInv` is inductive.
  No safety property is so by itself: that the stock written at commit is
  right needs that the row still has the value read (`LockInv`), that one call
  holds the lock, and that the rows locked are the whole basket (`ReadyInv`);
  one order per key needs that an open transaction that has inserted its row
  is alone with its key (`KeyInv`). From it follow `TypeCorrect`,
  `Idempotency`, `RecoveryAlwaysFinds`, `StockMovesWithOrders` and
  `Refinement` (initial states map to initial states, each step to a ledger
  step or a stutter). `DeadlockFree` supposes a set of open transactions all of which
  wait within it. One of them waits for a row; of the rows that are so
  contended take the one with the largest id: its holder waits as well, for
  a row of the set with a larger id still.
  `StockIsConserved` is `NoOversell`, by `SalesInv` under `TransactionInv`:
  the recorded orders are finitely many, so a commit adds one term to the sum
  of each product of its basket (`CommitSales`) and takes as much off its
  stock, and a new product has been taken by nobody (`CreateProductSales`,
  which needs that orders name products of the catalogue only).
* `SumTheorems`. `SumFunction` is a recursion over subsets, and induction over
  data is out of the prover's reach. So the recursion is shown to have one
  solution and no other, the number of pieces in piles of `f[x]` pieces
  (`SumIsCount`): uniqueness by a least set, in the well-founded order of
  strict inclusion, on which two solutions differ (`SumStepUnique`), existence
  because a count of pieces grows as the recursion says (`SumStepSolvable`).
  Adding a term, a single term, a bound on a term and renaming the index set
  (`SumAdd`, `SumSingleton`, `TermBelowSum`, `SumRenamed`) are then facts about
  cardinalities; that a sum of multiples of ten is one (`SumOfTens`) is again
  the recursion's one solution. It is a library of lemmas and says nothing of
  the code.
* `OutboxPublisherProofs`. `PublisherInvariant`: `PublisherInv` is inductive.
  It adds that a row under a live lock is pending (nobody else can have
  settled it) and that a worker's sends are those of its batch; that no retry
  is further off than the cap is `DelayIsCapped`. From it
  `PublisherTypes`, `NothingLost`, `ExclusiveClaims`, `FailureIsExhaustion`,
  `FatesAreFinal`. `DuplicatesArePaidFor` needs more than the copies that are
  there: `AccountInv` says that the copies, the sends still flying
  (`InFlight`, a cardinality) and the strays together stay within the
  allowance. A claim adds a flying send and a hold; a refused send that may
  still arrive turns the hold into an attempt at the commit, a crash turns it
  into a loss; an append moves one unit between the terms.
* `NotificationConsumerProofs`. `ConsumerInvariant`: `ConsumerInv` is
  inductive. What lies behind the offset, behind each member's record and
  behind the start of its next `getmany` is settled, and what is settled stays
  settled (`SettledStays`). From it `ConsumerTypes`, `NothingIsSkipped`, and
  with `AddFacts` `NotifiedAtMostOnce`.
* `OrderPipelineProofs`. `PartsAreKept`: every step of the whole is, for each
  part, a step of it or leaves it alone, so each behaviour of the whole is one
  of the transactions, of the workers and of the group, and what is proved of
  a part alone holds of the whole. `PipelineInvariant`: the invariants of the
  parts hold within the whole (`ServiceStep`, `PublisherStep`, `ConsumerStep`;
  the lemmas of the parts are used, not repeated), and the whole adds two
  ties: what the topic has received the partition holds (`TopicInv`); a
  recorded order has its row, and rows, sends, records and notifications are
  of recorded orders (`EventInv`, which needs that the workers leave an absent
  row absent and a present one present, `AbsentStays`, `PresentStays`, and
  that only a commit records an order, `ServiceEffects`). `NoEventLost`
  follows: a published row is on the topic, hence in the partition, and there
  behind the offset, where all is settled, or ahead of it.
  `OneNotificationPerKey` follows from `EventInv` and the one order that the
  transactions keep for a key.
  `DeliveryIsSafe` is the step simulation of `OrderDelivery`, where a commit of
  a worker may park several rows at once.

* `OrderApiProofs`. `ApiInvariant`: `ApiInv` is inductive. Prices stand still
  (`CatalogInv`), so the rows of an order and of its items can be computed
  again from its payload at any later time (`ComputedAgain`, `RowsAgain`) and
  every view of it as well. That the session's objects and the rows show the
  same (`ObjectsAndRows`) is not so by definition: it needs that the second
  flush finds the order filled, and that every price is in whole cents, so
  that a total and a line total are too, and neither the column nor the
  response rounds any of them (`WholeCents`, `TotalType`). `ViewsAlwaysAgree`
  follows, once the total over the list is shown to be the total over the set
  of lines that the response shows (`SumRenamed`). `ProductsAreListed` rests on
  the same two facts about rounding.
  `FailuresAreUnstorable`: what an admitted call puts in the first flush fits
  (`FirstFlushFits`: the key's length, the fingerprint's), and so does the
  second but for the total (`OnlyTheTotalFails`), because the loop takes from
  each product what the check has compared, no product being listed twice
  (`LoopTakesBasket`); a product that is admitted fits but for its stock or a
  NUL (`ProductRowFacts`). `FingerprintTellsBaskets`: equal
  fingerprints are equal baskets, since an item's position among distinct
  products is the rank of its product and depends on the set of items alone
  (`PositionIsRank`, `SortedDetermined`). `RepeatsAlwaysReplay` follows with
  the uniqueness of keys (`RowsInv`), and so does `Refinement`, the step
  simulation of `OrderLedger`.

Model-checked only: the liveness properties, `ImplementsDelivery` for its
liveness part among them (fairness and ENABLED are beyond the prover). Every
other property of the passing runs is a theorem.

## 6. Where the documentation and the code differ

* `src/README.md:65`, "the row that was not published into kafka ... just gets
  marked": a failed row may be on the topic, when acknowledgements were lost or
  late (`FailedWasNotPublished`).
* `src/README.md:52`, "Failed send does not block a full batch": a timeout
  charges every row of the batch, those already acknowledged included
  (`AckedSendIsNotCharged`).
* `src/README.md:63`, "workers would not see and take it for some time": the
  delay counts from before the sends; the publish timeout (10 s) exceeds the
  first four ceilings (1, 2, 4, 8 s), so the retry can be due when it is
  committed (`RetryWaits`).
* `src/README.md:53`, "for mistakes like a db is down retries with backoff
  until successful": the back-off of attempt 1025 is 2.0 ** 1024, an
  OverflowError that nothing in `process()` catches; the worker dies and docker
  restarts it (`OutageIsWaitedOut`).

## 7. Not modelled

* The wire format of events and the text of responses and logs: pure
  conversions without state. Of amounts the rounding is modelled, not the
  digits. SHA-256 is taken to be injective, and its hexadecimal form 64 long.
* Text that never reaches the service: what the HTTP server refuses in a
  header, and what is no JSON.
* That `zip()` of rows and results keeps them aligned: the model keeps each
  result by its row. `gather` returns results in the order of its arguments,
  and `strict=True` raises when one is missing.
* Listings of products and orders as pages; health checks; dependency wiring.
* The migration as a process, and the order in which compose starts the
  services: it runs once, to its end, before any other program. Its
  constraints are in `OrderApi`. Postgres and Kafka have no restart policy in
  `docker-compose.yml`; that they come back is the fairness assumed.
* Kafka's partitioning by key: the records of different partitions are handled
  independently, and the code promises no order between two orders' events.
* Which exceptions a driver raises: each attempt may fail as a transient or as
  an unexpected error. Whether `TRANSIENT_ERRORS` (`notification_consumer.py:22`)
  names all that a database that is down can raise is not a question the model
  can answer.
* Concurrency within `OrderApi` (it is the subject of `OrderService`; both
  implement `OrderLedger`).

## 8. Plan

Done: orders (the most important), outbox, consumer, the HTTP side, the
pipeline, with proofs of their safety properties.

Next:
1. Publisher: larger instances of `outbox_live` (three rows, so that a row
   waits behind two batches).
2. Consumer: two partitions and the loop over `batch.items()`, where an
   exception in one partition leaves the other's records uncommitted.
