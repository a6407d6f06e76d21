# TLA+ models of the Tinkuy Saludable back end

The program is a multi-tenant shop: a GraphQL API (Apollo, Pothos) and one REST
webhook in a single Node.js process, over PostgreSQL (Prisma) and Redis, with
Mercado Pago for payments. Its value is in a chain that no test crosses as a
whole: cart -> checkout -> payment -> webhook -> order -> stock ledger. The
project models that chain, and the services around it that keep state of their
own: sessions, caches, rate limits, categories, bulk imports, points and
addresses, coupons and reminders.

## 1. Inventory

| Component | State it keeps | Operations | Talks to |
|---|---|---|---|
| Orders (`modules/orders`) | `Order`, `OrderItem` | `createOrderFromCheckout`, `updateOrderStatus`, `updateOrderPaymentStatus`, queries | ledger, query cache; called by webhook and staff |
| Stock ledger (`modules/inventory`) | append-only `StockMovement`; stock is a `SUM` | `createStockMovement`, sums | called by staff; written by orders |
| Checkout (`modules/checkout/service.ts`) | none of its own | `createCheckout` | cart, ledger, Mercado Pago client |
| Webhook (`modules/checkout/webhook.handler.ts`) | `WebhookEvent` | `handleWebhook` | Mercado Pago, snapshots, orders, cart |
| Cart (`modules/cart`) | carts, locks and checkout snapshots in Redis, or in an LRU in memory | add, update, remove, clear, merge, snapshot store / get / clear | Redis, stock cache |
| Mercado Pago client, circuit breaker (`lib/mercadopago.ts`, `lib/circuit-breaker.ts`) | breaker state, failure count, probe count | `createPreference`, `execute` | Mercado Pago |
| Sessions (`modules/auth`, `lib/jwt.ts`) | `Customer.password`, `AdminUser.password`, `RefreshToken` rows, access token blacklist | register, login, refresh, revoke, change password | PostgreSQL, Redis |
| Caches (`lib/query-cache.ts`, `lib/cache.ts`, caches of `modules/catalog`) | entries in Redis and memory | get, set, invalidate | Redis; every module |
| Rate limits (`lib/rate-limit.ts`) | windows in Redis, counters in memory | `rateLimit` | Redis |
| Categories | a tree of rows | create, move, delete, reorder | PostgreSQL |
| Customers, loyalty | addresses with one default, points and their rows | CRUD, default address, `redeemPoints` | PostgreSQL |
| Coupons | `Coupon` rows | create, update, delete | PostgreSQL |
| Catalog (`modules/catalog`) | products, categories and suppliers they name | bulk import, bulk prices, CRUD, queries | PostgreSQL, caches |
| Abandoned cart job | `AbandonedCart.reminderSentAt` | a pass at the start and every 24 hours | e-mail |
| Newsletter, reviews, tenants, media, e-mail, server, configuration | rows, templates, wiring | queries, CRUD, I/O | - |

How they interact: everything is one process, so the concurrency is that of
`await`. Two requests interleave between any two awaits, and their database
transactions overlap. State is shared through PostgreSQL (READ COMMITTED except
where `createStockMovement` asks for SERIALIZABLE), through Redis, and through
module-level memory (the breaker, the LRU fallbacks), which a restart loses.
Mercado Pago is the one partner that calls back: it delivers notifications late,
repeatedly, in any order and concurrently, until it is answered 200.

What is hard, and what makes each part correct:

* **Ledger.** Sums read before a rival's commit; row locks taken key by key; a
  status checked on a value that is overwritten before the write. Correct: no
  key is sold twice, the ledger of an order agrees with its status, the status
  moves along the documented table, no transaction waits for ever.
* **Webhook.** Repeated, overlapping and late notifications; a claim that
  commits before the work; a timeout that answers while the handler runs on;
  Redis coming and going; restarts. Correct: one handler per payment, one order
  per payment, with the items and the amount of the preference; every
  notification is acknowledged in the end; an approved payment reaches the making
  of its order.
* **Circuit breaker.** Answers that come in when the breaker is no longer in the
  state that admitted the call. Correct: the state tells the truth about the
  calls; an open breaker holds off; a half-open one decides.
* **Cart.** A lock with a time to live and no owner, a read and a write with
  awaits in between, two locks for a merge, a cart in Redis or in memory.
  Correct: one call at a time on a cart that kept its lock; no edit lost or made
  twice; no lock forgotten; every call ends.
* **Sessions.** Rotation as two statements some awaits after the check, beside
  revocation, expiry and cleaning up. Correct: a session has one life and, once
  ended, none; a password is replaced only by who proved it.
* **Caches.** Invalidation before COMMIT, a copy on each side of a failing Redis.
  Correct: what is stale has a known cause, and staleness ends for good once the
  writes do.
* **Services.** Checks and writes in separate statements. Correct: a window lets
  in no more than it says; points and rows agree; one default address; the walk
  over the tree ends and decides; a bulk job is as one transaction when alone; a
  cart is reminded once; a coupon stays what was asked for.

All of it is listed, line by line, under `hazards` in PROJECT.json.

## 2. Modules

| Module | Models |
|---|---|
| `OrderLedger` | `orders/service.ts` and `inventory/service.ts` over the tables |
| `Checkout` | `checkout/service.ts`, snapshots of `cart/service.ts`, `webhook.handler.ts`, Mercado Pago as they see it |
| `PaymentSettlement` | abstract: what the webhook promises about a payment |
| `CircuitBreaker` | `circuit-breaker.ts` around `createPreference` |
| `CartLock`, `CartContents` | the cart calls and their locks (`cart/service.ts`); carts as values |
| `CartEdits` | abstract: what the cart service promises about an edit |
| `Sessions` | `auth/service.ts`: accounts, passwords, refresh tokens |
| `QueryCache` | `query-cache.ts` and how the services fill and invalidate it |
| `RateLimit` | `rate-limit.ts` |
| `Accounts` | `redeemPoints` and the addresses of a customer |
| `Categories` | `categories/service.ts`: the tree and its walk |
| `CatalogImport` | bulk import and bulk prices, beside single products |
| `Reminders` | `jobs/abandonedCart.ts` |
| `Coupons` | `coupons/service.ts` |
| `Totals` | the sum of a function over a finite set, in which ledgers and windows are stated |
| `MC...` | the small instances TLC checks; `MCServices` joins the last six |
| `...Proofs` | the theorems TLAPS checks: one module for each of the larger parts, `ServicesProofs` for the six that `MCServices` joins, `TotalsProofs` for sums |

### OrderLedger

Variables: `stock[k]` is the sum of the committed rows of a key and
`balance[o]` the net of the rows whose `referenceId` is an order, counted in
units of its items; both are written by the same statements. `status[o]` is
`Order.status`. A
transaction `t` (a call of `createOrderFromCheckout` or `createStockMovement`)
goes `idle -> summing -> done | failed`; `seen[t]` is what its `SUM` returned and
`held[t]` what it has locked. `call[s]` is a call of `updateOrderStatus` between
its read and its write.

Actions and code: `BeginOrder` / `RefuseOrder` are lines 41-67 of
`createOrderFromCheckout` up to the start of the SUM, `LockRows` its
`FOR UPDATE`, `CommitOrder` / `RejectOrder` the rest (74-130: the stock check, the
insert with its unique `paymentId`, the OUTBOUND rows). `BeginOutbound`,
`CommitOutbound`, `RejectOutbound`, `RecordReceipt`, `RefuseMovement` are
`createStockMovement`; `ReadStatus`, `WriteStatus`, `AbandonStatus` are
`updateOrderStatus`. `DeadlockVictim` and `ConnectionLost` are the database's.

The database. A statement in READ COMMITTED sees what was committed when it
started. `FOR UPDATE` waits for the rows it finds and, were they *updated*, would
look at them again; ledger rows never are, so the sum stays what it was. Two
SERIALIZABLE transactions that read and wrote the same key cannot both commit
(`Serializable`), and that guarantee does not reach READ COMMITTED ones.
PostgreSQL documents that `FOR UPDATE` is not allowed with `GROUP BY` or
aggregates: then both SUM statements are errors and neither orders nor
withdrawals exist. The code (and docs/CHECKOUT.md) plainly relies on the
statement running, so both answers are in the model: `database` is `"accepts"` or
`"refuses"` for the whole behaviour, and `SumAnswers` says which are considered.
What PostgreSQL does is refuse, and what follows from that is the run
`checkout_refused`; everything said of orders under `"accepts"` is what the
locking would and would not do if the statement ran.

Manual movements carry a signed `quantity`, as their callers send it, and a type.
`WellFormed` is what `createStockMovement` asks of them: it refuses the negative
adjustment of the run, and `OnlyWithdrawalsLower` says that stock goes down in no
other way than by a call that has locked and read the key.

History variables: `overrun[k]` (what was taken by withdrawals that committed
although a rival had committed since they read the sum), `rivals` (what
`Serializable` and `overrun` are computed from), `contested` (orders on which a
status call wrote over a call it had not seen). They name the exact circumstance in which a
guarantee is lost, so that the guarantee can be stated, and proved, outside it.

### Checkout

One action per stretch between two awaits. Customers edit and empty carts
(`EditCart`, `EmptyCart`) and call `createCheckout` (`ReadCart`,
`CreatePreference`, `StoreSnapshot`); administrators hide products and show them
again (`HideProduct`, `ShowProduct`).
Mercado Pago opens payments and moves them along `Moves` (`MovePayment`), and
delivers what it has not been answered 200 for (`Deliver`), to any idle handler,
in any order and while other deliveries of the same payment are handled;
`DeliverLate` is a copy that was under way when the 200 arrived. A handler runs
`LookupEvent`, `Claim`, `FetchPayment`, then `LoadForOrder`, `PlaceOrder` or
`LoadForRejection`, `RejectExistingOrder`, and then `ClearCart`,
`ForgetSnapshot`. `Reply` ends it. `RefuseOrder` is `createOrderFromCheckout`
throwing: a product that is hidden by then, the sum the database refuses
(`database`, as in `OrderLedger`), too little stock. The answer is 500 and the
claim stays, so the payment is never ordered.

Carts are contents (how much of each product), and `Cost` is their total.
`object[c]` is the `Cart` object a checkout has read. From Redis it is a parsed
copy; from memory it is the object that `memoryCarts` holds (`live`), which the
cart calls change in place. The preference gets its items as they are then; a
snapshot in Redis is a copy, a snapshot in memory is the object
(`memorySnapshots` is a set of calls: what they hold is `object`), so that an edit
without Redis changes it. `edited` remembers the calls whose object was changed
after the preference was made: for these `OrderMatchesPayment` promises the amount
and the approval, not the items.

What can go wrong is counted in `faults` and bounded by `MaxFaults`: an awaited
call throws (`FailCall`), the 30 s timeout answers first (`Timeout`), the process
restarts (`Crash`: memory is lost, what is committed stays), Redis goes away
(`LoseRedis`), a snapshot expires (`ExpireSnapshot`), a late copy arrives, a
product is hidden, Mercado Pago reports another amount than the preference's
(`Charge`).

Left out, and why it does not matter: requests without a valid signature, of
another type or without an id (lines 40-66) are answered 401 or 400 and change
nothing; the branch for an unprocessed row (83-97) is never taken because every
row is inserted with `processed = true`; an invalid payer e-mail is one more
throw where `AmountMatches` already throws; the refund branch looks the order up
by the branch id and finds nothing, so it changes nothing; e-mails are fire and
forget; the prices, names and products `createCheckout` compares only refuse a
call, as `CreatePreference` may. `PlaceOrder` is atomic: what happens inside is
`OrderLedger`'s subject. `Surcharges` is how far the amount Mercado Pago reports
may be from the preference's total.
`payload` is what the body of a notification holds, the same for the whole
behaviour: `full` (with `preference_id`), `bare` (without) or `status` (with
`data.status`, which matches no branch).

`OneOutcome` proves that `updateOrderPaymentStatus`, which restocks, is never
called: a payment is claimed for one of its statuses only. That is why
`OrderLedger` does not have it.

### CircuitBreaker

`attempt[c]` is the request a call waits for. `AdmitClosed`, `AdmitOpen`,
`AdmitHalfOpen` are `execute` up to `await fn()`, `Retry` is `makeRequest` after a
5xx, `Succeed` and `Fail` are `onSuccess` and `onFailure`, `Cool` the reset
timeout. `probes` is a history variable: the calls admitted since the breaker
half-opened. A call the breaker refuses changes nothing and is no step.
`failures` counts up to `MaxFailures`; only `failures >= FailureThreshold` is
ever asked, so saturation loses nothing.

### CartLock and CartEdits

A call `c` (one of `addToCart`, `updateCartItem`, `removeFromCart`, `clearCart`,
`mergeGuestCartIntoUserCart`) takes `idle -> locking -> reading -> saving ->
unlocking -> ended`; a merge takes the guest's lock and then the user's
(`lockingUser`), reads both carts and, after saving, deletes the guest cart
(`emptying`). `lock[k]` is the key in Redis, without an owner, as in the code:
`Unlock` deletes it whoever set it. `side` is what `isRedisAvailable` answers.
Without Redis `acquireLock` gives no lock and the call is refused (`LockRefused`);
a call that has its lock when Redis goes works on in memory, where `getCartRaw`
hands out the cart itself, so that an edit shows before it is saved
(`ShownAtOnce`).
`got[c]` are the carts `acquireLock` said yes for, `copy[c]` what will be saved.

Faults, bounded by `MaxFaults`: a command throws, done or not (`LockFails`,
`ReadFails`, `SaveFails`, `EmptyFails`, `ReleaseFails`); an EXPIRE that fails
inside the `try` of `getCartRaw` turns a full cart into an empty one
(`ExpireFails`); Redis goes away (`LoseRedis`). A lock may run out at any time
(`LockExpires`). The history `overrun` holds the carts whose lock ran out while
a call was on them, `disturbed` those that something without a lock, a fault or
a change of side has touched meanwhile; both are taken back when the last call
has left the cart. Together they are the *loose* carts: `CartEdits` promises
that every other cart changes by one whole edit of one call, once, on what it
holds at that moment, and nothing about a loose one. That names the exact circumstances in
which an update is lost.

Left out: the lookups of stock and price, which only refuse a call, and the time
to live of a cart.

### Sessions

Calls of `register`, `login`, `change`, `issue`, `refresh`, `revoke`,
`revokeAll`, statement by statement; customers and administrators have the same
paths. Tokens are numbered in the order of their `randomBytes`; `family[t]` is
the token whose id is the `familyId`. `Issue` is `generateRefreshToken`, which no
resolver calls: no other function makes a first token, so it stands for the login
that will. `RefreshAccepted` / `RefreshRefused` are
the checks of `refreshAccessToken`, `Rotate`, `RotateMissing` and
`InsertSuccessor` the two statements of `rotateRefreshToken`, `CleanUp` the
deletion of expired rows after an issue, `Expire` the thirty days, `CutShort` a
failure or restart anywhere. A call that only refuses, or only compares, ends
with no other effect. History: `checked` (the token was live when read), `forked`
(families of which a token was rotated although it had ceased to be live since),
`ended` (families that lost a life), `raced` (users whose password changes overlapped).

Left out: access tokens with their blacklist (no state but a set with
expiry), cookies, rate limits (see `RateLimit`).

### QueryCache

One key, read by `Readers` and written by `Writers`, with the three disciplines
the callers follow: invalidation *inside* the transaction (orders), *after* the
write (`updateCustomerProfile`), *never* (products, tenants, addresses).
`entry[s]` is the entry on either side; `Miss`, `Query`, `Store` are a reader,
`Update`, `ClearRedis`, `ClearMemory`, `Commit`, `RollBack` a writer. Redis comes
and goes, and the process restarts, which empties memory. An entry remembers
`since`, the writers that had already invalidated when it was put there.

### RateLimit, Accounts, Categories, CatalogImport, Reminders, Coupons

* `RateLimit`: an attempt with Redis is one pipeline over a sliding window
  (`AskRedis`), which adds refused attempts too; a pipeline that fails
  (`AskInVain`) lets the attempt in; without Redis a fixed window in memory
  (`AskMemory`) with `FallbackLimit`, swept when it has too many entries.
* `Accounts`: `redeemPoints` as check, row, decrement; the addresses as
  READ COMMITTED transactions: `updateMany` sees the rows of its start (`view`),
  waits for rows another transaction has updated (`locked`), and COMMIT is one
  step with the last statement.
* `Categories`: `checkIsDescendant` asks for the children of one category after
  another (`Visit`), so the tree can change under it; `deleteCategory` orphans
  the children and then deletes.
* `CatalogImport`: an import finds or creates category, supplier and product of
  a row by separate statements and counts the row; a price run reads and writes
  each product (`NewBase`, which may be an increase of less than nothing and is
  then refused, and `NewPrice`, what the column keeps of it); `createProduct`,
  `updateProduct`, `deleteProduct` come in between. What a job leaves is compared
  with `Imported` and `Priced`, what it counts with `Tallied` and `Recounted`: the
  job done as one transaction on the shelf it found.
* `Reminders`: passes that may overlap, mail and mark as two steps.
* `Coupons`: lookups, the check of the input alone, one write. `haggled` and
  `redated` are the coupons of which one of two related fields was last set
  without the other, which `updateCoupon` does not check against the row.

## 3. Runs

| Run | Instance | Shows |
|---|---|---|
| `ledger` | 2 orders for 1 unit of each of 2 keys (1 and 2 in stock), 2 withdrawals, a transfer of 1, an adjustment of -1, 2 status calls, both answers of the database | everything the ledger keeps under all interleavings; transactions end |
| `ledger_terminal` | 1 withdrawal, 2 status calls | **violated**: a cancelled order moves on |
| `checkout` | 2 payments of 1 preference, 2 handlers, carts with one of 2 products that cost the same, 1 mishap of any kind, approvals that can be taken back | claims, outcomes, amounts; refinement of `PaymentSettlement` |
| `checkout_ack` | 1 payment with pending and refunded, every body, 1 mishap of any kind | every notification is acknowledged in the end |
| `checkout_orders` | 2 customers, decided at once; 1 timeout, late copy or hidden product; both answers of the database | every approved payment reaches `createOrderFromCheckout`, which orders or refuses |
| `checkout_refused` | 1 payment, approved at once, a database that refuses the sum | **violated**: it gets no order |
| `checkout_pending` | 1 payment, pending and then approved, nothing fails | **violated**: it gets no order |
| `breaker` | 4 calls, threshold 2, 2 probes, 2 attempts | what the state says; a half-open breaker decides |
| `cart` | 2 merges and a clear, or a merge, an add and a change, over a guest cart and a user's; 2 tries for a lock, 1 fault | who works on a cart, which lock is left, refinement of `CartEdits`, calls end |
| `sessions` | an issue, three refreshes and a logout of either kind or a second session; or two registrations, a login and two changes of password; 4 tokens, 1 call cut short | one life per session, no revival, the theft branch, proven passwords |
| `caches` | 2 readers, again and again, and 2 writers, all disciplines | why an entry is stale, and that staleness ends for good after the last write |
| `services` | six services, see below | what each keeps |

The bounds and why they are enough. In the ledger one key has a single unit and
four withdrawals want it; the other key makes lock order and partial cover
matter; two status calls are what an overlap takes. In the checkout two handlers
are what an overlap takes, a second payment of the same preference is what makes
a snapshot be missing or shared, two products of one price are what makes the
items differ where the amount does not, and a surcharge of 1 makes the amount
wrong. `checkout` has two payments but no liveness:
handlers, and payments of one preference, are interchangeable, so it uses
symmetry (of handlers, payments and products); the liveness runs do not.
`checkout_ack` has one payment, because
payments meet only through snapshots and stock, which decide no answer for ever;
`checkout_orders` has two customers whose payments share the handlers, one
attempt each, decided at once, and neither a failed call, a
restart, an expiry nor a change of Redis: each of those can cost an order (see the
hazards), and so does each refusal of `createOrderFromCheckout`. What the run
shows is that repeated, overlapping and late deliveries, timeouts and carts that
change before and after the checkout cannot keep a payment from getting there.
`checkout` itself has a database that accepts: where it refuses there are no
orders to say anything about. In the breaker four calls let two be left over from the closed state
while two probes are out.

In the cart two merges of the same pair contend for both locks in the same
order, and a clear disturbs them; an add to one of the carts and a change of the
other contend with one half of a merge each; one fault is enough to make a
release fail, a merge stop half-way or a cart go to the other side, and expiries
are unbounded. In the sessions two refreshes of one family are what a fork
takes, and a third shows what becomes of it; four tokens are the issue and its
three successors. In the cache a writer between a reader's query and its store, and
a second one after it, are what tells the causes of staleness apart.

`services` checks six modules in one run because they share no state: `part` is
drawn once, only that part moves, and the others stay as they are, so the states
are the sum of six runs and not their product. *Rate*: two keys, windows of two
ticks, limit 2, more attempts than two windows hold, one entry kept by the
sweep. *Accounts*: four redemptions of which the points cover only some, or four
calls on addresses, three of which set a default; one fault. *Tree*: a chain of
three and a shallower tree, moves up and down, a creation, a deletion. *Import*:
imports that repeat a product within and between them, price runs that name
one of two products several times, by 100, -60 and -150 per cent, a creation, a
renaming and a deletion beside them; one error.
*Reminders*: three passes, one cart that can be mailed and one that cannot, one
failure. *Coupons*: two updates of one coupon, with every pair of related
fields, and a creation that wants the code of one of them.

Deadlock is checked for the breaker, and switched off where the system may
really stop (all calls made, all payments settled).

Fairness. *Ledger*: while some transaction can lock a row, end, or be chosen by
the deadlock detector, one does (PostgreSQL makes progress); nobody is obliged to
begin. *Checkout*: Mercado Pago keeps delivering what is not acknowledged, and
each running handler takes its steps (an event loop with a finite number of
requests); no fairness on customers, payments, faults or Redis. *Breaker*: a
call in flight ends (the SDK gives up on a request that hangs, since the
AbortController of `createPreference` is not passed to it); nobody is obliged to
call. `HalfOpenEnds` rests on that last assumption alone. *Cart*: each await of a
call that has begun ends, well or badly; nothing is asked of customers, Redis or
the clock. *Cache*: a query or mutation that has begun ends, and entries
expire; Redis may come and go for ever. *Categories*: each statement of a call
that has begun ends. *Sessions* and the other services have safety properties
only, and no fairness.

The ten disagreements between code and documentation are in PROJECT.json under
`findings`. Three are runs that end in a violation: an order whose sum PostgreSQL
refuses, an order that leaves a terminal status, a payment that is pending first.
Seven are seen in properties that hold: `OneOutcome` (an order whose payment is
cancelled or refunded later is never restocked), `OnlyWithdrawalsLower` (no
adjustment or transfer takes stock off), `OrderMatchesPayment` (a snapshot in memory
changes with the cart), `OneLifePerSession` (two refreshes at once use one token
twice), `TheftBranchDead` (the documented theft detection is reached by no
interleaving), `MovesDecided` (the walk over the categories refuses the moves
that are harmless and lets through those that close a cycle; a written cycle makes
a later walk endless, which is why the property excepts it) and `RateBounded`
(without Redis, production counts in memory, where the documents say it refuses).

Many properties name a circumstance they except, kept in a history variable
(`overrun`, `contested`, `edited`, `loose`, `forked`, `raced`, `tangled`, `crowded`,
`stirred`, `haggled`, `redated`, `crossed`). It is the hazard itself: what the
property shows is that nothing else costs the guarantee, and that one key, order,
cart or session that meets with it does not harm the others.

## 4. Proofs

`tlapm` proves, for every value of the constants, every invariant that a run
checks, and its action properties and refinements:

* `TotalsProofs`: what `Total(f, S)` is for the empty set, with an element more
  or less, for another function, for a part of `S`. The sum is a fold defined by
  recursion over subsets. The library's induction theorems cannot be used here
  (they take an operator as a parameter), so the one lemma that needs induction,
  `LeastSubset`, is drawn from the fact that strict inclusion among the subsets
  of a finite set is well-founded; the rest follows by least counterexample.
* `OrderLedgerProofs`: `TypeCorrect`; `OversellNeedsOverlap`;
  `MovementsNeverOversell`; `LedgerMatchesStatus`; `TransitionsAreLegal`;
  `StockIsLoweredByWithdrawals`, from `SumsForWithdrawals`: what reads sums is a
  withdrawal of something.
  The invariants the runs check are not inductive. *Oversell is bounded by the
  overrun* needs `StaleOnlyByRivals`: a transaction has read more than there is
  only if a rival on that key has committed since. Every withdrawal adds itself to
  the rivals of whoever has read and to the overrun if it has rivals itself, and
  everything else only adds stock (`GrowingStock`). *Serializable suffices* needs `RivalsCommitted`: a rival that
  is an order has left a row. *The ledger matches the status* needs
  `CallsAreCurrent`: what a status call read is still true unless it was
  overtaken, and then the order is contested when it writes.
* `CheckoutProofs`: `CheckoutTypes`; `ExclusiveClaims`; `SingleOutcome`;
  `OrdersMatchPayments`; `WebhookSettlesOnce`. Each step of a handler is either
  one that wins a claim (`Wins`) or one that at most leaves (`OwnersOnlyLeave`),
  and the steps of everybody else are `Outside`. `OutcomeInv` adds that an
  ordered payment is claimed and that a handler which has not yet decided has no
  order. `AmountInv` carries items and amount from preference to order: a
  snapshot is missing or the items of its preference, unless its object was edited
  (`SnapshotsMatch`), an approval a handler has seen is not undone except into a
  refund or cancellation (`ApprovalSeen`), and what a handler loaded is those items
  and costs what was paid (`LoadedMatches`).
  `WebhookSettlesOnce` is the refinement of `PaymentSettlement`: winning a claim
  is `Claim`, placing the order is `Order`, the end of handlers (a crash ends
  several) is `Drop`, all else stutters.
* `CircuitBreakerProofs`: `BreakerTypes`, `ClosedIsHealthy`,
  `HalfOpenCountsProbes`, `OpenIsFirm`.
* `CartLockProofs`: `CartTypes`, `LocksExclude`, `LocksAreReleased`,
  `CartsImplementEdits`. `LockInv` says that a lock which did not run out has one
  holder and is set; `LocksByProgress` which carts a call holds at each step, so that
  a path which forgets one breaks it; `LocksHaveHolders` is the converse, a lock
  that is set has a holder while nothing has failed. The refinement needs
  `CopiesAreCurrent`: what a call is about to save is the edit of what the cart
  holds, unless the cart is loose, and `MemoryIsLoose`: a cart a call works on
  in memory is loose. Saving is then `Apply` (for a merge, of both carts: the
  guest's is shown as empty until it is), and every other step changes loose
  carts or nothing.
* `SessionsProofs`: `SessionTypes`, `TheftIsNeverDetected`, `SessionsHaveOneLife`,
  `EndedSessionsStayEnded`, `PasswordsAreProven`. A step leaves the life of a
  family alone, ends it, hands it from a token to the call that rotates it, or
  from a call to the successor (`Moves`); `LifeInv` is one life per family with
  `Rooted`, that a family begins with a minted token of its own and that a
  rotation comes after its check. `UsedAreRevoked` closes the theft branch.
  `ChangesAreCurrent`: what a change of password has read is still the password
  unless another change was under way.
* `QueryCacheProofs`: `CacheTypes`, `StaleOnlyForCause`. `CauseInv` adds to the
  property what a reader holds between its query and its store.
* `ServicesProofs`, part by part:
  * *RateLimit*: `RatesTyped`, `RatesAreBounded`. `RedisInv`: what Redis let in
    during the window is among the scores it counts. `MemoryInv`, for a key whose
    entry was not lost: what memory has let in since its entry began is at most
    the count of the entry, and what it let in during the window before at most
    one less than the limit (`Remembers`); a sweep takes only entries that have
    run out (`RememberSwept`). The bound on every window, also one that straddles
    two entries, is part of both.
  * *Accounts*: `AccountsTyped`, `OverdraftNeedsOverlap`, `PointsAlwaysAddUp`,
    `DefaultIsUnique`. `PointsInv`: until redemptions overlap there is one, and
    the points cover it. `OwingInv`: the calls that owe are redemptions between
    their two writes, or cut off there, and all of them. `DefaultsInv`: a call that sets a
    default alone has every default there is among the rows it sees, and then
    among those it has locked.
  * *Coupons*: `CouponsTyped`, `CouponsStaySound`, from `InputsAreChecked`: a
    call that is about to write has passed the checks of its input.
  * *Reminders*: `RemindersTyped`, `CartsAreRemindedOnce`. `RemindedInv`: the
    mails a cart was sent and the passes that have yet to send it one are together
    at most one more than its slips, and a cart that no pass holds and that is not
    marked has had no mail but by a slip (`Allowed`).
  * *Categories*: `TreesTyped`, `WalksJudge`. `WalkInv`: the walk goes
    down from the new parent, so that parent is above whatever is still to be
    visited, and if it is above the category that moves, so is one of those. What
    is above a category is the least set that has it and the parent of each of its
    members, so no induction over the depth of the tree is needed, and the tree may
    be cyclic.
  * *CatalogImport*: `ImportsTyped`, with `RowsFit`: a job is at a row that it
    has, at a step its kind has. `BulkJobsAreAsOne`: `LoopInv` says of a job that
    nothing has disturbed where its loop is: after `m` rows the shelf is what
    those rows make of the one it found, and the tally counts those that took effect
    (`ImportLoop`, `PriceLoop`); between two statements of a row, what that row has done so far.
    A step adds a row (`TalliedValid`, `RowDone`, `PricedRow`, `RecountedRow`) or stays in it, and
    a step of another job writes nothing or crosses this one (`StepsApart`). An id
    listed twice is raised twice, so the price is the step of one row repeated;
    that the repetition exists (`Repeats`) is proved by least counterexample
    (`LeastNumber`).
  * *Together*: `ServicesTyped`, `ServicesSafe`. A behaviour of `MCSpec` is one
    of each of the parts' own specifications, fairness of the walks aside
    (`PartsBehave`), so what is proved of each alone is proved of what the run
    checks.

Assumptions: only the named ones in the modules (`LedgerConstants`,
`CheckoutConstants`, `BreakerConstants`, `CartConstants`, `SessionConstants`,
`RateConstants`, `AccountConstants`, `CategoryConstants`, `ImportConstants`,
`ReminderConstants`, `CouponConstants`), which TLC evaluates in every run that
uses the module. Most are types, or say that the calls or passes of a behaviour
are finitely many, where they are summed or counted. Those
with content: Mercado Pago moves an
approved payment only to refunded or cancelled; the coupons a behaviour starts
with have different codes and pass the checks of `createCoupon`; a call that
creates an address or a coupon creates one that was not there.

Only model-checked: `TransactionsEnd`, `AllAcknowledged`, `ApprovedReachesOrder`,
`HalfOpenEnds`, `CallsEnd`, `StaleEnds` and the first part of `MovesDecided`
(liveness under fairness is out of the prover's reach).

## 5. Not modelled

* Newsletter and reviews: single rows under a unique key, one statement after a
  lookup; nothing relates two rows or two steps.
* Tenants: resolution of the tenant of a request. Every model is of one tenant,
  and no module relates two.
* Media, e-mail, templates, the GraphQL schema, resolvers that only read,
  logging, metrics, error classes and validation: pure I/O, wiring and
  formatting. `prisma/seed.ts` and the scripts are run by hand.
* Parts left out of modelled components: the queries and statistics of orders,
  customers and catalog; variants, tags and suppliers as single-row CRUD;
  `reorderCategories` (writes `sortOrder` alone); access tokens and their
  blacklist; `validateCoupon` (a pure check) and code nothing calls
  (`setStockCached`, `incrementCouponUsage`, `CircuitBreaker.reset`). Nothing calls
  `generateRefreshToken` either; it is modelled all the same, since without it
  there would be no session to refresh or revoke.

PROJECT.json lists every component with its status and every hazard with the
property that covers it, or the reason why none does.

## 6. Plan

What could be added, in this order:

1. The blacklist of access tokens beside `Sessions`: a logout and the 4 or 24
   hours in which an access token can outlive it.
2. What `ApprovedReachesOrder` needs, as safety: a claimed approval has its snapshot
   unless something failed.
3. Snapshots and carts in one module, so that a checkout and an edit of the cart
   under lock are interleaved.
