# The SMM panel in TLA+

The repository is a reseller panel: customers prepay a wallet through payment
gateways, place orders for services, and the panel submits the orders to
upstream providers and follows them there. Everything that must not go wrong
is in `apps/api`: an Express server over Postgres (Prisma, READ COMMITTED),
with cron jobs in the same process. These modules model its money and order
flow, the store, the sessions, the support desk and the mass mailings. TLC
checks them on small instances, and TLAPS proves every safety property for any
number of customers, orders and jobs; liveness stays with TLC.

## The system

| Part | State | Operations | What is hard | Where |
|---|---|---|---|---|
| Wallet ledger | `Wallet.balance`, `WalletTransaction` rows | `adjustWalletBalance`, `creditWallet`, `debitWallet` | lost updates, overdrafts, deadlocks, rollback, rounding | `WalletTransactions`, `Money` |
| Order placement | `Order`, `IdempotencyKey`, `OrderIntent` | `createOrderOrRedirect`, `placeOrderInTransaction`, `fulfillOrderIntent` | replays, concurrent duplicates, savepoint, price changes | `Checkout`, promise in `PrepaidShop` |
| Deposits | `Deposit` | gateway initiate, callback, webhook, reconcile cron, admin review | repeated and concurrent confirmation, late answers, crash | `Checkout` |
| Retry of paid intents | `OrderIntent` | `retryFailedOrderIntents` | overlapping ticks, expiry | `Checkout` |
| Order lifecycle | `Order`, its ledger rows, the provider's own orders | submit cron, Resend, poll, recheck, cancel, admin status | unlocked reads, lost answers, fallback, deadlock | `Fulfilment` |
| Rewards | `Coupon`, `CouponRedemption`, `ReferralLog`, first-deposit flag | the coupon forms, `creditApprovedDeposit`, `redeemCouponForDeposit` | limits checked without a lock, two wallets and a coupon locked in turn, reads of rows others change | `Rewards` |
| Store | `Package`, `StockPool`, `StockCode`, package orders and intents | purchase, payment and retry of an intent, `claimStockCode`, revoke, delete pool, edit package | last code, two lock orders, one key used twice, admin's check and write apart | `Store`, promise in `Vending` |
| Sessions | `RefreshToken`, `PasswordResetToken`, refresh cookies | login, `refreshSession`, logout, reset and change of the password, suspension | one token sent by two tabs, grace, revocation against a request under way, lost answers | `Sessions` |
| Refills, tickets | `RefillRequest`, `Ticket`, `TicketOrderAction` | `requestRefill`, poll, resolve, write, automation, agent action | check-then-create, failures inside a batch, death of the process | `Support` |
| Campaigns | `SmsCampaign`, `EmailCampaign` | create, batch crons | overlapping ticks, crash in a batch | `Campaigns` |
| Gateway adapters, provider client | none | HTTP calls | failures, timeouts | their answers, in `Checkout` and `Fulfilment` |
| Catalogue, content, users, statistics, notifications, web UI | rows | single-row CRUD, reads | - | not modelled |

The parts of the money and order flow meet in three places: every movement of
money goes through `adjustWalletBalance` inside its caller's transaction; a
deposit may carry the intent of an order, which the deposit's own transaction
tries to place; and crons pick up what requests, gateways and providers left
behind. A purchase in the store moves money the same way. Sessions and
campaigns share no row with the rest; the support desk works on orders that are
delivered.

## What must be right

- Wallet: the stored balance is the sum its ledger shows, row after row, never
  negative, whatever callers do (in whole units of money; with fractions it is
  off by a known number of units). Transactions end.
- Checkout: it is as if customers were served one at a time; one order per
  Idempotency-Key, each paid exactly once; a deposit is credited exactly when
  it is approved; what is settled stays settled; a paid deposit and a paid
  intent do not stay stuck.
- Lifecycle: refunds follow the status; an order is submitted once; it does not
  wait forever, and what the provider completed is recorded.
- Rewards: every approval is as if it were done alone, so a first deposit, a
  coupon and a referee are rewarded once; the deposit, the coupon and the
  referrer's earnings agree with the ledger; a coupon's limit is kept (it is
  not).
- Store: a code is sold once and leaves the shelf with its sale, a key is one
  order, the wallet is down by exactly the orders; no purchase waits forever.
- Sessions: a refresh token is exchanged once; a reset, a change of the password
  or a replay ends every session begun before; a user's own tabs never sign
  each other out.
- Support: one open refill per order; the audit tells every refill a ticket
  made; a provider's verdict reaches its row and no ticket stays with the
  engine.
- Campaigns: no recipient is skipped, whatever ticks overlap or die; every
  campaign completes in the end.

## How code becomes actions

- A *job* (a *session* in `WalletTransactions`) is one request, or one row of a
  cron tick. Nothing in the code keeps jobs apart, node-cron included, so any
  two interleave.
- One step is the code between two points where another job's commit can be
  seen: an await on the provider or gateway, a row lock, an unlocked read whose
  result is used later. Consecutive unlocked reads that only choose a branch
  are one step; so in `Checkout` the gateway's config, its answer and
  the `autoVerify` switch are read together.
- A transaction's writes stay in its job until it commits; its row locks are
  held until it ends. An exception or a crash drops both. A refused operation
  is an action too, because it releases locks.
- A savepoint is inside one step: `SettlePlaced` and `SettleFailed` are the two
  ways `fulfillOrderIntent` leaves the transaction that credits the payment.
- Money is integers, in units of what a Decimal column can hold. That columns
  round to four places, and that a charge is not rounded before its debit, is
  the subject of `Money` alone.
- Names, links, notes, error texts, notifications and audit rows are left out.

## Modules

`Ledger` has the operators of a ledger: the row written for an amount, when an
adjustment is refused, the chain property. `AuditedWallets` is the abstract
promise: a commit only appends rows that continue the chain.

`WalletTransactions` is `wallet.service.ts` under concurrency. A session opens
a transaction, calls `adjustWalletBalance` any number of times on any wallets
and commits. `SelectForUpdate` and `Write` are the two statements of a call;
`Call` and `CallZero`, `Insufficient` its refusals; `DeadlockAbort` and `Crash`
what Postgres and the process may do. It implements `AuditedWallets`.

`Money` is the arithmetic of one wallet, sequential. Columns hold four
decimals, so money is counted in units of 0.0001 and `Rounded` is what Postgres
does to a number it assigns to a column. `Adjust` is `adjustWalletBalance` with
a fraction: it compares exact numbers, and the balance and the row's amount are
rounded each by itself. `PlaceOrder` debits the exact price, `RefundOrder` and
`RechargeOrder` use the charge that was stored, `ApproveDeposit` adds a
percentage (one stands for all bonuses). The ledger is its sum, `told`. A
charge below half a unit is stored as 0, and its refund is refused as a zero
adjustment: such an order can be neither canceled nor failed.

`PrepaidShop` is the promise of ordering: a shop that serves one customer at a
time. `Buy` sells an order for a key and takes its price from the purse; `Wish`
notes an order that cannot be paid; `Promise`, `Accept` and `Reject` are
payments; an accepted one fills the purse and may grant its wish, by a new
order or by the one the wish's key already has; `GrantLater` is for a wish
whose payment is already accepted.

`Checkout` implements it, and `AuditedWallets` as well. It composes orders,
intents, deposits and the two money crons on one database. The mapping reads
the purse as the balance, the answers as the idempotency rows, the wishes as
the intents (granted when FULFILLED; expiry and failure are not the shop's
concern), the payments as the deposits without their gateway's details.
`Submit`, `Redirect`, `DraftOrder`, `Debit`, `CommitOrder` and their refusals
are `POST /orders`. `StartDeposit`, `CreateDeposit`, `Initiate` are the payment
route. `Confirm` and what follows is `confirmGatewayDeposit`, the same for
callback, webhook and cron: `ConfirmPaid` locks and re-reads the deposit,
`Credit` locks the wallet, one `Settle...` action commits. `Review...` is the
admin's decision. `ListFailed` and `Retry...` are the retry cron. The
environment changes the service's price and status, decides payments, lets
intents expire and crashes the process. `UpsertGatewayConfig` is the admin's
form for the gateway, the row `config`: a gateway that is not `enabled` opens no
payment and confirms none (`getEnabledGatewayCredentials` throws, and the cron
goes on with the next deposit), one without `autoVerify` holds what it confirms
for the admin.

`Fulfilment` takes an order that is placed and paid. `ListPending` (submit
cron) and `Resend` lead to `ProviderAccepts`, `ProviderRefuses` or
`ProviderAnswerLost`, at the primary and then the backup, and to
`MarkSubmitted` or `RecordError`. `ReadOrder`, `UpdateStatus`,
`UpdateThenRefund`, `Refund` are `updateOrderStatus`, reached from
`AdminUpdate`, `Poll`, `Refresh`, `Cancel` and the failed submission. `remote`
is what each provider accepted. The order keeps the provider's reference only,
so `AskProvider` and `CancelAccepted` go to the primary, as the code does. The
row `service` has what the crons read of it: whether it is `autoSubmit`, and
which providers it names (`linked`). `UpdateService` changes both; an order of
a service that names none is skipped by the submit cron and stays PENDING, and
one without a primary is not polled. Three history variables serve the
properties: `plain` (orders on which no two calls overlapped and that were not
revived after their refund), `orphaned` (accepted somewhere without the
database learning of it) and `acceptedBy`.

`Rewards` is what an approved deposit earns. Its row lock admits one
transaction per deposit, so `tx[d]` is the transaction of deposit d: `Open`,
`Principal` (which locks the customer's wallet and adds the method's bonus),
`CheckCoupon` and `Redeem`, `First` or `NotFirst`, `PayReferrer`, `Commit`.
`holds` are the rows it keeps locked, `rows` and `reward` its uncommitted
credits. The admin creates, edits and deletes coupons and edits the settings
meanwhile; expiry of a coupon is an edit that makes it inactive. `RewardRules`
has the sums, shared with `AtomicRewards`, which approves a deposit and pays
everything in one step; `Rewards` implements it. `AtomicRewards` does not say
when a coupon is granted beyond once per customer: its limit is what does not
hold. Ledger rows have no `balanceAfter` here; that is the wallet's subject.

`Vending` is the store's promise: a machine with a shelf and prepaid purses.
`Store` implements it. Its `clerk` is a job: a purchase (`Ask`), the payment of
an intent (`Pay`, which credits the wallet first and so holds its lock), an
iteration of the retry cron (`Retry`), an admin's revocation or deletion. All
purchases share `Look` (idempotency and the package's row), `ClaimCode` (`FOR
UPDATE SKIP LOCKED`), `Debit`, `Deliver` and `Refuse`; `Settle` is how a
transaction leaves its intent. `stash` is `OrderIntent`, `answers`
`IdempotencyKey`. An intent keeps its input after `removeCharacters` was
applied, which is why `Inputs` has a value that sanitizing changes: a payment
and a purchase with the same key then differ. `Refusal` has the reasons that
are rows of this module, and at `Look` also those that are not (access, order
limit): a package may be refused at any time. The mapping reads the shelf as
the AVAILABLE codes, the purses as the committed balances, the sales from the
idempotency rows. A code that is sold between the check and the write of a
revocation is shown as REVOKED afterwards, against the comment of
`revokeStockCode`; its sale stands.

`Sessions` is one account and the browsers it is used from. `tab` is the request
a tab has under way; `Refresh`, `Claim`, `Issue`, `Answer` are the statements
of `refreshSession` and the cookie its answer sets, `ClaimLost` and
`ReuseDetected` what happens to a token somebody else claimed, inside and after
the grace. `SetPassword` is the transaction of a reset or a change. Three
history variables: `epoch` counts revocations of all sessions, `crossed` marks
a request that had been checked and not inserted its token when one happened,
`disturbed` a browser whose session was ended or whose answer was lost or late.

`Support` follows a refill from `requestRefill` (`CheckRefill`, `SubmitRefill`,
`InsertRefill`) to the poll's or an admin's verdict, and a ticket from the
customer's message through the engine (`NextOrder`, `RecordAction`,
`FinishRun`) or an agent (`AgentAction`, `ReportAction`). `remote` is the
provider's word on each refill it took; `MappedRefill` understands some words
and takes any other ("Pending" is one) for IN_PROGRESS. A poll skips a refill
whose service has no provider any more (`linked`, changed by `UpdateService`)
and its call may throw (`PollFails`). A `desk` is a request; nothing in it locks
a row. What a reply writes to its ticket's orders was computed when it read the
ticket (`orders` of the desk). `seen`, kept with a row, is how many refills existed
when its request looked; `died` are tickets whose request the process took with
it. The engine's actions other than a refill are their outcome here: what they
do to an order is in `Fulfilment`.

`Campaigns` is both mass-mailing crons, which differ in what they send only. A
tick's snapshot of the cursors is `tick[t].from`, `Advanced` is the update at the
end of a batch, `reached` the history of who was sent to.

`MCPanel` checks these four in one run, and `Money` with them. They share no
table, no lock and no call (but for the wallet, of which `Money` has the
fractions and `Store` the rest), so `part` chooses the one a behaviour is about
and only that one acts: the state space is the sum of the five and not their
product, and nothing is lost, since no action of one reads what another writes.

The definitions called "Mutant" in comments are no part of any specification:
each is a plausible mistake that one property detects when it takes the place
of the definition it precedes.

## Runs

| Run | Checks | Bounds and why they are enough |
|---|---|---|
| wallet | `ImplementsAuditedWallets`, `ReadStaysCurrent`, `LocksGuardDrafts`, `TransactionsEnd` | two sessions, two wallets, two rows each: two sessions take two wallets in opposite orders, a session adjusts one wallet twice, an overdraft is refused |
| checkout_safety | `ImplementsPrepaidShop`, `ImplementsAuditedWallets`, `EveryOrderPaidOnce`, `CreditedIffApproved`, `FulfilledHasOrder`, `SettledStaysSettled` | one customer, one key, two jobs, two deposits, an intent: any two of replay, redirect, payment, review, retry meet on the same rows, one order form too dear for its payment; jobs are symmetric |
| checkout_liveness | `JobsEnd`, `PaidIsCredited`, `FailedIntentsRetried` | one intent, one deposit, and a crash, which the safety run leaves out, the gateway's `enabled` and `autoVerify` switched at will |
| checkout_replay (violated) | `ReplayNotAskedToPay` | |
| checkout_release (violated) | `PaidIsPlaced` | gateway enabled, `autoVerify` off |
| lifecycle_safety | `BalanceReconciles`, `MoneyFollowsStatus`, `SubmittedOnce` | one order, two jobs, primary and backup, each accepting it once at most, two requests of admins or customers beside the crons, one crash, `autoSubmit` switched at will: fail, resend, cancel, revive and every overlap of two calls |
| lifecycle_liveness | `JobsEnd`, `PendingIsResolved`, `CompletionRecorded` | one provider, taken from the service and named again at will; two requests are what a lock cycle needs |
| lifecycle_limbo (violated) | `CanceledNotCharged` | |
| lifecycle_backup (violated) | `BackupRecorded` | two providers, no request, no crash, the service left alone |
| rewards | `ImplementsAtomicRewards`, `DepositTellsItsCredits`, `EarningsMatchLog`, `RedemptionsCounted`, `PaidDepositsSettle` | a referrer and a referee, one coupon, two deposits of any of them, paid at a gateway or waiting for an admin, one interrupted transaction: both first deposits of one customer, two redemptions, and the lock cycle of coupon and wallet; amounts make every percentage whole |
| rewards_coupon_limit (violated) | `CouponLimitKept` | |
| panel | `StoreSellsOnce`, `PurchasesEnd` | one buyer, two keys, two clerks, four requests, one code in stock and room for another, prices at and above the opening balance, one intent: two purchases of the last code, a payment against a purchase with its key, a retry, a revocation or deletion in between |
| | `ExchangedOnce`, `RevokedTogether`, `TabsStaySignedIn` | two tabs of one browser and another browser, four acts of people or the network: two tabs refresh at once, a reset or a replay crosses a refresh, an answer is lost |
| | `OneOpenRefill`, `AuditTellsRefills`, `SupportAnswers` | a ticket about two orders, one at a provider, two desks, two acts of people (a request, a verdict, the provider taken from the service) and one failure or word of the provider, polls that fail at will: both desks on one order, a failure at the first order of a batch, a verdict during a poll, a listed refill whose service loses its provider |
| | `NobodySkipped`, `CampaignsComplete` | two ticks, batches of two, audiences of one and three, two campaigns, one crash: a batch that ends where the recipients do, a second batch, a stale cursor written over a newer one, a finished campaign reopened |
| | `FractionsAccounted` | two prices and two quantities whose products are 1234.5, 3086.25, 0.2 and 0.5 units, a bonus of 166.5 units, four bookings: a half in a debit, a half in a credit, a charge stored as nothing, a refund and a re-charge |

Each run with safety also checks its module's `TypeOK`. Three more invariants
are proved and in no run, because a refinement the run checks implies them:
`LedgerReconciles` and `WalletReconciles` (what `AuditedWallets` keeps of every
ledger) and `OneOrderPerKey` (what `PrepaidShop` keeps of its answers).
Deadlock checking is off in the lifecycle runs and wherever a cfg says so: when
the order is finished, or the bounded inputs are used up, the system rests.

`MoneyFollowsStatus` and `SubmittedOnce` hold for `plain` orders. That is the
point of the history variable: one unlocked read makes both false as soon as
two calls overlap on an order (lifecycle_limbo is the shortest such history),
and without an overlap they hold through failures, re-charges and crashes.
`SubmittedOnce` also leaves out orders with a lost acceptance, which the
providers' API gives no way to recognise.

What the properties of `panel` leave out is named in them. `RevokedTogether`
leaves out the token of a `crossed` request: `resetPassword` revokes the tokens
that exist, and a refresh between its claim and its insert adds one after.
`TabsStaySignedIn` speaks of browsers that are not `disturbed`; one that waited
longer than `REUSE_GRACE_MS` for its answer is treated as a replay.
`OneOpenRefill` allows a second open refill only to a request that looked before
the first was inserted, which the missing lock makes possible.
`AuditTellsRefills` and `SupportAnswers` leave out tickets in `died`: nothing
looks for a ticket left in AI_PROCESSING.

Four liveness properties ask for a configuration under which the code acts at
all, because without it the crons do nothing, and say so only in a log. Without
its antecedent each of them is violated in its run:

- `PaidIsCredited` asks that the gateway stays enabled and `autoVerify` on in
  the end. A payment made before its gateway was switched off waits until it is
  on again, or for an admin (`reconcilePendingDeposits.ts:30`).
- `PendingIsResolved` asks that the service stays `autoSubmit` and names a
  provider in the end. An order of an automatic service without one is skipped
  by every tick (`submitPendingOrders.ts:36`) and stays PENDING and charged. The
  header of that cron says the opposite, "a broken provider integration can
  never silently keep a customer's money" (lines 15-16); it is true of an
  integration that answers with errors, and not of one that was removed.
- `CompletionRecorded` asks that the service still names the primary
  (`pollOrderStatus.ts:17` skips it otherwise).
- `SupportAnswers` asks, of a refill, that its service names a provider in the
  end and that the provider's word is one `mapProviderRefillStatus` knows. Any
  other refill is IN_PROGRESS, and bars another of its order, until an admin
  resolves it (`pollRefillStatus.ts:16-28`).

## What the violated runs show

- checkout_replay: `createOrderOrRedirect` compares the balance before it looks
  for the Idempotency-Key. When the first request spent the money, its replay
  gets a 402 and a new intent instead of the order.
- checkout_release: with `autoVerify` off a paid deposit waits for an admin.
  `reviewDeposit` credits it but ignores its intent, and the retry cron lists
  FAILED intents only, so the PENDING one is never placed.
- lifecycle_limbo: Resend reads a FAILED order; an admin's cancel reads it too
  and finds no refund due; Resend re-charges and reopens it; the cancel is
  written. The order is canceled and charged.
- lifecycle_backup: the primary refuses, the backup accepts, the poll asks the
  primary. The order stays PROCESSING after the backup completed it. (When the
  primary uses the same number for another order, the poll would even record
  that order's status.)
- rewards_coupon_limit: two approvals read a coupon with one use left, both
  redeem it, and the increments, which are atomic, count past the limit.

The comment in `creditApprovedDeposit` expects a deadlock between two customers
who referred each other. A code exists only once its owner has registered, so
nobody can be referred by someone they referred (`ReferredByAssumption` needs
only that nobody refers themselves). The cycle `Rewards` does reach is another:
a referee who holds the coupon waits for the referrer's wallet, and the
referrer, with a deposit on the same coupon, waits for the coupon. A deposit
whose payment a gateway holds is confirmed again by the cron; an aborted review
of any other is repeated by its admin only, so `PaidDepositsSettle` speaks of
the former.

## Fairness

A started job goes on: its steps are strongly fair, since a job that waits for
a row lock is queued by Postgres and gets it in turn. The crons tick forever
(`cron/index.ts`), so listing a row a cron's query selects is strongly fair;
strong and not weak only because the bounded jobs of the model may be occupied
by other calls each time, which a server does not limit. Three assumptions are
about others than this server: asked again and again, an enabled gateway
answers in the end about each deposit (`Confirm`), a provider about each order
(`AskProvider`) and about each refill (`PollRefill`), so that calls which fail
are retried by a later tick and do not fail forever. Nothing is assumed of
customers, admins and what they configure, gateways' verdicts, providers'
progress, or the submission of an order being accepted. In `Rewards` the confirmation of a deposit whose
payment a gateway holds is fair, and no review is. The wallet's sessions may
call without end, so their fairness is that of finishing: commit, write, lock
grant, deadlock abort. In `Store`, `Support` and `Campaigns` the steps of a
job, a request or a tick that has begun are weakly fair, and the crons tick
forever: in the store weak fairness is enough for a job that waits for a lock,
which Postgres grants in turn, because the bounded requests cannot take it
again without end; the other two take no locks. `Campaigns` has its query's
limit (`PerTick`) and shows that it starves nobody, for a finished campaign
leaves the list. `Sessions` states safety only and assumes nothing. The limits
of the other crons' queries (25, 100, 200 rows) are not modelled; with more
rows than that waiting at the head, the listing is not fair.

## Proofs

Eight modules hold the proofs, one for each component; the campaigns and
`Money` share theirs with the panel. Every safety property a passing run checks
has its theorem, and so have the five refinements. They hold for every value of
the constants, from the assumptions named where the constants are declared.
Most say what a type would (amounts, prices and bounds are numbers, the special
values are none of the rows). Four say a little more: `OrdersAssumption` and
`DesksAssumption` (orders and requests under way are finitely many; sums and
counts are taken over them), `OffersAssumption` (there is at least one coupon
form to fill in) and `ReferredByAssumption` (nobody refers themselves).

The invariants the runs check are seldom inductive. What each needs in addition
is what a job may rely on between two of its steps, and it has the same form
everywhere: a predicate on the job and the rows it has locked or read, which
the job's own steps establish and the steps of others preserve, because they
respect the lock or cannot touch the row. A lemma per action proves the job's
part; one about the others (`JobStep`, `KeptSound`, `StillSound` and the like)
is shared. The runs check the same properties on their instances.

`WalletProofs`. `LedgerReconciles` does not say that the rows a commit appends
continue the committed balance. The invariant adds `LocksGuardDrafts`
(uncommitted rows belong to the holder of the row lock and chain from the
committed balance) and `ReadStaysCurrent` (a write applies to the balance its
locking read saw). `AppendRow` and `CommitRows` are the two facts about
ledgers: a permitted row extends a chain, and a chain appended to a chain that
ends where it starts is a chain. The lock is used in `CommitIInv`, where
another session's draft on a wallet that changes must be empty. `Refinement`
shows that a commit is a `Transact` step of `AuditedWallets` and any other step
leaves balance and ledger unchanged.

`CheckoutProofs`. `Sound` is about the tables alone: an order has its debit and
its key, a credit its approved deposit, a fulfilled intent its order. The
writes a transaction is made of keep it so one after another, so the lemmas
about them are shared by requests, payments, reviews and retries. `JobSound` is
the other half: a job about to commit an order holds the wallet's lock, and the
balance covers the charge; one that settles a deposit holds its lock, and the
deposit is still PENDING. `DepositsCreditedOnce`, `OrdersPaidOnce`,
`KeysPlaceOnce`, `FulfilledPlaced`, `WalletsReconcile` and `OutcomesFinal`
follow. Nothing is assumed about a key: two requests may have it, and the one
that commits second is refused by the unique index.

`WalletsAudited` and `SellsAsAShop` are the two refinements. The first goes
over the writes: each commit posts a sequence of rows that continues a
committed ledger, and everything else leaves the ledgers alone. For the second
the tables are seen through the mapping (`WishesIn`, `PaymentsIn`), and a lemma
per write says what it does to that view. The invariant needs `Remembers`
besides: what a job took from rows it no longer holds is still right, so that
the charge it commits is a price of the service times the quantity asked, an
intent that is retried has been paid for, and the intent a confirmation settles
is its deposit's. A commit of a confirmation is then an `Accept`, with or
without its grant; a retry that places, or finds the order its key has, is a
`GrantLater`, because a deposit of a listed intent is APPROVED and stays so; a
request is a `Buy` or a `Wish`; the rest changes nothing the shop shows.

`RewardsProofs`. `Gathered` says of an open approval that what it has gathered
is what some settings, percentage and offer, each in force when it was read,
give this customer. "First deposit" and "coupon not used" are read without a
lock of their own; they stay true until the commit because the approval holds
the customer's wallet row, which any other approval for this customer needs.
This is also the step of `Implements`: at its commit an approval does what
`AtomicRewards` does at once with those settings. `CountsAgree` needs the
coupon's row lock besides. `DepositsTold` and `EarningsAgree` are about sums.
The first needs that a deposit nobody has approved has no rows yet; the second
that a commit writes the referrer's earnings, the log and the referrer's
ledger together, and no other deposit of this referee can be its first.

`FulfilmentProofs`. Orders are not locked while a provider is asked, so the
invariant is about `plain` orders: such an order has one job at most, and what
the job has read of it is still so (`StillSo`) when it writes. `PlainSound`
ties the status to the charges and refunds, with the half-done states of a
refund or a re-charge, and gives `MoneyFollows`. `DeliveredOnce` relates the
order's reference to what the providers have accepted, and gives
`DeliveredAtMostOnce`. `Serviced` keeps what an admin makes of the service apart
from both. `BalanceAlwaysReconciles` holds for any overlap: the
balance is a sum over all orders, and each step changes one summand and the
balance by the same.

`StoreProofs`. `Sound` says that a code a job has claimed is AVAILABLE until
it is sold, that the balance read under the wallet's lock is still the
balance, and that the job of an intent brings what was paid for it unless an
earlier one did; `Apart`, that two jobs share no lock and no intent. `SKIP
LOCKED` establishes the first, and an admin's revocation waits for the lock.
`SellsOnce` is the refinement: a delivery is a `Sell` of `Vending`, whose
request is new since the answer's row is still empty, a payment whose order
fails is a `PayIn`, an added code a `Restock` (its number is above every sold
one), a revocation or a deletion a `Withdraw`, and every other step changes
nothing the machine shows. `PaidMore` is the lemma about `PaymentsOf`.

`SessionProofs`. `ExchangedOnce` does not say that a request about to insert a
token is the only one that claimed the old token, or that this one has no
successor yet. `RequestsSound` says both, and that the request is of the
current epoch unless it was crossed; `Descent` is `ExchangedOnce` with the fact
that parents are rows. `Claim` establishes `Claimed` from `Descent`, since an
unrevoked token has no successor and no request holds it past its claim;
`Issue` uses it up; `RevokeAll` moves the epoch and crosses whoever is left
behind. `TabsShareOneSession` has an invariant of its own, `HandsSound`: a token
on its way to a browser is in nobody else's hands yet and, if the browser is
undisturbed, not revoked.

`SupportProofs`. The invariant is `IInv` and, apart from it because no step but
the admin's touches it, `Linked`. A request looks for an open refill and inserts its own later,
with no lock. What stays true in between is that rows are only added and that a
settled one stays settled, so the rows it has `seen` remain settled or another
order's: a second open refill belongs to a request that looked before the first
existed. For the audit, a refill that is not told of yet is on exactly one desk
(`Told` counts them).

`PanelProofs` has the campaigns, then money, then the panel as a whole. A tick
writes a cursor it computed from an old row. `TicksSound` says what the old
cursor is still good for: everybody before it was sent to, and counted, and so
was everybody of the batch so far. Since counts only grow and nobody is unsent
to, writing it back keeps `RowsSound`, even when it moves the cursor backwards.

What `RoundingAccounted` says of `Money` is about the fractions of any price,
quantity and percentage. `CreditExact` and `DebitDrifts` compare the two
roundings, of the balance and of the row, when a fraction is added and when one
is taken away; the drift and the cancelled rows are inductive with the types.
So the schema's comment that the history of a balance "must always be
reconstructable" (`prisma/schema.prisma:607`) is true up to one unit, 0.0001,
per order whose price ends in half a unit: 5000 - 1234.5 is stored as 3766 and
the row's amount as -1235.

`PartsRun` shows that the composed `PanelSpec` implies the specification of
each of the five parts, its fairness included: a step of another part is a
stutter of this one. So everything proved of a part holds of the panel:
`PanelTypesKept` and `PanelIsSafe` collect it.

Sums are written as recursive functions or over sets (`Total`, `LogTotal`,
`PaymentsOf`, the balance of `Fulfilment`). The prover has no induction
principle it can instantiate with a formula, but the well-foundedness of < on
the naturals can be cited for a *set* of numbers (`EveryNatural`, from
`WFMin`): the set of those for which the claim holds is everything. With it the
proofs show that a function with the defining equation exists and is unique,
and then how its value changes with a step. No module with a theorem reaches a
`RECURSIVE` operator.

Only model-checked is liveness, which is outside the prover's reach:
`TransactionsEnd`, `JobsEnd` (of `Checkout` and of `Fulfilment`),
`PaidIsCredited`, `FailedIntentsRetried`, `PendingIsResolved`,
`CompletionRecorded`, `PaidDepositsSettle`, `PurchasesEnd`, `SupportAnswers`
and `CampaignsComplete`.

## Not modelled

- The web front end, its translations, the schemas of `packages/shared`, the
  generated Prisma client: more than half of the repository's lines. They hold
  no shared state and run no protocol; what the browser contributes to one,
  the refresh cookie and its single-flight refresh, is in `Sessions`. For the
  same reason the models stand for a small part of all lines, and for most of
  the service code that more than one actor can be inside of.
- Catalogue, products, content, settings pages, statistics, API keys: one row
  read or written by one statement. What orders and purchases read of them
  changes freely in the models (`SetService`, `UpdateService`,
  `UpsertGatewayConfig`, `EditPackage`, the settings of `Rewards`).
- User administration, but for suspension. `assertNotLastAdmin` counts admins
  and writes later, so two admins can demote each other; it is listed as a
  hazard.
- The gateways' and providers' own protocols: `Checkout` and `Fulfilment` have
  the answers they can give. Importing a provider's catalogue updates rows one
  at a time and may be repeated.
- Notifications: sent after the commit, never awaited, no state.
- Rounding outside `Money`: the amounts of the other modules are whole, so what
  `Money` shows of a half unit comes on top of what they show.

## Next steps

1. Fractions of several bonuses of one deposit: `bonusAmount` rounds their sum,
   the ledger each of them, so the two can differ by a unit.
2. Action properties worth a theorem: a campaign's counts only grow, an order
   that was refunded and left alone is not charged again.
3. User administration: `assertNotLastAdmin` under two concurrent demotions.

Runs are bounded to seconds or a few minutes each.
