------------------------------ MODULE Checkout ------------------------------
(***************************************************************************)
(* Buying from a prepaid wallet: apps/api's order placement with its       *)
(* Idempotency-Key, the redirect of an order the wallet cannot cover to a  *)
(* gateway payment (OrderIntent), the deposits that payment and admins     *)
(* confirm, and the cron that retries a paid order that was not placed.    *)
(*                                                                         *)
(* A job is one HTTP request or one iteration of a cron tick.  Jobs run    *)
(* concurrently; a step of a job is the code between two points where      *)
(* another job's commit can be seen or where it waits for a row lock.      *)
(* Consecutive unlocked reads that only choose a branch are one step.  A   *)
(* transaction's writes are kept in its job until it commits, its row      *)
(* locks are held until it ends, and a crash drops both.                   *)
(*                                                                         *)
(* The order form is its quantity (the link is part of the same request    *)
(* hash), and there is one service; every wallet starts empty, so all      *)
(* money comes from the deposits of the model.                             *)
(***************************************************************************)
EXTENDS Ledger, FiniteSets

CONSTANTS Users, Keys,    \* customers and the Idempotency-Keys they send
          Quantities,     \* the order forms
          MinQuantity, MaxQuantity,
          Prices,         \* prices the admin sets on the service
          Amounts,        \* amounts of a deposit
          Enabled, AutoVerify,   \* settings of the gateway's switches
          Jobs, NoJob,
          MaxIntents, MaxDeposits, MaxCrashes   \* bounds (model checking)

ASSUME QuantitiesAssumption == Quantities \subseteq Nat \ {0}
ASSUME PricesAssumption == Prices \subseteq Nat
ASSUME AmountsAssumption == Amounts \subseteq Nat \ {0}
ASSUME SwitchesAssumption == Enabled \subseteq BOOLEAN /\ AutoVerify \subseteq BOOLEAN
ASSUME JobsAssumption == NoJob \notin Jobs
ASSUME BoundsAssumption == /\ MinQuantity \in Nat /\ MaxQuantity \in Nat
                           /\ MaxIntents \in Nat /\ MaxDeposits \in Nat
                           /\ MaxCrashes \in Nat

VARIABLES
  service,      \* the Service row: price and status ACTIVE
  config,       \* PaymentGatewayConfig: enabled and autoVerify
  gateway,      \* what the gateway says of each payment
  balance, ledger,
  orders,       \* Order rows, oldest first
  keys,         \* IdempotencyKey rows, by user and key
  intents,      \* OrderIntent rows
  deposits,     \* Deposit rows
  walletLock, depositLock, intentLock,
  job,          \* what each job is doing
  crashes

db == <<balance, ledger, orders, keys, intents, deposits>>
locks == <<walletLock, depositLock, intentLock>>
world == <<service, config, gateway>>
vars == <<world, db, locks, job, crashes>>

NoRef == 0
NoKeyRow == [quantity |-> 0, order |-> NoRef]
Idle == [at |-> "idle", user |-> NoRef, key |-> NoRef, quantity |-> 0,
         charge |-> 0, deposit |-> NoRef, intent |-> NoRef]

Init ==
  /\ service \in [price : Prices, active : {TRUE}]
  /\ config \in [enabled : Enabled, autoVerify : AutoVerify]
  /\ gateway = [d \in 1..MaxDeposits |-> "PENDING"]
  /\ balance = [u \in Users |-> 0]
  /\ ledger = [u \in Users |-> <<>>]
  /\ orders = <<>> /\ intents = <<>> /\ deposits = <<>>
  /\ keys = [u \in Users |-> [k \in Keys |-> NoKeyRow]]
  /\ walletLock = [u \in Users |-> NoJob]
  /\ depositLock = [d \in 1..MaxDeposits |-> NoJob]
  /\ intentLock = [i \in 1..MaxIntents |-> NoJob]
  /\ job = [p \in Jobs |-> Idle]
  /\ crashes = 0

-----------------------------------------------------------------------------
(* Pieces of the handlers.                                                 *)

At(p, where) == job[p].at = where

(* The bound on a table's rows, counting the jobs about to insert one. *)
Room(where, table, bound) ==
  Len(table) + Cardinality({p \in Jobs : At(p, where)}) < bound

(* The service and quantity checks of placeOrderInTransaction. *)
Orderable(q) == service.active /\ q \in MinQuantity..MaxQuantity
Charge(q) == service.price * q

Free(lock, p) == lock \in {NoJob, p}

(* Mutant: a finished transaction leaves its deposit locked. *)
FinishKeepsDepositLock(p) ==
  /\ job' = [job EXCEPT ![p] = Idle]
  /\ walletLock' = [u \in Users |-> IF walletLock[u] = p THEN NoJob
                                                       ELSE walletLock[u]]
  /\ intentLock' = [i \in DOMAIN intentLock |->
                       IF intentLock[i] = p THEN NoJob ELSE intentLock[i]]
  /\ UNCHANGED <<world, crashes, depositLock>>

(* The end of a transaction: its locks are released, its job is done. *)
Finish(p) ==
  /\ job' = [job EXCEPT ![p] = Idle]
  /\ walletLock' = [u \in Users |-> IF walletLock[u] = p THEN NoJob
                                                       ELSE walletLock[u]]
  /\ depositLock' = [d \in DOMAIN depositLock |->
                       IF depositLock[d] = p THEN NoJob ELSE depositLock[d]]
  /\ intentLock' = [i \in DOMAIN intentLock |->
                       IF intentLock[i] = p THEN NoJob ELSE intentLock[i]]
  /\ UNCHANGED <<world, crashes>>

(* The ledger rows a commit adds to u's wallet, and the balance they leave. *)
Post(u, rows) ==
  /\ ledger' = [ledger EXCEPT ![u] = @ \o rows]
  /\ balance' = [balance EXCEPT ![u] = FinalBalance(@, rows)]

LedgerLine(b, amount, type, ref) ==
  [amount |-> amount, balanceAfter |-> b + amount, type |-> type, ref |-> ref]

DepositLine(d) ==
  LedgerLine(balance[deposits[d].user], deposits[d].amount, "DEPOSIT", d)

(* The debit of the order about to be created, on a balance of b. *)
OrderLine(b, charge) ==
  LedgerLine(b, -charge, "ORDER_DEBIT", Len(orders) + 1)

(* order.create and idempotencyKey.create, once they commit. *)
InsertOrder(u, k, q, charge) ==
  /\ orders' = Append(orders, [user |-> u, key |-> k, quantity |-> q,
                               charge |-> charge])
  /\ keys' = [keys EXCEPT ![u][k] = [quantity |-> q,
                                     order |-> Len(orders) + 1]]

SetIntent(i, status, order) ==
  intents' = [intents EXCEPT ![i].status = status, ![i].order = order]

(* Mutant: the admin's verb is stored instead of the status. *)
SetDepositVerb(d, status) ==
  deposits' = [deposits EXCEPT ![d].status =
                 IF status = "APPROVED" THEN "APPROVE" ELSE "REJECT"]
SetDeposit(d, status) == deposits' = [deposits EXCEPT ![d].status = status]

-----------------------------------------------------------------------------
(* POST /orders: createOrderOrRedirect.                                    *)

(* Reads the service and the balance, unlocked, and chooses the branch. *)
Submit(p, u, k, q) ==
  /\ At(p, "idle") /\ Orderable(q)
  /\ balance[u] < Charge(q) => Room("redirect", intents, MaxIntents)
  /\ job' = [job EXCEPT ![p] =
       [Idle EXCEPT !.user = u, !.key = k, !.quantity = q,
          !.at = IF balance[u] >= Charge(q) THEN "place" ELSE "redirect"]]
  /\ UNCHANGED <<world, db, locks, crashes>>

(* The 402: the order is stashed as an intent and the customer sent to pay. *)
Redirect(p) ==
  /\ At(p, "redirect")
  /\ intents' = Append(intents,
       [user |-> job[p].user, key |-> job[p].key,
        quantity |-> job[p].quantity, status |-> "PENDING",
        order |-> NoRef, expired |-> FALSE])
  /\ UNCHANGED <<balance, ledger, orders, keys, deposits>>
  /\ Finish(p)

(* placeOrderInTransaction answers a replay, or refuses, before any write. *)
AnswerWithoutWriting(p) ==
  LET row == keys[job[p].user][job[p].key]
  IN /\ At(p, "place")
     /\ row # NoKeyRow \/ ~Orderable(job[p].quantity)
     /\ UNCHANGED db
     /\ Finish(p)

(* The order row is written, at the price the service has now. *)
DraftOrder(p) ==
  /\ At(p, "place")
  /\ keys[job[p].user][job[p].key] = NoKeyRow
  /\ Orderable(job[p].quantity)
  /\ job' = [job EXCEPT ![p].at = "debit",
                        ![p].charge = Charge(job[p].quantity)]
  /\ UNCHANGED <<world, db, locks, crashes>>

(* The debit: the wallet row is locked; a balance that does not cover it   *)
(* rolls the order back.                                                   *)
Debit(p) ==
  LET u == job[p].user
  IN /\ At(p, "debit") /\ Free(walletLock[u], p)
     /\ Adjustable(balance[u], -job[p].charge)
     /\ walletLock' = [walletLock EXCEPT ![u] = p]
     /\ job' = [job EXCEPT ![p].at = "commit"]
     /\ UNCHANGED <<world, db, depositLock, intentLock, crashes>>

DebitRefused(p) ==
  /\ At(p, "debit") /\ Free(walletLock[job[p].user], p)
  /\ ~Adjustable(balance[job[p].user], -job[p].charge)
  /\ UNCHANGED db
  /\ Finish(p)

(* Mutant: no unique constraint on (userId, key). *)
CommitWithoutUnique(p) ==
  LET u == job[p].user  k == job[p].key
  IN /\ At(p, "commit")
     /\ InsertOrder(u, k, job[p].quantity, job[p].charge)
     /\ Post(u, <<OrderLine(balance[u], job[p].charge)>>)
     /\ UNCHANGED <<intents, deposits>>
     /\ Finish(p)

(* The key is inserted and the transaction commits... *)
CommitOrder(p) ==
  LET u == job[p].user  k == job[p].key
  IN /\ At(p, "commit")
     /\ keys[u][k] = NoKeyRow
     /\ InsertOrder(u, k, job[p].quantity, job[p].charge)
     /\ Post(u, <<OrderLine(balance[u], job[p].charge)>>)
     /\ UNCHANGED <<intents, deposits>>
     /\ Finish(p)

(* ... unless the same key was committed meanwhile: P2002, a 409. *)
DuplicateKey(p) ==
  /\ At(p, "commit")
  /\ keys[job[p].user][job[p].key] # NoKeyRow
  /\ UNCHANGED db
  /\ Finish(p)

-----------------------------------------------------------------------------
(* POST /payments/:gateway/deposits, and the manual deposit form.          *)

(* The intent the customer came with is kept only if it is still theirs,   *)
(* PENDING and unexpired; otherwise the deposit is a plain top-up.  A      *)
(* disabled gateway refuses the request.                                   *)
StartDeposit(p, u, i) ==
  /\ At(p, "idle") /\ config.enabled
  /\ i \in {NoRef} \cup DOMAIN intents
  /\ Room("create", deposits, MaxDeposits)
  /\ LET kept == /\ i # NoRef
                 /\ intents[i].user = u
                 /\ intents[i].status = "PENDING"
                 /\ ~intents[i].expired
     IN job' = [job EXCEPT ![p] =
                  [Idle EXCEPT !.at = "create", !.user = u,
                               !.intent = IF kept THEN i ELSE NoRef]]
  /\ UNCHANGED <<world, db, locks, crashes>>

(* The Deposit row is created before the gateway is called. *)
CreateDeposit(p, amount) ==
  /\ At(p, "create")
  /\ deposits' = Append(deposits,
       [user |-> job[p].user, amount |-> amount, status |-> "PENDING",
        intent |-> job[p].intent, gatewayRef |-> FALSE])
  /\ job' = [job EXCEPT ![p].at = "initiate",
                        ![p].deposit = Len(deposits) + 1]
  /\ UNCHANGED <<world, balance, ledger, orders, keys, intents, locks, crashes>>

(* adapter.initiate answers and the reference is stored ... *)
Initiate(p) ==
  /\ At(p, "initiate")
  /\ deposits' = [deposits EXCEPT ![job[p].deposit].gatewayRef = TRUE]
  /\ UNCHANGED <<balance, ledger, orders, keys, intents>>
  /\ Finish(p)

(* ... or it fails, a 502: the deposit stays without a reference.          *)
InitiateFails(p) ==
  /\ At(p, "initiate")
  /\ UNCHANGED db
  /\ Finish(p)

(* createManualDeposit: a deposit no gateway knows, for an admin to review.*)
CreateManualDeposit(u, amount) ==
  /\ Room("create", deposits, MaxDeposits)
  /\ deposits' = Append(deposits,
       [user |-> u, amount |-> amount, status |-> "PENDING",
        intent |-> NoRef, gatewayRef |-> FALSE])
  /\ UNCHANGED <<world, balance, ledger, orders, keys, intents, locks, job,
                 crashes>>

-----------------------------------------------------------------------------
(* confirmGatewayDeposit, from the callback, the webhook or the cron.      *)

(* Mutant: autoVerify is taken to be off. *)
ConfirmDistrusting(p, d) ==
  /\ At(p, "idle") /\ d \in DOMAIN deposits /\ deposits[d].gatewayRef
  /\ config.enabled /\ gateway[d] # "PENDING"
  /\ job' = [job EXCEPT ![p] =
       [Idle EXCEPT !.user = deposits[d].user, !.deposit = d,
          !.at = IF gateway[d] = "FAILED" THEN "fail" ELSE "verified"]]
  /\ UNCHANGED <<world, db, locks, crashes>>

(* The gateway's credentials and autoVerify were read and adapter.confirm  *)
(* asked it: what they said is all the transaction is given.  A PENDING    *)
(* answer changes nothing, nor does the call for a disabled gateway, which *)
(* throws (getEnabledGatewayCredentials).                                  *)
Confirm(p, d) ==
  /\ At(p, "idle") /\ d \in DOMAIN deposits /\ deposits[d].gatewayRef
  /\ config.enabled /\ gateway[d] # "PENDING"
  /\ job' = [job EXCEPT ![p] =
       [Idle EXCEPT !.user = deposits[d].user, !.deposit = d,
          !.at = CASE gateway[d] = "FAILED" -> "fail"
                   [] gateway[d] = "PAID" /\ config.autoVerify -> "paid"
                   [] OTHER -> "verified"]]
  /\ UNCHANGED <<world, db, locks, crashes>>

(* lockDeposit, then the re-read: an already resolved deposit is a no-op,  *)
(* and without autoVerify a verified one only gets a note for the admin.   *)
ConfirmNothing(p) ==
  LET d == job[p].deposit
  IN /\ \/ At(p, "verified")
        \/ job[p].at \in {"paid", "fail"} /\ deposits[d].status # "PENDING"
     /\ Free(depositLock[d], p)
     /\ UNCHANGED db
     /\ Finish(p)

ConfirmFailed(p) ==
  LET d == job[p].deposit
  IN /\ At(p, "fail")
     /\ Free(depositLock[d], p) /\ deposits[d].status = "PENDING"
     /\ SetDeposit(d, "REJECTED")
     /\ UNCHANGED <<balance, ledger, orders, keys, intents>>
     /\ Finish(p)

(* Mutant: the status is not read again under the lock. *)
ConfirmPaidUnchecked(p) ==
  LET d == job[p].deposit
  IN /\ At(p, "paid") /\ Free(depositLock[d], p)
     /\ depositLock' = [depositLock EXCEPT ![d] = p]
     /\ job' = [job EXCEPT ![p].at = "credit"]
     /\ UNCHANGED <<world, db, walletLock, intentLock, crashes>>

ConfirmPaid(p) ==
  LET d == job[p].deposit
  IN /\ At(p, "paid")
     /\ Free(depositLock[d], p) /\ deposits[d].status = "PENDING"
     /\ depositLock' = [depositLock EXCEPT ![d] = p]
     /\ job' = [job EXCEPT ![p].at = "credit"]
     /\ UNCHANGED <<world, db, walletLock, intentLock, crashes>>

(* creditApprovedDeposit takes the wallet lock the rest of the transaction *)
(* runs under.                                                             *)
Credit(p) ==
  LET u == job[p].user
  IN /\ At(p, "credit") /\ Free(walletLock[u], p)
     /\ walletLock' = [walletLock EXCEPT ![u] = p]
     /\ job' = [job EXCEPT ![p].at = "settle",
                           ![p].intent = deposits[job[p].deposit].intent]
     /\ UNCHANGED <<world, db, depositLock, intentLock, crashes>>

(* The approval and the credit commit with whatever the intent came to. *)
Approve(p, rows) ==
  /\ SetDeposit(job[p].deposit, "APPROVED")
  /\ Post(job[p].user, rows)
  /\ Finish(p)

(* No intent, or one that is no longer PENDING: the money stays in the     *)
(* wallet.                                                                 *)
SettleTopUp(p) ==
  LET i == job[p].intent
  IN /\ At(p, "settle")
     /\ i # NoRef => intents[i].status # "PENDING"
     /\ Approve(p, <<DepositLine(job[p].deposit)>>)
     /\ UNCHANGED <<orders, keys, intents>>

(* fulfillOrderIntent is entered: the intent is PENDING and its row free.  *)
Fulfilling(p) ==
  LET i == job[p].intent
  IN /\ At(p, "settle") /\ i # NoRef
     /\ intents[i].status = "PENDING" /\ Free(intentLock[i], p)

SettleExpired(p) ==
  /\ Fulfilling(p) /\ intents[job[p].intent].expired
  /\ SetIntent(job[p].intent, "EXPIRED", NoRef)
  /\ Approve(p, <<DepositLine(job[p].deposit)>>)
  /\ UNCHANGED <<orders, keys>>

(* What placeOrderInTransaction does with intent i on a balance of b.      *)
Replayed(i) ==
  keys[intents[i].user][intents[i].key].quantity = intents[i].quantity
Placeable(i, b) ==
  /\ keys[intents[i].user][intents[i].key] = NoKeyRow
  /\ Orderable(intents[i].quantity)
  /\ Adjustable(b, -Charge(intents[i].quantity))

(* The key already has its order: the intent gets that one.                *)
SettleReplayed(p) ==
  LET i == job[p].intent
  IN /\ Fulfilling(p) /\ ~intents[i].expired /\ Replayed(i)
     /\ SetIntent(i, "FULFILLED", keys[intents[i].user][intents[i].key].order)
     /\ Approve(p, <<DepositLine(job[p].deposit)>>)
     /\ UNCHANGED <<orders, keys>>

(* Mutant: the debit is computed on the balance before the credit. *)
SettlePlacedOnOldBalance(p) ==
  LET i == job[p].intent
      line == DepositLine(job[p].deposit)
      charge == Charge(intents[i].quantity)
  IN /\ Fulfilling(p) /\ ~intents[i].expired
     /\ Placeable(i, line.balanceAfter)
     /\ InsertOrder(intents[i].user, intents[i].key, intents[i].quantity,
                    charge)
     /\ SetIntent(i, "FULFILLED", Len(orders) + 1)
     /\ Approve(p, <<line, OrderLine(balance[job[p].user], charge)>>)

SettlePlaced(p) ==
  LET i == job[p].intent
      line == DepositLine(job[p].deposit)
      charge == Charge(intents[i].quantity)
  IN /\ Fulfilling(p) /\ ~intents[i].expired
     /\ Placeable(i, line.balanceAfter)
     /\ InsertOrder(intents[i].user, intents[i].key, intents[i].quantity,
                    charge)
     /\ SetIntent(i, "FULFILLED", Len(orders) + 1)
     /\ Approve(p, <<line, OrderLine(line.balanceAfter, charge)>>)

(* Mutant: the error is caught without ROLLBACK TO SAVEPOINT. *)
SettleFailedKeepsOrder(p) ==
  LET i == job[p].intent
      line == DepositLine(job[p].deposit)
  IN /\ Fulfilling(p) /\ ~intents[i].expired
     /\ ~Replayed(i) /\ ~Placeable(i, line.balanceAfter)
     /\ orders' = Append(orders,
          [user |-> intents[i].user, key |-> intents[i].key,
           quantity |-> intents[i].quantity,
           charge |-> Charge(intents[i].quantity)])
     /\ SetIntent(i, "FAILED", NoRef)
     /\ Approve(p, <<line>>)
     /\ UNCHANGED keys

(* The placement threw: ROLLBACK TO SAVEPOINT drops the order and keeps    *)
(* the credit.                                                             *)
SettleFailed(p) ==
  LET i == job[p].intent
      line == DepositLine(job[p].deposit)
  IN /\ Fulfilling(p) /\ ~intents[i].expired
     /\ ~Replayed(i) /\ ~Placeable(i, line.balanceAfter)
     /\ SetIntent(i, "FAILED", NoRef)
     /\ Approve(p, <<line>>)
     /\ UNCHANGED <<orders, keys>>

-----------------------------------------------------------------------------
(* reviewDeposit: an admin approves or rejects.                            *)

Review(p, d, action) ==
  /\ At(p, "idle") /\ d \in DOMAIN deposits
  /\ job' = [job EXCEPT ![p] = [Idle EXCEPT !.user = deposits[d].user,
                                            !.deposit = d, !.at = action]]
  /\ UNCHANGED <<world, db, locks, crashes>>

AlreadyReviewed(p) ==
  LET d == job[p].deposit
  IN /\ job[p].at \in {"approve", "reject"}
     /\ Free(depositLock[d], p) /\ deposits[d].status # "PENDING"
     /\ UNCHANGED db
     /\ Finish(p)

ReviewReject(p) ==
  LET d == job[p].deposit
  IN /\ At(p, "reject")
     /\ Free(depositLock[d], p) /\ deposits[d].status = "PENDING"
     /\ SetDeposit(d, "REJECTED")
     /\ UNCHANGED <<balance, ledger, orders, keys, intents>>
     /\ Finish(p)

ReviewApprove(p) ==
  LET d == job[p].deposit
  IN /\ At(p, "approve")
     /\ Free(depositLock[d], p) /\ deposits[d].status = "PENDING"
     /\ depositLock' = [depositLock EXCEPT ![d] = p]
     /\ job' = [job EXCEPT ![p].at = "release"]
     /\ UNCHANGED <<world, db, walletLock, intentLock, crashes>>

(* The credit of an admin's approval; unlike a confirmed payment it leaves *)
(* the deposit's intent alone.                                             *)
ReviewCredit(p) ==
  /\ At(p, "release") /\ Free(walletLock[job[p].user], p)
  /\ Approve(p, <<DepositLine(job[p].deposit)>>)
  /\ UNCHANGED <<orders, keys, intents>>

-----------------------------------------------------------------------------
(* cron/retryFailedOrderIntents, one candidate.                            *)

PaidFor(i) == \E d \in DOMAIN deposits : /\ deposits[d].intent = i
                                        /\ deposits[d].status = "APPROVED"

(* Mutant: the tick lists the PENDING intents. *)
ListPending(p, i) ==
  /\ At(p, "idle") /\ i \in DOMAIN intents
  /\ intents[i].status = "PENDING" /\ ~intents[i].expired /\ PaidFor(i)
  /\ job' = [job EXCEPT ![p] = [Idle EXCEPT !.user = intents[i].user,
                                            !.intent = i, !.at = "retry"]]
  /\ UNCHANGED <<world, db, locks, crashes>>

(* The query of the tick lists it. *)
ListFailed(p, i) ==
  /\ At(p, "idle") /\ i \in DOMAIN intents
  /\ intents[i].status = "FAILED" /\ ~intents[i].expired /\ PaidFor(i)
  /\ job' = [job EXCEPT ![p] = [Idle EXCEPT !.user = intents[i].user,
                                            !.intent = i, !.at = "retry"]]
  /\ UNCHANGED <<world, db, locks, crashes>>

(* The intent is locked and read again; fulfillOrderIntent goes on from    *)
(* there.  Every ending but the last waits for no wallet.                  *)
RetryEnd(p, outcome, status, order) ==
  LET i == job[p].intent
  IN /\ At(p, "retry") /\ Free(intentLock[i], p)
     /\ outcome
     /\ SetIntent(i, status, order)
     /\ UNCHANGED <<balance, ledger, orders, keys, deposits>>
     /\ Finish(p)

RetryResolved(p) ==
  LET i == job[p].intent
  IN RetryEnd(p, intents[i].status # "FAILED", intents[i].status,
              intents[i].order)

(* Mutant: the status is not read again under the lock. *)
RetryExpiredUnchecked(p) ==
  RetryEnd(p, intents[job[p].intent].expired, "EXPIRED", NoRef)

RetryExpired(p) ==
  LET i == job[p].intent
  IN RetryEnd(p, intents[i].status = "FAILED" /\ intents[i].expired,
              "EXPIRED", NoRef)

RetryReplayed(p) ==
  LET i == job[p].intent
  IN RetryEnd(p, /\ intents[i].status = "FAILED" /\ ~intents[i].expired
                 /\ Replayed(i),
              "FULFILLED", keys[intents[i].user][intents[i].key].order)

RetryRefused(p) ==
  LET i == job[p].intent
  IN RetryEnd(p, /\ intents[i].status = "FAILED" /\ ~intents[i].expired
                 /\ ~Replayed(i)
                 /\ \/ keys[intents[i].user][intents[i].key] # NoKeyRow
                    \/ ~Orderable(intents[i].quantity),
              "FAILED", NoRef)

RetryDraft(p) ==
  LET i == job[p].intent
  IN /\ At(p, "retry") /\ Free(intentLock[i], p)
     /\ intents[i].status = "FAILED" /\ ~intents[i].expired
     /\ keys[intents[i].user][intents[i].key] = NoKeyRow
     /\ Orderable(intents[i].quantity)
     /\ intentLock' = [intentLock EXCEPT ![i] = p]
     /\ job' = [job EXCEPT ![p].at = "retryDebit",
                           ![p].charge = Charge(intents[i].quantity)]
     /\ UNCHANGED <<world, db, walletLock, depositLock, crashes>>

(* The wallet is locked: the key is still free and the balance covers it.  *)
RetryPlaced(p) ==
  LET i == job[p].intent  u == intents[i].user  k == intents[i].key
  IN /\ At(p, "retryDebit") /\ Free(walletLock[u], p)
     /\ keys[u][k] = NoKeyRow /\ Adjustable(balance[u], -job[p].charge)
     /\ InsertOrder(u, k, intents[i].quantity, job[p].charge)
     /\ Post(u, <<OrderLine(balance[u], job[p].charge)>>)
     /\ SetIntent(i, "FULFILLED", Len(orders) + 1)
     /\ UNCHANGED deposits
     /\ Finish(p)

(* Mutant: the intent was marked FULFILLED before the placement. *)
RetryMarkedFirst(p) ==
  LET i == job[p].intent  u == intents[i].user  k == intents[i].key
  IN /\ At(p, "retryDebit") /\ Free(walletLock[u], p)
     /\ keys[u][k] # NoKeyRow \/ ~Adjustable(balance[u], -job[p].charge)
     /\ SetIntent(i, "FULFILLED", NoRef)
     /\ UNCHANGED <<balance, ledger, orders, keys, deposits>>
     /\ Finish(p)

(* Rolled back to the savepoint: the intent stays FAILED for another tick. *)
RetryFailed(p) ==
  LET i == job[p].intent  u == intents[i].user  k == intents[i].key
  IN /\ At(p, "retryDebit") /\ Free(walletLock[u], p)
     /\ keys[u][k] # NoKeyRow \/ ~Adjustable(balance[u], -job[p].charge)
     /\ SetIntent(i, "FAILED", NoRef)
     /\ UNCHANGED <<balance, ledger, orders, keys, deposits>>
     /\ Finish(p)

-----------------------------------------------------------------------------
(* The world around the server.                                            *)

SetService(price, active) ==
  /\ service' = [price |-> price, active |-> active]
  /\ UNCHANGED <<config, gateway, db, locks, job, crashes>>

(* The admin saves the gateway's settings. *)
UpsertGatewayConfig(enabled, verify) ==
  /\ config' = [enabled |-> enabled, autoVerify |-> verify]
  /\ UNCHANGED <<service, gateway, db, locks, job, crashes>>

(* The customer pays, or the gateway gives the payment up. *)
GatewayDecides(d, status) ==
  /\ d \in DOMAIN deposits /\ deposits[d].gatewayRef
  /\ gateway[d] = "PENDING"
  /\ gateway' = [gateway EXCEPT ![d] = status]
  /\ UNCHANGED <<service, config, db, locks, job, crashes>>

(* Thirty minutes pass. *)
IntentExpires(i) ==
  /\ i \in DOMAIN intents /\ ~intents[i].expired
  /\ intents' = [intents EXCEPT ![i].expired = TRUE]
  /\ UNCHANGED <<world, balance, ledger, orders, keys, deposits, locks, job,
                 crashes>>

(* The process dies and restarts. *)
Crash ==
  /\ crashes < MaxCrashes
  /\ crashes' = crashes + 1
  /\ job' = [p \in Jobs |-> Idle]
  /\ walletLock' = [u \in Users |-> NoJob]
  /\ depositLock' = [d \in 1..MaxDeposits |-> NoJob]
  /\ intentLock' = [i \in 1..MaxIntents |-> NoJob]
  /\ UNCHANGED <<world, db>>

-----------------------------------------------------------------------------
OrderStep(p) ==
  \/ Redirect(p) \/ AnswerWithoutWriting(p) \/ DraftOrder(p) \/ Debit(p)
  \/ DebitRefused(p) \/ CommitOrder(p) \/ DuplicateKey(p)

DepositStep(p) ==
  \/ \E amount \in Amounts : CreateDeposit(p, amount)
  \/ Initiate(p) \/ InitiateFails(p)
  \/ ConfirmNothing(p) \/ ConfirmFailed(p) \/ ConfirmPaid(p) \/ Credit(p)
  \/ SettleTopUp(p) \/ SettleExpired(p) \/ SettleReplayed(p)
  \/ SettlePlaced(p) \/ SettleFailed(p)
  \/ AlreadyReviewed(p) \/ ReviewReject(p) \/ ReviewApprove(p)
  \/ ReviewCredit(p)

RetryStep(p) ==
  \/ RetryResolved(p) \/ RetryExpired(p) \/ RetryReplayed(p)
  \/ RetryRefused(p) \/ RetryDraft(p) \/ RetryPlaced(p) \/ RetryFailed(p)

(* What a job does once it has started. *)
Step(p) == OrderStep(p) \/ DepositStep(p) \/ RetryStep(p)

Start(p) ==
  \/ \E u \in Users, k \in Keys, q \in Quantities : Submit(p, u, k, q)
  \/ \E u \in Users, i \in 0..MaxIntents : StartDeposit(p, u, i)
  \/ \E d \in 1..MaxDeposits : \/ Confirm(p, d)
                               \/ \E a \in {"approve", "reject"} :
                                     Review(p, d, a)
  \/ \E i \in 1..MaxIntents : ListFailed(p, i)

Environment ==
  \/ \E u \in Users, amount \in Amounts : CreateManualDeposit(u, amount)
  \/ \E price \in Prices, active \in BOOLEAN : SetService(price, active)
  \/ \E enabled \in Enabled, verify \in AutoVerify :
        UpsertGatewayConfig(enabled, verify)
  \/ \E d \in 1..MaxDeposits, status \in {"PAID", "FAILED"} :
        GatewayDecides(d, status)
  \/ \E i \in 1..MaxIntents : IntentExpires(i)
  \/ Crash

Next == Environment \/ \E p \in Jobs : Start(p) \/ Step(p)

Spec == Init /\ [][Next]_vars

-----------------------------------------------------------------------------
IntentStatus == {"PENDING", "FULFILLED", "FAILED", "EXPIRED"}
DepositStatus == {"PENDING", "APPROVED", "REJECTED"}
Line == [amount : Int, balanceAfter : Int,
         type : {"DEPOSIT", "ORDER_DEBIT"}, ref : Nat]
JobAt == {"idle", "redirect", "place", "debit", "commit", "create",
          "initiate", "fail", "paid", "verified", "credit", "settle",
          "approve", "reject", "release", "retry", "retryDebit"}

(* The shape of the state. *)
TypeOK ==
  /\ service \in [price : Prices, active : BOOLEAN]
  /\ config \in [enabled : Enabled, autoVerify : AutoVerify]
  /\ gateway \in [1..MaxDeposits -> {"PENDING", "PAID", "FAILED"}]
  /\ balance \in [Users -> Int]
  /\ ledger \in [Users -> Seq(Line)]
  /\ orders \in Seq([user : Users, key : Keys, quantity : Quantities,
                     charge : Nat])
  /\ keys \in [Users -> [Keys -> [quantity : Nat, order : Nat]]]
  /\ intents \in Seq([user : Users, key : Keys, quantity : Quantities,
                      status : IntentStatus, order : Nat, expired : BOOLEAN])
  /\ deposits \in Seq([user : Users, amount : Amounts, status : DepositStatus,
                       intent : Nat, gatewayRef : BOOLEAN])
  /\ walletLock \in [Users -> Jobs \cup {NoJob}]
  /\ depositLock \in [1..MaxDeposits -> Jobs \cup {NoJob}]
  /\ intentLock \in [1..MaxIntents -> Jobs \cup {NoJob}]
  /\ job \in [Jobs -> [at : JobAt, user : Users \cup {NoRef},
                       key : Keys \cup {NoRef}, quantity : Nat, charge : Nat,
                       deposit : Nat, intent : Nat]]
  /\ crashes \in Nat

(* A wallet's balance is its ledger's last line, and the lines chain from  *)
(* zero without ever going negative, whatever commits on it.               *)
WalletReconciles ==
  \A u \in Users : /\ ChainedFrom(0, ledger[u])
                   /\ balance[u] = FinalBalance(0, ledger[u])

Lines(u, type, ref) ==
  {n \in DOMAIN ledger[u] : ledger[u][n].type = type /\ ledger[u][n].ref = ref}

(* Every order was paid exactly once, with its own charge, and every debit *)
(* paid an order: placing an order and charging for it are one atomic act, *)
(* even where a savepoint swallows half of it.                             *)
EveryOrderPaidOnce ==
  /\ \A o \in DOMAIN orders :
       \E n \in Lines(orders[o].user, "ORDER_DEBIT", o) :
          /\ ledger[orders[o].user][n].amount = -orders[o].charge
          /\ \A u \in Users : Lines(u, "ORDER_DEBIT", o) \subseteq
                                 IF u = orders[o].user THEN {n} ELSE {}
  /\ \A u \in Users : \A n \in DOMAIN ledger[u] :
       ledger[u][n].type = "ORDER_DEBIT" => ledger[u][n].ref \in DOMAIN orders

(* An Idempotency-Key places at most one order, however its requests, the  *)
(* payment that funds it and the retry of its intent interleave.           *)
OneOrderPerKey ==
  \A o \in DOMAIN orders :
     keys[orders[o].user][orders[o].key]
       = [quantity |-> orders[o].quantity, order |-> o]

(* A deposit is credited exactly once when it is APPROVED, to its owner and *)
(* with its amount, and never otherwise: callback, webhook, cron and admin  *)
(* may all confirm it.                                                      *)
CreditedIffApproved ==
  /\ \A d \in DOMAIN deposits : \A u \in Users :
       IF deposits[d].status = "APPROVED" /\ deposits[d].user = u
       THEN \E n \in DOMAIN ledger[u] :
              /\ Lines(u, "DEPOSIT", d) = {n}
              /\ ledger[u][n].amount = deposits[d].amount
       ELSE Lines(u, "DEPOSIT", d) = {}
  /\ \A u \in Users : \A n \in DOMAIN ledger[u] :
       ledger[u][n].type = "DEPOSIT" => ledger[u][n].ref \in DOMAIN deposits

(* A FULFILLED intent names an order of its customer, placed under its key *)
(* for the quantity it asked.                                              *)
FulfilledHasOrder ==
  \A i \in DOMAIN intents :
     intents[i].status = "FULFILLED" =>
       /\ intents[i].order \in DOMAIN orders
       /\ LET o == orders[intents[i].order]
          IN /\ o.user = intents[i].user /\ o.key = intents[i].key
             /\ o.quantity = intents[i].quantity

(* What is settled stays settled: a reviewed deposit keeps its verdict, a  *)
(* fulfilled or expired intent its outcome, and no row disappears.         *)
SettledStaysSettled ==
  [][/\ Len(deposits') >= Len(deposits) /\ Len(intents') >= Len(intents)
     /\ \A d \in DOMAIN deposits :
          deposits[d].status # "PENDING" =>
            deposits'[d].status = deposits[d].status
     /\ \A i \in DOMAIN intents :
          intents[i].status \in {"FULFILLED", "EXPIRED"} =>
            /\ intents'[i].status = intents[i].status
            /\ intents'[i].order = intents[i].order]_vars

(* The shop a customer sees: what an intent got, and what a payment is for. *)
Wishes ==
  [i \in DOMAIN intents |->
     [user |-> intents[i].user, key |-> intents[i].key,
      quantity |-> intents[i].quantity,
      order |-> IF intents[i].status = "FULFILLED" THEN intents[i].order
                                                   ELSE NoRef]]
Payments ==
  [d \in DOMAIN deposits |->
     [user |-> deposits[d].user, amount |-> deposits[d].amount,
      status |-> deposits[d].status, wish |-> deposits[d].intent]]

Shop == INSTANCE PrepaidShop WITH
  purse <- balance, answers <- keys, wishes <- Wishes, payments <- Payments

(* However requests, payments, reviews and retries interleave, it is as if *)
(* one after another had been served: a sale and its debit are one, a key  *)
(* is sold once, an intent gets an order only with or after its payment,   *)
(* and a payment is credited once.                                         *)
ImplementsPrepaidShop == Shop!ShopSpec

Wallets == INSTANCE AuditedWallets

(* Whatever moves money here appends to the ledgers, and nothing a ledger  *)
(* says is changed later.                                                  *)
ImplementsAuditedWallets == Wallets!Spec

-----------------------------------------------------------------------------
(* A started job runs on (it may wait for row locks others take and        *)
(* release), and the two crons come round: each decided payment is asked   *)
(* for again, and in time an enabled gateway answers, and each failed paid *)
(* intent is listed again.  The admin owes nothing.  (A gateway switched   *)
(* on and off forever would be asked too, but PaidIsCredited is about one  *)
(* that stays enabled.)                                                    *)
Fairness ==
  /\ \A p \in Jobs : SF_vars(Step(p))
  /\ \A d \in 1..MaxDeposits : SF_vars(\E p \in Jobs : Confirm(p, d))
  /\ \A i \in 1..MaxIntents : SF_vars(\E p \in Jobs : ListFailed(p, i))

FairSpec == Spec /\ Fairness

(* No job waits forever: deposits, intents and wallets are locked in an    *)
(* order that cannot close a cycle.                                        *)
JobsEnd == \A p \in Jobs : []<>At(p, "idle")

(* A payment the gateway took is credited (or was rejected by an admin),   *)
(* callback or no callback, if in the end the gateway stays enabled and    *)
(* trusted to verify alone.  A payment whose gateway is switched off while *)
(* it is made stays PENDING, as no cron asks a disabled gateway.           *)
PaidUnresolved(d) == /\ d \in DOMAIN deposits /\ gateway[d] = "PAID"
                     /\ deposits[d].status = "PENDING"
PaidIsCredited ==
  <>[](config.enabled /\ config.autoVerify) =>
    \A d \in 1..MaxDeposits : ~<>[]PaidUnresolved(d)

(* A paid intent that failed and could be placed is not left FAILED: the   *)
(* retry cron places it as long as it has not expired.                     *)
CouldBePlaced(i) ==
  /\ i \in DOMAIN intents
  /\ intents[i].status = "FAILED" /\ ~intents[i].expired /\ PaidFor(i)
  /\ Replayed(i) \/ Placeable(i, balance[intents[i].user])
FailedIntentsRetried == \A i \in 1..MaxIntents : ~<>[]CouldBePlaced(i)

-----------------------------------------------------------------------------
(* Two things the repository says of this flow that the code does not do.  *)

(* tests/orders.test.ts:69 says that replaying the same Idempotency-Key    *)
(* returns the original order: a request whose key has its order is not    *)
(* sent to pay for it again.                                               *)
ReplayNotAskedToPay ==
  [][\A p \in Jobs :
       At(p, "idle") /\ job'[p].at = "redirect" =>
         keys[job'[p].user][job'[p].key] = NoKeyRow]_vars

(* cron/retryFailedOrderIntents.ts:7 says that a paid-but-unplaced order   *)
(* heals itself: an intent whose deposit is APPROVED, that has not expired *)
(* and could be placed is not left unplaced forever.                       *)
PaidUnplaced(i) ==
  /\ i \in DOMAIN intents
  /\ intents[i].status \in {"PENDING", "FAILED"} /\ ~intents[i].expired
  /\ PaidFor(i)
  /\ Replayed(i) \/ Placeable(i, balance[intents[i].user])
PaidIsPlaced == \A i \in 1..MaxIntents : ~<>[]PaidUnplaced(i)
=============================================================================
