------------------------------- MODULE Store -------------------------------
(***************************************************************************)
(* The store: a package sold out of pools of stock codes.  Purchases       *)
(* (apps/api/src/services/store.service.ts), the payment that funds one    *)
(* (deposit.service.ts) and its retry (cron/retryFailedOrderIntents.ts),   *)
(* and what admins do meanwhile (package.service.ts, stockPool.service.ts).*)
(*                                                                         *)
(* A job is a request or an iteration of the retry cron.  What its         *)
(* transaction writes stays in the job until the commit; it holds the row  *)
(* lock of the code it claimed and, from its debit on, of its wallet.  A   *)
(* payment credits the wallet first, so it holds that lock from its start: *)
(* the two orders of locking meet in one system.                           *)
(***************************************************************************)
EXTENDS Naturals, Sequences, FiniteSets

CONSTANTS Buyers, BuyKeys,   \* customers and their Idempotency-Keys
          Inputs,            \* what they enter for the order
          Sanitized,         \* an input without product.removeCharacters
          Pools,             \* the stock pools
          StorePrices,       \* prices of the package
          Opening,           \* balance every wallet starts with
          Stocked,           \* codes in stock at the start
          Clerks,            \* jobs that may run at once
          MaxErrands, MaxCodes, MaxStoreIntents   \* bounds (model checking)

ASSUME SanitizedAssumption == DOMAIN Sanitized = Inputs
ASSUME StorePricesAssumption == StorePrices \subseteq Nat \ {0}
ASSUME StoreBoundsAssumption ==
  /\ Opening \in Nat /\ Stocked \in Nat /\ MaxErrands \in Nat
  /\ MaxCodes \in Nat /\ MaxStoreIntents \in Nat

VARIABLES
  pack,       \* the Package row and its links to pools
  open,       \* the StockPool rows
  codes,      \* the StockCode rows, oldest first
  funds,      \* the balance of each wallet
  sales,      \* the Order rows
  answers,    \* the IdempotencyKey rows
  stash,      \* the OrderIntent rows of kind PACKAGE
  clerk,      \* what each job is doing
  errands     \* the requests still to come

stock == <<pack, open, codes>>
accounts == <<funds, sales, answers, stash>>
storeVars == <<stock, accounts, clerk, errands>>

NoCode == 0
NoAnswer == [input |-> "", sale |-> 0, code |-> NoCode]
OffDuty == [at |-> "idle", buyer |-> 0, key |-> 0, input |-> "", intent |-> 0,
            price |-> 0, pools |-> {}, code |-> NoCode, left |-> 0,
            credit |-> 0]

StoreInit ==
  /\ pack \in [active : {TRUE}, price : StorePrices, pools : SUBSET Pools]
  /\ open = Pools
  /\ codes \in [1..Stocked -> [pool : Pools, status : {"AVAILABLE"}, sale : {0}]]
  /\ funds = [u \in Buyers |-> Opening]
  /\ sales = <<>> /\ stash = <<>>
  /\ answers = [u \in Buyers |-> [k \in BuyKeys |-> NoAnswer]]
  /\ clerk = [p \in Clerks |-> OffDuty]
  /\ errands \in {0, MaxErrands}

-----------------------------------------------------------------------------

Busy(p, where) == clerk[p].at = where

Errand == errands > 0 /\ errands' = errands - 1

(* p's job takes on the values of `work` and goes on to `where`. *)
Works(p, where, work) == clerk' = [clerk EXCEPT ![p] = [work EXCEPT !.at = where]]

(* The row locks other jobs hold. *)
CodeLocked(c) ==
  \E q \in Clerks : clerk[q].code = c /\ clerk[q].at \in {"debit", "commit"}
WalletLocked(u) ==
  \E q \in Clerks : clerk[q].buyer = u
                    /\ (clerk[q].at = "commit" \/ clerk[q].credit > 0)

(* An intent leaves p's transaction with a status, and the wallet with the *)
(* credit the transaction began with.                                      *)
Settle(p, status, sale, balance) ==
  /\ stash' = [stash EXCEPT ![clerk[p].intent].status = status,
                            ![clerk[p].intent].sale = sale,
                            ![clerk[p].intent].paid = TRUE]
  /\ funds' = [funds EXCEPT ![clerk[p].buyer] = balance]

-----------------------------------------------------------------------------
(* POST /store/purchase.                                                   *)

(* purchasePackageOrRedirect: the unlocked balance covers the price ... *)
Ask(p, u, k, f) ==
  /\ Busy(p, "idle") /\ pack.active /\ funds[u] >= pack.price /\ Errand
  /\ Works(p, "look", [OffDuty EXCEPT !.buyer = u, !.key = k, !.input = f])
  /\ UNCHANGED <<stock, accounts>>

(* ... or the request is kept as an intent, to be paid for: 402. *)
Redirect(u, k, f) ==
  /\ pack.active /\ funds[u] < pack.price /\ Errand
  /\ Len(stash) < MaxStoreIntents
  /\ stash' = Append(stash,
        [buyer |-> u, key |-> k, input |-> Sanitized[f], charge |-> pack.price,
         status |-> "PENDING", sale |-> 0, paid |-> FALSE, expired |-> FALSE])
  /\ UNCHANGED <<stock, funds, sales, answers, clerk>>

-----------------------------------------------------------------------------
(* The transactions that fulfil an intent.                                 *)

Expire(i) ==
  /\ ~stash[i].expired /\ Errand
  /\ stash' = [stash EXCEPT ![i].expired = TRUE]
  /\ UNCHANGED <<stock, funds, sales, answers, clerk>>

Fulfilling(p, i, credit) ==
  Works(p, "look", [OffDuty EXCEPT !.intent = i, !.credit = credit,
     !.buyer = stash[i].buyer, !.key = stash[i].key, !.input = stash[i].input])

(* confirmGatewayDeposit credits the wallet, whose lock it keeps.  There is *)
(* one payment for each intent here; Checkout has more.                     *)
Pay(p, i) ==
  /\ Busy(p, "idle") /\ ~stash[i].paid /\ Errand
  /\ ~WalletLocked(stash[i].buyer)
  /\ \A q \in Clerks : clerk[q].intent # i
  /\ Fulfilling(p, i, stash[i].charge)
  /\ UNCHANGED <<stock, accounts>>

(* retryFailedOrderIntents: under the intent's lock, and if still FAILED. *)
Retry(p, i) ==
  /\ Busy(p, "idle") /\ Errand
  /\ stash[i].status = "FAILED" /\ stash[i].paid /\ ~stash[i].expired
  /\ \A q \in Clerks : clerk[q].intent # i
  /\ Fulfilling(p, i, 0)
  /\ UNCHANGED <<stock, accounts>>

TooLate(p) ==
  /\ Busy(p, "look") /\ clerk[p].intent # 0 /\ stash[clerk[p].intent].expired
  /\ Settle(p, "EXPIRED", 0, funds[clerk[p].buyer] + clerk[p].credit)
  /\ Works(p, "idle", OffDuty)
  /\ UNCHANGED <<stock, sales, answers, errands>>

-----------------------------------------------------------------------------
(* purchasePackageInTransaction.                                           *)

Answered(p) == answers[clerk[p].buyer][clerk[p].key]
InTime(p) == clerk[p].intent # 0 => ~stash[clerk[p].intent].expired

(* The key was used: the same request gets the same answer ... *)
Replay(p) ==
  /\ Busy(p, "look") /\ InTime(p)
  /\ Answered(p).sale # 0 /\ Answered(p).input = clerk[p].input
  /\ IF clerk[p].intent = 0 THEN UNCHANGED <<stash, funds>>
     ELSE Settle(p, "FULFILLED", Answered(p).sale,
                 funds[clerk[p].buyer] + clerk[p].credit)
  /\ Works(p, "idle", OffDuty)
  /\ UNCHANGED <<stock, sales, answers, errands>>

(* ... and is otherwise refused, as is a package the buyer may not have.   *)
(* The package is read with its price and its pools.                       *)
Look(p) ==
  /\ Busy(p, "look") /\ InTime(p) /\ Answered(p).sale = 0 /\ pack.active
  /\ Works(p, IF pack.pools = {} THEN "debit" ELSE "claim",
           [clerk[p] EXCEPT !.price = pack.price, !.pools = pack.pools])
  /\ UNCHANGED <<stock, accounts, errands>>

(* Mutant: a plain SELECT, which sees codes other jobs have locked. *)
ClaimableUnlocked(p) ==
  {c \in DOMAIN codes : codes[c].pool \in clerk[p].pools
                        /\ codes[c].status = "AVAILABLE"}
(* The codes FOR UPDATE SKIP LOCKED can return. *)
Claimable(p) ==
  {c \in DOMAIN codes : /\ codes[c].pool \in clerk[p].pools
                        /\ codes[c].status = "AVAILABLE"
                        /\ ~CodeLocked(c)}

(* claimStockCode *)
ClaimCode(p) ==
  /\ Busy(p, "claim")
  /\ \E c \in Claimable(p) :
       /\ \A d \in Claimable(p) : c <= d
       /\ Works(p, "debit", [clerk[p] EXCEPT !.code = c])
  /\ UNCHANGED <<stock, accounts, errands>>

Left(p) == funds[clerk[p].buyer] + clerk[p].credit - clerk[p].price

(* adjustWalletBalance, which waits for the wallet's lock. *)
Debit(p) ==
  /\ Busy(p, "debit") /\ Left(p) >= 0
  /\ clerk[p].credit > 0 \/ ~WalletLocked(clerk[p].buyer)
  /\ Works(p, "commit", [clerk[p] EXCEPT !.left = Left(p)])
  /\ UNCHANGED <<stock, accounts, errands>>

(* The order, its code and its answer, and the commit. *)
Deliver(p) ==
  /\ Busy(p, "commit") /\ Answered(p).sale = 0
  /\ sales' = Append(sales, [buyer |-> clerk[p].buyer, charge |-> clerk[p].price])
  /\ codes' = [c \in DOMAIN codes |->
        IF c = clerk[p].code
        THEN [codes[c] EXCEPT !.status = "CONSUMED", !.sale = Len(sales) + 1]
        ELSE codes[c]]
  /\ answers' = [answers EXCEPT ![clerk[p].buyer][clerk[p].key] =
        [input |-> clerk[p].input, sale |-> Len(sales) + 1,
         code |-> clerk[p].code]]
  /\ IF clerk[p].intent = 0
     THEN /\ funds' = [funds EXCEPT ![clerk[p].buyer] = clerk[p].left]
          /\ UNCHANGED stash
     ELSE Settle(p, "FULFILLED", Len(sales) + 1, clerk[p].left)
  /\ Works(p, "idle", OffDuty)
  /\ UNCHANGED <<pack, open, errands>>

(* Mutant: FOR UPDATE alone, which waits for a code that is locked. *)
RefusalWaits(p) ==
  \/ /\ Busy(p, "look") /\ InTime(p)
     /\ Answered(p).sale = 0 \/ Answered(p).input # clerk[p].input
  \/ Busy(p, "claim") /\ ClaimableUnlocked(p) = {}
  \/ Busy(p, "debit") /\ Left(p) < 0
     /\ (clerk[p].credit > 0 \/ ~WalletLocked(clerk[p].buyer))
  \/ Busy(p, "commit") /\ Answered(p).sale # 0

(* What a purchase is refused for: the key was used for another input or   *)
(* by a job that committed first; the package is not for sale, or not for  *)
(* this buyer now (access, order limit); nothing to claim; too little      *)
(* money.                                                                  *)
Refusal(p) ==
  \/ /\ Busy(p, "look") /\ InTime(p)
     /\ Answered(p).sale = 0 \/ Answered(p).input # clerk[p].input
  \/ Busy(p, "claim") /\ Claimable(p) = {}
  \/ Busy(p, "debit") /\ Left(p) < 0
     /\ (clerk[p].credit > 0 \/ ~WalletLocked(clerk[p].buyer))
  \/ Busy(p, "commit") /\ Answered(p).sale # 0

(* The transaction is rolled back, or for an intent to its savepoint: the  *)
(* credit stays and the intent is FAILED.                                  *)
Refuse(p) ==
  /\ Refusal(p)
  /\ IF clerk[p].intent = 0 THEN UNCHANGED <<stash, funds>>
     ELSE Settle(p, "FAILED", 0, funds[clerk[p].buyer] + clerk[p].credit)
  /\ Works(p, "idle", OffDuty)
  /\ UNCHANGED <<stock, sales, answers, errands>>

-----------------------------------------------------------------------------
(* Admins.                                                                 *)

(* updatePackage, of one field; for `active`, the product or its brand. *)
EditPackage(form) ==
  /\ form # pack /\ form.pools \subseteq open /\ Errand
  /\ pack' = form
  /\ UNCHANGED <<open, codes, accounts, clerk>>

(* bulkAddStockCodes, one code. *)
AddCode(s) ==
  /\ s \in open /\ Errand /\ Len(codes) < MaxCodes
  /\ codes' = Append(codes, [pool |-> s, status |-> "AVAILABLE", sale |-> 0])
  /\ UNCHANGED <<pack, open, accounts, clerk>>

(* revokeStockCode reads that the code is unsold, and then writes REVOKED  *)
(* whatever has become of it, once its lock is free.                       *)
CheckCode(p, c) ==
  /\ Busy(p, "idle") /\ codes[c].status = "AVAILABLE" /\ Errand
  /\ Works(p, "revoke", [OffDuty EXCEPT !.code = c])
  /\ UNCHANGED <<stock, accounts>>

RevokeCode(p) ==
  /\ Busy(p, "revoke") /\ ~CodeLocked(clerk[p].code)
  /\ codes' = [codes EXCEPT ![clerk[p].code].status =
        IF @ = "DELETED" THEN @ ELSE "REVOKED"]
  /\ Works(p, "idle", OffDuty)
  /\ UNCHANGED <<pack, open, accounts, errands>>

(* deleteStockPool reads that no package is linked to the pool, and then   *)
(* deletes it with every code in it, sold ones too.                        *)
CheckPool(p, s) ==
  /\ Busy(p, "idle") /\ s \in open \ pack.pools /\ Errand
  /\ Works(p, "delete", [OffDuty EXCEPT !.pools = {s}])
  /\ UNCHANGED <<stock, accounts>>

DeletePool(p) ==
  /\ Busy(p, "delete")
  /\ \A c \in DOMAIN codes : codes[c].pool \in clerk[p].pools => ~CodeLocked(c)
  /\ codes' = [c \in DOMAIN codes |->
        IF codes[c].pool \in clerk[p].pools
        THEN [codes[c] EXCEPT !.status = "DELETED"] ELSE codes[c]]
  /\ pack' = [pack EXCEPT !.pools = @ \ clerk[p].pools]
  /\ open' = open \ clerk[p].pools
  /\ Works(p, "idle", OffDuty)
  /\ UNCHANGED <<accounts, errands>>

-----------------------------------------------------------------------------

(* A job that has begun goes on. *)
ClerkStep(p) ==
  \/ TooLate(p) \/ Replay(p) \/ Look(p) \/ ClaimCode(p) \/ Debit(p)
  \/ Deliver(p) \/ Refuse(p) \/ RevokeCode(p) \/ DeletePool(p)

StoreNext ==
  \/ \E p \in Clerks :
       \/ ClerkStep(p)
       \/ \E u \in Buyers, k \in BuyKeys, f \in Inputs : Ask(p, u, k, f)
       \/ \E i \in DOMAIN stash : Pay(p, i) \/ Retry(p, i)
       \/ \E c \in DOMAIN codes : CheckCode(p, c)
       \/ \E s \in Pools : CheckPool(p, s)
  \/ \E u \in Buyers, k \in BuyKeys, f \in Inputs : Redirect(u, k, f)
  \/ \E i \in DOMAIN stash : Expire(i)
  \/ \E x \in StorePrices : EditPackage([pack EXCEPT !.price = x])
  \/ \E l \in SUBSET Pools : EditPackage([pack EXCEPT !.pools = l])
  \/ EditPackage([pack EXCEPT !.active = ~@])
  \/ \E s \in Pools : AddCode(s)

StoreSpec == StoreInit /\ [][StoreNext]_storeVars

(* The process runs its transactions to their end. *)
StoreFairness == \A p \in Clerks : WF_storeVars(ClerkStep(p))

StoreFairSpec == StoreSpec /\ StoreFairness

-----------------------------------------------------------------------------
(* Correctness.                                                            *)

Entries == Inputs \cup {Sanitized[f] : f \in Inputs}

ClerkRow ==
  [at : {"idle", "look", "claim", "debit", "commit", "revoke", "delete"},
   buyer : Buyers \cup {0}, key : BuyKeys \cup {0}, input : Entries \cup {""},
   intent : Nat, price : StorePrices \cup {0}, pools : SUBSET Pools,
   code : Nat, left : Nat, credit : Nat]

(* The shape of the state. *)
StoreTypeOK ==
  /\ pack \in [active : BOOLEAN, price : StorePrices, pools : SUBSET Pools]
  /\ open \subseteq Pools
  /\ codes \in Seq([pool : Pools, sale : Nat,
         status : {"AVAILABLE", "CONSUMED", "REVOKED", "DELETED"}])
  /\ funds \in [Buyers -> Nat]
  /\ sales \in Seq([buyer : Buyers, charge : StorePrices])
  /\ answers \in [Buyers -> [BuyKeys ->
         [input : Entries \cup {""}, sale : Nat, code : Nat]]]
  /\ stash \in Seq([buyer : Buyers, key : BuyKeys, input : Entries,
         charge : StorePrices, sale : Nat, paid : BOOLEAN, expired : BOOLEAN,
         status : {"PENDING", "FULFILLED", "FAILED", "EXPIRED"}])
  /\ clerk \in [Clerks -> ClerkRow]
  /\ errands \in Nat

(* u's opening balance and what the payments of their intents come to. *)
PaymentsOf(u) ==
  LET sum[n \in 0..Len(stash)] ==
        IF n = 0 THEN Opening
        ELSE sum[n - 1] + IF stash[n].buyer = u /\ stash[n].paid
                          THEN stash[n].charge ELSE 0
  IN  sum[Len(stash)]

Answering(u, k) ==
  [buyer |-> u, key |-> k, code |-> answers[u][k].code,
   paid |-> sales[answers[u][k].sale].charge]

Machine == INSTANCE Vending WITH
  Customers <- Buyers,
  shelf <- {c \in DOMAIN codes : codes[c].status = "AVAILABLE"},
  paidIn <- [u \in Buyers |-> PaymentsOf(u)],
  purse <- funds,
  sold <- {Answering(r[1], r[2]) :
             r \in {q \in Buyers \X BuyKeys : answers[q[1]][q[2]].sale # 0}}

(* The store sells as Vending does, whatever purchases, payments, retries  *)
(* and admins run at once: a key gets one order, a code goes to one buyer  *)
(* and off the shelf with the sale, and a wallet is down by its orders.    *)
StoreSellsOnce == Machine!VendingSpec

(* No purchase waits for ever: one that holds a code and waits for a       *)
(* wallet never meets a payment that holds the wallet and waits for codes. *)
PurchasesEnd ==
  \A p \in Clerks : clerk[p].at # "idle" ~> clerk[p].at = "idle"
=============================================================================
