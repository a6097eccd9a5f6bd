------------------------------- MODULE Rewards -------------------------------
(***************************************************************************)
(* What a deposit earns when it is approved: creditApprovedDeposit of      *)
(* apps/api/src/services/deposit.service.ts with redeemCouponForDeposit of *)
(* coupon.service.ts, run by many transactions at once.                    *)
(*                                                                         *)
(* A deposit's row lock admits one transaction at a time, so a transaction *)
(* is named by its deposit.  It waits for its customer's wallet row, then  *)
(* for the coupon's row, then for the referrer's wallet row, and keeps     *)
(* what it locked until it ends; Postgres aborts one transaction of a      *)
(* cycle.  Its writes are its own until it commits.  Reads that take no    *)
(* lock (the coupon, the user, the settings) see what is committed.        *)
(*                                                                         *)
(* Which deposits there are, who may confirm them and what they pay for    *)
(* is the subject of Checkout; the balance after each row, of              *)
(* WalletTransactions.                                                     *)
(***************************************************************************)
EXTENDS RewardRules, FiniteSets

CONSTANTS Users, NoUser,
          ReferredBy,     \* User.referredById, set once at registration
          Amounts,        \* amounts of a deposit
          MethodPercents, \* PaymentMethod.bonusPercent, as an admin sets it
          Coupons, NoCoupon,
          Offers,         \* what the admin's coupon form may hold
          Settings,       \* what the admin's settings form may hold
          MaxDeposits, MaxAborts   \* bounds (model checking)

ASSUME NoUserAssumption == NoUser \notin Users
ASSUME NoCouponAssumption == NoCoupon \notin Coupons
ASSUME AmountsAssumption == Amounts \subseteq Nat \ {0}
ASSUME MethodPercentsAssumption == MethodPercents \subseteq Nat
(* There is something the form accepts. *)
ASSUME OffersAssumption == Offers \subseteq OfferRow /\ Offers # {}
ASSUME SettingsAssumption == Settings \subseteq SettingsRow
ASSUME BoundsAssumption == MaxDeposits \in Nat /\ MaxAborts \in Nat
(* A code can be given only once its owner is registered. *)
ASSUME ReferredByAssumption ==
  /\ ReferredBy \in [Users -> Users \cup {NoUser}]
  /\ \A u \in Users : ReferredBy[u] # u

VARIABLES
  settings,      \* the SiteSettings row
  coupons,       \* the Coupon rows
  deposits,      \* the Deposit rows
  ledger,        \* the WalletTransaction rows of each wallet
  hasDeposited, earnings,   \* User.hasDeposited, User.totalReferralEarnings
  referralLog,   \* the ReferralLog rows
  redemptions,   \* the CouponRedemption rows
  tx,            \* the transaction approving each deposit
  aborts         \* transactions lost to a crash or a timeout

rewards == <<ledger, hasDeposited, earnings, referralLog, redemptions>>
vars == <<settings, coupons, deposits, rewards, tx, aborts>>

NoTx == [at |-> "idle", holds |-> {}, rows |-> <<>>, bonus |-> 0,
         coupon |-> NoCoupon, couponBonus |-> 0,
         first |-> FALSE, referred |-> FALSE, reward |-> 0]
NoOffer == [offer |-> CHOOSE o \in Offers : TRUE, exists |-> FALSE,
            usedCount |-> 0]

Init ==
  /\ settings \in Settings
  /\ coupons = [c \in Coupons |-> NoOffer]
  /\ deposits = <<>>
  /\ ledger = [u \in Users |-> <<>>]
  /\ hasDeposited = [u \in Users |-> FALSE]
  /\ earnings = [u \in Users |-> 0]
  /\ referralLog = {}
  /\ redemptions = {}
  /\ tx = [d \in 1..MaxDeposits |-> NoTx]
  /\ aborts = 0

-----------------------------------------------------------------------------
(* Row locks.                                                              *)

WalletRow(u) == <<"wallet", u>>
CouponRow(c) == <<"coupon", c>>

Free(d, row) == \A e \in DOMAIN tx : e # d => row \notin tx[e].holds

At(d, where) == d \in DOMAIN deposits /\ tx[d].at = where

Owner(d) == deposits[d].user
Referrer(d) == ReferredBy[Owner(d)]

(* The row d's transaction is about to lock, or nothing. *)
Wanted(d) ==
  CASE At(d, "principal") -> WalletRow(Owner(d))
    [] At(d, "redeem")    -> CouponRow(tx[d].coupon)
    [] At(d, "referrer")  -> WalletRow(Referrer(d))
    [] OTHER              -> <<>>

Blocks(e, d) == e # d /\ Wanted(d) \in tx[e].holds

(* A ring of transactions, each waiting for a row the next one holds. *)
Deadlocked(d) ==
  \E ring \in SUBSET DOMAIN deposits :
     /\ d \in ring
     /\ \A e \in ring : /\ \E f \in ring : Blocks(f, e)
                        /\ \E f \in ring : Blocks(e, f)

-----------------------------------------------------------------------------
(* Submitting a deposit, and the admin's forms.                            *)

(* validateCoupon, and the checks of redeemCouponForDeposit. *)
Redeemable(c, u) ==
  /\ coupons[c].exists /\ coupons[c].offer.active
  /\ coupons[c].usedCount < coupons[c].offer.maxUses
  /\ <<c, u>> \notin redemptions

(* createManualDeposit and createPendingGatewayDeposit.  `paid` says that  *)
(* a gateway, with autoVerify on, holds the payment: its callback, webhook *)
(* and the cron will confirm it.  Any deposit may be reviewed by an admin. *)
CreateDeposit(u, amount, c, paid) ==
  /\ Len(deposits) < MaxDeposits
  /\ c # NoCoupon => Redeemable(c, u)
  /\ deposits' = Append(deposits, [user |-> u, amount |-> amount,
                          coupon |-> c, paid |-> paid,
                          status |-> "PENDING", bonus |-> 0])
  /\ UNCHANGED <<settings, coupons, rewards, tx, aborts>>

(* createCoupon; updateCoupon waits for the row and keeps its usedCount. *)
SaveCoupon(c, o) ==
  /\ coupons[c].exists => \A d \in DOMAIN tx : CouponRow(c) \notin tx[d].holds
  /\ coupons' = [coupons EXCEPT ![c].offer = o, ![c].exists = TRUE]
  /\ UNCHANGED <<settings, deposits, rewards, tx, aborts>>

(* deleteCoupon refuses a coupon with redemptions, and the foreign key does *)
(* for one made meanwhile.  Its ON DELETE SET NULL waits for the deposits  *)
(* being approved; if that closes a cycle and the approval is the victim,  *)
(* it is Interrupted first.                                                *)
DeleteCoupon(c) ==
  /\ coupons[c].exists
  /\ \A u \in Users : <<c, u>> \notin redemptions
  /\ \A d \in DOMAIN deposits : deposits[d].coupon = c => At(d, "idle")
  /\ coupons' = [coupons EXCEPT ![c] = NoOffer]
  /\ deposits' = [d \in DOMAIN deposits |->
        [deposits[d] EXCEPT !.coupon = IF @ = c THEN NoCoupon ELSE @]]
  /\ UNCHANGED <<settings, rewards, tx, aborts>>

SaveSettings ==
  /\ settings' \in Settings \ {settings}
  /\ UNCHANGED <<coupons, deposits, rewards, tx, aborts>>

-----------------------------------------------------------------------------
(* Approving a deposit.                                                    *)

(* d's transaction does some work and goes on to `where`. *)
Work(d, where, change) ==
  /\ tx' = [tx EXCEPT ![d] = [change EXCEPT !.at = where]]
  /\ UNCHANGED <<settings, coupons, deposits, rewards, aborts>>

(* lockDeposit, and the deposit is still PENDING. *)
Open(d) ==
  /\ At(d, "idle") /\ deposits[d].status = "PENDING"
  /\ Work(d, "principal", NoTx)

(* Mutant: the wallet row is read without FOR UPDATE. *)
PrincipalUnlocked(d) ==
  /\ At(d, "principal")
  /\ \E percent \in MethodPercents :
       LET method == Percent(deposits[d].amount, percent)
       IN  Work(d, "coupon",
             [tx[d] EXCEPT !.rows = Line(d, "deposit", deposits[d].amount)
                                    \o Line(d, "method", method),
                           !.bonus = method])

(* The amount is credited, then the bonus of the payment method. *)
Principal(d) ==
  /\ At(d, "principal") /\ Free(d, WalletRow(Owner(d)))
  /\ \E percent \in MethodPercents :
       LET method == Percent(deposits[d].amount, percent)
       IN  Work(d, "coupon",
             [tx[d] EXCEPT !.holds = @ \cup {WalletRow(Owner(d))},
                           !.rows = Line(d, "deposit", deposits[d].amount)
                                    \o Line(d, "method", method),
                           !.bonus = method])

(* The unlocked reads of redeemCouponForDeposit; a stale coupon is skipped. *)
CheckCoupon(d) ==
  LET c == deposits[d].coupon
      bonus == CouponBonus(coupons[c].offer, deposits[d].amount)
  IN  /\ At(d, "coupon")
      /\ IF c # NoCoupon /\ Redeemable(c, Owner(d)) /\ bonus > 0
         THEN Work(d, "redeem", [tx[d] EXCEPT !.coupon = c,
                                              !.couponBonus = bonus])
         ELSE Work(d, "first", tx[d])

(* Mutant: the coupon's bonus is missing from Deposit.bonusAmount. *)
RedeemUntold(d) ==
  /\ At(d, "redeem") /\ Free(d, CouponRow(tx[d].coupon))
  /\ Work(d, "first",
       [tx[d] EXCEPT !.holds = @ \cup {CouponRow(tx[d].coupon)},
                     !.rows = @ \o Line(d, "coupon", tx[d].couponBonus)])

(* couponRedemption.create, the increment of usedCount, which locks the    *)
(* coupon's row, and the credit of the bonus.                              *)
Redeem(d) ==
  /\ At(d, "redeem") /\ Free(d, CouponRow(tx[d].coupon))
  /\ Work(d, "first",
       [tx[d] EXCEPT !.holds = @ \cup {CouponRow(tx[d].coupon)},
                     !.rows = @ \o Line(d, "coupon", tx[d].couponBonus),
                     !.bonus = @ + tx[d].couponBonus])

(* The customer's later deposits earn nothing more. *)
NotFirst(d) ==
  /\ At(d, "first") /\ hasDeposited[Owner(d)]
  /\ Work(d, "commit", tx[d])

(* The first deposit: its bonus, and the referee's, are credited; then the *)
(* referrer is to be paid, if the reward is not 0.                         *)
First(d) ==
  LET amount == deposits[d].amount
      start == FirstBonus(settings, amount)
      referred == /\ settings.referralEnabled /\ Referrer(d) # NoUser
                  /\ ~\E l \in referralLog : l.referee = Owner(d)
      referee == IF referred THEN RefereeBonus(settings, amount) ELSE 0
      reward == IF referred THEN ReferrerReward(settings, amount) ELSE 0
  IN  /\ At(d, "first") /\ ~hasDeposited[Owner(d)]
      /\ Work(d, IF reward > 0 THEN "referrer" ELSE "commit",
           [tx[d] EXCEPT !.first = TRUE, !.referred = referred,
                         !.reward = reward, !.bonus = @ + start + referee,
                         !.rows = @ \o Line(d, "first", start)
                                    \o Line(d, "referee", referee)])

(* The referrer's wallet, locked after the customer's. *)
PayReferrer(d) ==
  /\ At(d, "referrer") /\ Free(d, WalletRow(Referrer(d)))
  /\ Work(d, "commit",
          [tx[d] EXCEPT !.holds = @ \cup {WalletRow(Referrer(d))}])

(* Mutant: the increment is made conditional on the limit, and whether it  *)
(* happened is not looked at.                                              *)
CountUseBelowLimit(c) ==
  coupons' = [k \in Coupons |->
    [coupons[k] EXCEPT !.usedCount =
       @ + IF k = c /\ @ < coupons[k].offer.maxUses THEN 1 ELSE 0]]
CountUse(c) ==
  coupons' = [k \in Coupons |->
    [coupons[k] EXCEPT !.usedCount = @ + IF k = c THEN 1 ELSE 0]]

(* Mutant: the earnings of the referee are incremented. *)
EarnSelf(d) == earnings' = [earnings EXCEPT ![Owner(d)] = @ + tx[d].reward]
Earn(d) ==
  earnings' = [w \in Users |->
    earnings[w] + IF w = Referrer(d) THEN tx[d].reward ELSE 0]

(* hasDeposited, earnings and the log are written, and all of it commits.  *)
Commit(d) ==
  LET t == tx[d]
      u == Owner(d)
  IN  /\ At(d, "commit")
      /\ deposits' = [deposits EXCEPT ![d].status = "APPROVED",
                                      ![d].bonus = t.bonus]
      /\ ledger' = [w \in Users |-> ledger[w]
              \o (IF w = u THEN t.rows ELSE <<>>)
              \o (IF w = Referrer(d) THEN Line(d, "referral", t.reward)
                                     ELSE <<>>)]
      /\ redemptions' = redemptions \cup
           (IF t.coupon = NoCoupon THEN {} ELSE {<<t.coupon, u>>})
      /\ CountUse(t.coupon)
      /\ hasDeposited' = [hasDeposited EXCEPT ![u] = @ \/ t.first]
      /\ Earn(d)
      /\ referralLog' = referralLog \cup
           (IF t.referred THEN {[referee |-> u, reward |-> t.reward]} ELSE {})
      /\ tx' = [tx EXCEPT ![d] = NoTx]
      /\ UNCHANGED <<settings, aborts>>

(* The admin rejects, or the gateway says the payment failed. *)
Reject(d) ==
  /\ At(d, "idle") /\ deposits[d].status = "PENDING"
  /\ deposits' = [deposits EXCEPT ![d].status = "REJECTED"]
  /\ UNCHANGED <<settings, coupons, rewards, tx, aborts>>

-----------------------------------------------------------------------------
(* Transactions that end early leave nothing.                              *)

(* Mutant: nobody breaks a cycle. *)
DeadlockIgnored(d) == Deadlocked(d) /\ UNCHANGED vars

DeadlockAbort(d) == Deadlocked(d) /\ Work(d, "idle", NoTx)

(* The process dies, or the transaction outlives Prisma's timeout. *)
Interrupted(d) ==
  /\ tx[d].at # "idle" /\ aborts < MaxAborts
  /\ tx' = [tx EXCEPT ![d] = NoTx]
  /\ aborts' = aborts + 1
  /\ UNCHANGED <<settings, coupons, deposits, rewards>>

-----------------------------------------------------------------------------

Proceed(d) == CheckCoupon(d) \/ First(d) \/ NotFirst(d) \/ Commit(d)

Next ==
  \/ \E u \in Users, a \in Amounts, c \in Coupons \cup {NoCoupon},
        paid \in BOOLEAN : CreateDeposit(u, a, c, paid)
  \/ \E c \in Coupons : DeleteCoupon(c) \/ \E o \in Offers : SaveCoupon(c, o)
  \/ SaveSettings
  \/ \E d \in 1..MaxDeposits :
       \/ Open(d) \/ Principal(d) \/ Redeem(d) \/ PayReferrer(d)
       \/ Proceed(d) \/ Reject(d) \/ DeadlockAbort(d) \/ Interrupted(d)

Spec == Init /\ [][Next]_vars

(* reconcilePendingDeposits confirms a paid deposit again and again, while *)
(* nobody has to look at the others.  A transaction goes on, gets          *)
(* a row that keeps becoming free (Postgres queues the waiters of a row),  *)
(* and a cycle is broken.                                                  *)
Fairness ==
  \A d \in 1..MaxDeposits :
     /\ WF_vars(Open(d) /\ deposits[d].paid)
     /\ WF_vars(Proceed(d))
     /\ WF_vars(DeadlockAbort(d))
     /\ SF_vars(Principal(d))
     /\ SF_vars(Redeem(d))
     /\ SF_vars(PayReferrer(d))

FairSpec == Spec /\ Fairness

-----------------------------------------------------------------------------
(* Correctness.                                                            *)

Points == {"idle", "principal", "coupon", "redeem", "first", "referrer",
           "commit"}

(* The shape of the state. *)
TypeOK ==
  /\ settings \in Settings
  /\ coupons \in [Coupons -> [offer : Offers, exists : BOOLEAN,
                              usedCount : Nat]]
  /\ deposits \in Seq([user : Users, amount : Amounts,
                       coupon : Coupons \cup {NoCoupon}, paid : BOOLEAN,
                       status : {"PENDING", "APPROVED", "REJECTED"},
                       bonus : Nat])
  /\ Len(deposits) <= MaxDeposits
  /\ ledger \in [Users -> Seq(RewardLine)]
  /\ hasDeposited \in [Users -> BOOLEAN]
  /\ earnings \in [Users -> Nat]
  /\ referralLog \subseteq [referee : Users, reward : Nat]
  /\ redemptions \subseteq Coupons \X Users
  /\ \A d \in 1..MaxDeposits :
       /\ tx[d].at \in Points /\ tx[d].rows \in Seq(RewardLine)
       /\ {tx[d].bonus, tx[d].couponBonus, tx[d].reward} \subseteq Nat
  /\ aborts \in 0..MaxAborts

(* The sum of the rows of u's wallet that Keep selects. *)
Total(u, Keep(_)) ==
  LET sum[n \in 0..Len(ledger[u])] ==
        IF n = 0 THEN 0
        ELSE sum[n - 1] + IF Keep(ledger[u][n]) THEN ledger[u][n].amount ELSE 0
  IN  sum[Len(ledger[u])]

(* The Deposit row tells the customer what the ledger says: its amount was *)
(* credited once if it is approved and never otherwise, and bonusAmount is *)
(* the sum of the bonus rows that cite it, whichever rewards it earned.    *)
DepositTellsItsCredits ==
  \A d \in DOMAIN deposits :
     /\ Total(Owner(d), LAMBDA r : r.deposit = d /\ r.kind = "deposit")
          = IF deposits[d].status = "APPROVED" THEN deposits[d].amount ELSE 0
     /\ Total(Owner(d), LAMBDA r : r.deposit = d /\ r.kind \in RewardKinds)
          = deposits[d].bonus

(* A referrer's totalReferralEarnings, the rewards logged for the users    *)
(* they referred, and the referral rows of their wallet agree, though they *)
(* are written by transactions of several customers.                       *)
EarningsMatchLog ==
  \A u \in Users :
     LET paid == Total(u, LAMBDA r : r.kind = "referral")
         logged == {l \in referralLog : ReferredBy[l.referee] = u}
         sum[S \in SUBSET logged] ==
           IF S = {} THEN 0
           ELSE LET l == CHOOSE l \in S : TRUE IN l.reward + sum[S \ {l}]
     IN  earnings[u] = paid /\ paid = sum[logged]

(* A coupon's usedCount counts its redemptions: no redemption is missed or *)
(* counted twice by approvals that read the same count.                    *)
RedemptionsCounted ==
  \A c \in Coupons :
     coupons[c].usedCount = Cardinality({r \in redemptions : r[1] = c})

(* However the transactions interleave, every approval is as if it had     *)
(* been done alone: the rewards of a first deposit go to one deposit, a    *)
(* customer redeems a coupon once, and a referee is rewarded once.         *)
Atomic == INSTANCE AtomicRewards WITH
  deposits <- [d \in DOMAIN deposits |->
                 [user |-> deposits[d].user, amount |-> deposits[d].amount,
                  status |-> deposits[d].status, bonus |-> deposits[d].bonus]]
ImplementsAtomicRewards == Atomic!Spec

(* A deposit whose payment a gateway holds does not stay PENDING because   *)
(* its transaction lost a deadlock: it is confirmed again until it settles. *)
PaidDepositsSettle ==
  \A d \in 1..MaxDeposits :
     (d \in DOMAIN deposits /\ deposits[d].paid)
       ~> (d \in DOMAIN deposits /\ deposits[d].status # "PENDING")

(* deposit.service.ts:229-233: the check at credit time "is the actual     *)
(* atomic guarantee" of a coupon, its limit on uses included.              *)
CouponLimitKept ==
  [][\A c \in Coupons : coupons'[c].usedCount > coupons[c].usedCount =>
        coupons'[c].usedCount <= coupons'[c].offer.maxUses]_vars
=============================================================================
