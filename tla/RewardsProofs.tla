---------------------------- MODULE RewardsProofs ----------------------------
(***************************************************************************)
(* What a deposit earns, proved for any customers, coupons and settings:   *)
(* concurrent approvals are as if each had been done alone.  The invariant *)
(* says what an open transaction has gathered: rows and a bonus computed   *)
(* from some settings, percentage and offer that were in force when they   *)
(* were read, for a customer whose wallet row it holds.  That lock is what *)
(* keeps "first deposit" and "coupon not used" true until the commit.      *)
(*                                                                         *)
(* The last two parts are about sums: of the rows of a wallet, which say   *)
(* what each deposit's row says, and of the rewards in the referral log.   *)
(***************************************************************************)
EXTENDS Rewards, FiniteSetTheorems, SequenceTheorems,
        WellFoundedInduction, TLAPS

TxRow == [at : Points, holds : SUBSET ({"wallet", "coupon"}
                                   \X (Users \cup {NoUser} \cup Coupons)),
          rows : Seq(RewardLine), bonus : Nat,
          coupon : Coupons \cup {NoCoupon}, couponBonus : Nat,
          first : BOOLEAN, referred : BOOLEAN, reward : Nat]
DepositRow == [user : Users, amount : Amounts, coupon : Coupons \cup {NoCoupon},
               paid : BOOLEAN, status : {"PENDING", "APPROVED", "REJECTED"},
               bonus : Nat]

(* The deposit and the bonus of its method, then the coupon's bonus, of a  *)
(* deposit d of an amount.                                                 *)
MethodRows(d, amount, percent) ==
  Line(d, "deposit", amount) \o Line(d, "method", Percent(amount, percent))
CouponGives(amount, c, o) == IF c = NoCoupon THEN 0 ELSE CouponBonus(o, amount)
CouponRows(d, amount, percent, c, o) ==
  MethodRows(d, amount, percent) \o Line(d, "coupon", CouponGives(amount, c, o))

Methodical(d, t, amount) ==
  \E percent \in MethodPercents :
     /\ t.rows = MethodRows(d, amount, percent)
     /\ t.bonus = Percent(amount, percent)

Couponed(d, t, amount) ==
  \E percent \in MethodPercents, o \in Offers :
     /\ t.rows = CouponRows(d, amount, percent, t.coupon, o)
     /\ t.bonus = Percent(amount, percent) + CouponGives(amount, t.coupon, o)
     /\ t.coupon # NoCoupon => CouponGives(amount, t.coupon, o) > 0

(* All that AtomicRewards lets the deposit earn, where `first` says that   *)
(* it is the customer's first and `referrer` who referred them.            *)
Earned(d, t, amount, first, referrer) ==
  \E percent \in MethodPercents, o \in Offers, s \in Settings :
     LET referred == first /\ s.referralEnabled /\ referrer # NoUser
         start == IF first THEN FirstBonus(s, amount) ELSE 0
         referee == IF referred THEN RefereeBonus(s, amount) ELSE 0
     IN  /\ t.first = first /\ t.referred = referred
         /\ t.reward = IF referred THEN ReferrerReward(s, amount) ELSE 0
         /\ t.rows = CouponRows(d, amount, percent, t.coupon, o)
                       \o Line(d, "first", start) \o Line(d, "referee", referee)
         /\ t.bonus = Percent(amount, percent)
                        + CouponGives(amount, t.coupon, o) + start + referee
         /\ t.coupon # NoCoupon => CouponGives(amount, t.coupon, o) > 0

(* What transaction t of deposit d has gathered, for customer u; H and R   *)
(* are hasDeposited and redemptions.                                       *)
Gathered(d, t, u, amount, H, R) ==
  /\ t.at # "principal" => WalletRow(u) \in t.holds
  /\ t.at \in {"principal", "coupon"} => t.coupon = NoCoupon
  /\ t.at \in {"principal", "coupon", "redeem", "first"} =>
       ~t.first /\ ~t.referred /\ t.reward = 0
  /\ t.at \in {"coupon", "redeem"} => Methodical(d, t, amount)
  /\ t.at = "redeem" => /\ t.coupon \in Coupons /\ t.couponBonus > 0
                        /\ \E o \in Offers :
                             t.couponBonus = CouponBonus(o, amount)
  /\ t.coupon # NoCoupon => <<t.coupon, u>> \notin R
  /\ t.at = "first" => Couponed(d, t, amount)
  /\ t.at \in {"referrer", "commit"} =>
       Earned(d, t, amount, ~H[u], ReferredBy[u])

(* An open transaction is of a PENDING deposit. *)
TxSound(d) ==
  tx[d].at # "idle" =>
    /\ d \in DOMAIN deposits /\ deposits[d].status = "PENDING"
    /\ Gathered(d, tx[d], deposits[d].user, deposits[d].amount,
                hasDeposited, redemptions)

Tables ==
  /\ settings \in Settings
  /\ coupons \in [Coupons -> [offer : Offers, exists : BOOLEAN,
                              usedCount : Nat]]
  /\ deposits \in Seq(DepositRow) /\ Len(deposits) <= MaxDeposits
  /\ ledger \in [Users -> Seq(RewardLine)]
  /\ hasDeposited \in [Users -> BOOLEAN] /\ earnings \in [Users -> Nat]
  /\ referralLog \subseteq [referee : Users, reward : Nat]
  /\ redemptions \subseteq Coupons \X Users /\ IsFiniteSet(redemptions)
  /\ aborts \in 0..MaxAborts

(* No row is locked twice. *)
Exclusive ==
  \A d, e \in 1..MaxDeposits : d # e => tx[d].holds \cap tx[e].holds = {}

(* Only a customer who has deposited was rewarded as a referee. *)
RefereesDeposited == \A l \in referralLog : hasDeposited[l.referee]

IInv ==
  /\ Tables /\ tx \in [1..MaxDeposits -> TxRow] /\ Exclusive
  /\ RefereesDeposited /\ RedemptionsCounted
  /\ \A d \in 1..MaxDeposits : TxSound(d)
-----------------------------------------------------------------------------
(* The sums.                                                               *)

LEMMA PercentType ==
  ASSUME NEW a \in Nat, NEW p \in Nat
  PROVE  Percent(a, p) \in Nat
<1>1. a * p \in Nat
  OBVIOUS
<1>2. \A n \in Nat : n \div 100 \in Nat
  OBVIOUS
<1> QED
  BY <1>1, <1>2 DEF Percent

LEMMA CouponBonusType ==
  ASSUME NEW o \in Offers, NEW a \in Nat
  PROVE  CouponBonus(o, a) \in Nat
<1>1. o.value \in Nat
  BY OffersAssumption DEF OfferRow
<1> QED
  BY <1>1, PercentType DEF CouponBonus

LEMMA RewardTypes ==
  ASSUME NEW s \in Settings, NEW a \in Nat
  PROVE  /\ FirstBonus(s, a) \in Nat
         /\ RefereeBonus(s, a) \in Nat
         /\ ReferrerReward(s, a) \in Nat
         /\ s.referralEnabled \in BOOLEAN
<1>1. s \in SettingsRow
  BY SettingsAssumption
<1>2. /\ s.firstPercent \in Nat /\ s.firstMax \in Nat
      /\ s.refereePercent \in Nat /\ s.referrerValue \in Nat
      /\ s.referralEnabled \in BOOLEAN
  BY <1>1 DEF SettingsRow
<1>3. FirstBonus(s, a) \in Nat
  BY <1>2, PercentType DEF FirstBonus
<1> QED
  BY <1>2, <1>3, PercentType DEF RefereeBonus, ReferrerReward

LEMMA LineType ==
  ASSUME NEW d \in Nat, NEW kind \in RewardKinds \cup {"deposit", "referral"},
         NEW a \in Nat
  PROVE  Line(d, kind, a) \in Seq(RewardLine)
<1>1. CASE a > 0
  <2> DEFINE line == [deposit |-> d, kind |-> kind, amount |-> a]
  <2>1. line \in RewardLine
    BY <1>1 DEF RewardLine
  <2> QED
    BY <1>1, <2>1 DEF Line
<1>2. CASE ~(a > 0)
  BY <1>2 DEF Line
<1> QED
  BY <1>1, <1>2

LEMMA MethodRowsType ==
  ASSUME NEW d \in Nat, NEW a \in Nat, NEW p \in MethodPercents
  PROVE  /\ MethodRows(d, a, p) \in Seq(RewardLine)
         /\ Percent(a, p) \in Nat
<1>1. Percent(a, p) \in Nat
  BY PercentType, MethodPercentsAssumption
<1>2. Line(d, "deposit", a) \in Seq(RewardLine)
  BY LineType
<1>3. Line(d, "method", Percent(a, p)) \in Seq(RewardLine)
  BY <1>1, LineType DEF RewardKinds
<1> QED
  BY <1>1, <1>2, <1>3 DEF MethodRows

LEMMA CouponRowsType ==
  ASSUME NEW d \in Nat, NEW a \in Nat, NEW p \in MethodPercents, NEW c,
         NEW o \in Offers
  PROVE  /\ CouponRows(d, a, p, c, o) \in Seq(RewardLine)
         /\ CouponGives(a, c, o) \in Nat
<1>1. CouponGives(a, c, o) \in Nat
  BY CouponBonusType DEF CouponGives
<1>2. Line(d, "coupon", CouponGives(a, c, o)) \in Seq(RewardLine)
  BY <1>1, LineType DEF RewardKinds
<1> QED
  BY <1>1, <1>2, MethodRowsType DEF CouponRows
-----------------------------------------------------------------------------
(* Steps of one transaction.                                               *)

LEMMA DepositTypes ==
  ASSUME IInv, NEW d \in DOMAIN deposits
  PROVE  /\ d \in 1..MaxDeposits /\ d \in Nat
         /\ Owner(d) \in Users /\ Referrer(d) \in Users \cup {NoUser}
         /\ deposits[d].user = Owner(d)
         /\ deposits[d].amount \in Nat /\ deposits[d].amount > 0
         /\ deposits[d].coupon \in Coupons \cup {NoCoupon}
<1>1. deposits \in Seq(DepositRow) /\ Len(deposits) <= MaxDeposits
  BY DEF IInv, Tables
<1>2. deposits[d] \in DepositRow /\ d \in 1..Len(deposits)
  BY <1>1
<1>3. d \in 1..MaxDeposits /\ d \in Nat
  BY <1>1, <1>2, BoundsAssumption
<1>4. /\ deposits[d].user \in Users /\ deposits[d].amount \in Amounts
      /\ deposits[d].coupon \in Coupons \cup {NoCoupon}
  BY <1>2 DEF DepositRow
<1>5. deposits[d].amount \in Nat /\ deposits[d].amount > 0
  <2>1. deposits[d].amount \in Nat \ {0}
    BY <1>4, AmountsAssumption
  <2>2. \A n \in Nat \ {0} : n > 0
    OBVIOUS
  <2> QED
    BY <2>1, <2>2
<1>6. Referrer(d) \in Users \cup {NoUser}
  BY <1>4, ReferredByAssumption DEF Owner, Referrer
<1> QED
  BY <1>3, <1>4, <1>5, <1>6 DEF Owner

LEMMA IdleTx == NoTx \in TxRow /\ NoTx.at = "idle" /\ NoTx.holds = {}
<1>1. <<>> \in Seq(RewardLine)
  OBVIOUS
<1> QED
  BY <1>1 DEF NoTx, TxRow, Points

(* A step of d's transaction leaves IInv true if what it has gathered is   *)
(* sound and its locks are its own.                                        *)
LEMMA WorkStep ==
  ASSUME IInv, NEW d \in 1..MaxDeposits, NEW t \in TxRow,
         tx' = [tx EXCEPT ![d] = t],
         UNCHANGED <<settings, coupons, deposits, rewards>>,
         aborts' \in 0..MaxAborts,
         \A e \in 1..MaxDeposits : e # d => t.holds \cap tx[e].holds = {},
         t.at # "idle" =>
           /\ d \in DOMAIN deposits /\ deposits[d].status = "PENDING"
           /\ Gathered(d, t, deposits[d].user, deposits[d].amount,
                       hasDeposited, redemptions)
  PROVE  IInv'
<1>1. Tables'
  BY DEF IInv, Tables, rewards
<1>2. tx \in [1..MaxDeposits -> TxRow]
  BY DEF IInv
<1>3. tx' \in [1..MaxDeposits -> TxRow]
  BY <1>2
<1>4. \A e \in 1..MaxDeposits : tx'[e] = IF e = d THEN t ELSE tx[e]
  BY <1>2
<1>5. Exclusive'
  BY <1>4 DEF IInv, Exclusive
<1>6. RefereesDeposited' /\ RedemptionsCounted'
  BY DEF IInv, RefereesDeposited, RedemptionsCounted, rewards
<1>7. ASSUME NEW e \in 1..MaxDeposits
      PROVE  TxSound(e)'
  <2>1. TxSound(e)
    BY DEF IInv
  <2> QED
    BY <1>4, <2>1 DEF TxSound, rewards
<1> QED
  BY <1>1, <1>3, <1>5, <1>6, <1>7 DEF IInv

(* The transaction ends and leaves nothing. *)
LEMMA EndStep ==
  ASSUME IInv, NEW d \in 1..MaxDeposits, tx' = [tx EXCEPT ![d] = NoTx],
         UNCHANGED <<settings, coupons, deposits, rewards>>,
         aborts' \in 0..MaxAborts
  PROVE  IInv'
BY IdleTx, WorkStep

LEMMA OpenTx ==
  ASSUME IInv, NEW d \in 1..MaxDeposits, NEW where, At(d, where),
         where # "idle"
  PROVE  /\ d \in DOMAIN deposits /\ tx[d].at = where /\ tx[d] \in TxRow
         /\ deposits[d].status = "PENDING"
         /\ Gathered(d, tx[d], Owner(d), deposits[d].amount,
                     hasDeposited, redemptions)
<1>1. TxSound(d) /\ tx[d] \in TxRow
  BY DEF IInv
<1> QED
  BY <1>1 DEF At, TxSound, Owner

LEMMA LocksKept ==
  ASSUME IInv, NEW d \in 1..MaxDeposits
  PROVE  \A e \in 1..MaxDeposits : e # d => tx[d].holds \cap tx[e].holds = {}
BY DEF IInv, Exclusive

LEMMA LockTaken ==
  ASSUME IInv, NEW d \in 1..MaxDeposits, NEW row, Free(d, row)
  PROVE  \A e \in 1..MaxDeposits :
            e # d => (tx[d].holds \cup {row}) \cap tx[e].holds = {}
<1>1. DOMAIN tx = 1..MaxDeposits
  BY DEF IInv
<1> QED
  BY <1>1, LocksKept DEF Free

LEMMA AbortsType == ASSUME IInv PROVE aborts \in 0..MaxAborts
BY DEF IInv, Tables

LEMMA OpenStep ==
  ASSUME IInv, NEW d \in 1..MaxDeposits, Open(d)
  PROVE  IInv'
<1> DEFINE t == [NoTx EXCEPT !.at = "principal"]
<1>1. /\ t \in TxRow /\ t.at = "principal" /\ t.holds = {}
      /\ t.coupon = NoCoupon /\ ~t.first /\ ~t.referred /\ t.reward = 0
  BY IdleTx DEF TxRow, Points, NoTx
<1>2. tx' = [tx EXCEPT ![d] = t]
  BY DEF Open, Work
<1> HIDE DEF t
<1>3. Gathered(d, t, deposits[d].user, deposits[d].amount,
               hasDeposited, redemptions)
  BY <1>1 DEF Gathered
<1> QED
  BY <1>1, <1>2, <1>3, WorkStep, AbortsType DEF Open, At, Work

LEMMA PrincipalStep ==
  ASSUME IInv, NEW d \in 1..MaxDeposits, Principal(d)
  PROVE  IInv'
<1> DEFINE amount == deposits[d].amount
           row == WalletRow(Owner(d))
<1>1. /\ d \in DOMAIN deposits /\ tx[d].at = "principal" /\ tx[d] \in TxRow
      /\ deposits[d].status = "PENDING"
      /\ Gathered(d, tx[d], Owner(d), amount, hasDeposited, redemptions)
  BY OpenTx DEF Principal
<1>2. Owner(d) \in Users /\ amount \in Nat /\ d \in Nat
  BY <1>1, DepositTypes
<1>3. PICK percent \in MethodPercents :
        Work(d, "coupon",
             [tx[d] EXCEPT !.holds = @ \cup {row},
                           !.rows = MethodRows(d, amount, percent),
                           !.bonus = Percent(amount, percent)])
  BY DEF Principal, MethodRows
<1> DEFINE t == [tx[d] EXCEPT !.holds = @ \cup {row},
                              !.rows = MethodRows(d, amount, percent),
                              !.bonus = Percent(amount, percent),
                              !.at = "coupon"]
<1>4. tx' = [tx EXCEPT ![d] = t]
  BY <1>3 DEF Work
<1>5. /\ MethodRows(d, amount, percent) \in Seq(RewardLine)
      /\ Percent(amount, percent) \in Nat
  BY <1>2, MethodRowsType
<1>6. tx[d].holds \cup {row} \in SUBSET ({"wallet", "coupon"}
                                   \X (Users \cup {NoUser} \cup Coupons))
  BY <1>1, <1>2 DEF TxRow, WalletRow
<1>7. /\ t \in TxRow /\ t.at = "coupon" /\ t.holds = tx[d].holds \cup {row}
      /\ t.rows = MethodRows(d, amount, percent)
      /\ t.bonus = Percent(amount, percent)
      /\ t.coupon = tx[d].coupon /\ t.first = tx[d].first
      /\ t.referred = tx[d].referred /\ t.reward = tx[d].reward
  BY <1>1, <1>5, <1>6 DEF TxRow, Points
<1> HIDE DEF t
<1>8. Gathered(d, t, Owner(d), amount, hasDeposited, redemptions)
  BY <1>1, <1>7 DEF Gathered, Methodical
<1>9. \A e \in 1..MaxDeposits : e # d => t.holds \cap tx[e].holds = {}
  BY <1>7, LockTaken DEF Principal
<1>10. UNCHANGED <<settings, coupons, deposits, rewards, aborts>>
  BY <1>3 DEF Work
<1> QED
  BY <1>1, <1>4, <1>7, <1>8, <1>9, <1>10, WorkStep, AbortsType DEF Owner

LEMMA CheckCouponStep ==
  ASSUME IInv, NEW d \in 1..MaxDeposits, CheckCoupon(d)
  PROVE  IInv'
<1> DEFINE amount == deposits[d].amount
           c == deposits[d].coupon
           bonus == CouponBonus(coupons[c].offer, amount)
<1>1. /\ d \in DOMAIN deposits /\ tx[d].at = "coupon" /\ tx[d] \in TxRow
      /\ deposits[d].status = "PENDING"
      /\ Gathered(d, tx[d], Owner(d), amount, hasDeposited, redemptions)
  BY OpenTx DEF CheckCoupon
<1>2. /\ Owner(d) \in Users /\ amount \in Nat /\ d \in Nat
      /\ c \in Coupons \cup {NoCoupon}
  BY <1>1, DepositTypes
<1>3. Methodical(d, tx[d], amount)
  BY <1>1 DEF Gathered
<1>4. UNCHANGED <<settings, coupons, deposits, rewards, aborts>>
  BY DEF CheckCoupon, Work
<1>5. CASE c # NoCoupon /\ Redeemable(c, Owner(d)) /\ bonus > 0
  <2> DEFINE t == [tx[d] EXCEPT !.coupon = c, !.couponBonus = bonus,
                                !.at = "redeem"]
  <2>1. tx' = [tx EXCEPT ![d] = t]
    BY <1>5 DEF CheckCoupon, Work
  <2>2. c \in Coupons /\ coupons[c].offer \in Offers
    BY <1>2, <1>5 DEF IInv, Tables
  <2>3. bonus \in Nat
    BY <1>2, <2>2, CouponBonusType
  <2> HIDE DEF bonus
  <2>4. /\ t \in TxRow /\ t.at = "redeem" /\ t.holds = tx[d].holds
        /\ t.rows = tx[d].rows /\ t.bonus = tx[d].bonus
        /\ t.coupon = c /\ t.couponBonus = bonus /\ t.first = tx[d].first
        /\ t.referred = tx[d].referred /\ t.reward = tx[d].reward
    BY <1>1, <2>2, <2>3 DEF TxRow, Points
  <2> HIDE DEF t
  <2>5. <<c, Owner(d)>> \notin redemptions
    BY <1>5 DEF Redeemable
  <2>6. \E o \in Offers : t.couponBonus = CouponBonus(o, amount)
    BY <2>2, <2>4 DEF bonus
  <2>7. Methodical(d, t, amount)
    BY <1>3, <2>4 DEF Methodical
  <2>8. Gathered(d, t, Owner(d), amount, hasDeposited, redemptions)
    BY <1>1, <1>5, <2>2, <2>4, <2>5, <2>6, <2>7 DEF Gathered
  <2> QED
    BY <1>1, <1>4, <2>1, <2>4, <2>8, WorkStep, AbortsType, LocksKept DEF Owner
<1>6. CASE ~(c # NoCoupon /\ Redeemable(c, Owner(d)) /\ bonus > 0)
  <2> DEFINE t == [tx[d] EXCEPT !.at = "first"]
  <2>1. tx' = [tx EXCEPT ![d] = t]
    BY <1>6 DEF CheckCoupon, Work
  <2>2. /\ t \in TxRow /\ t.at = "first" /\ t.holds = tx[d].holds
        /\ t.rows = tx[d].rows /\ t.bonus = tx[d].bonus
        /\ t.coupon = tx[d].coupon /\ t.first = tx[d].first
        /\ t.referred = tx[d].referred /\ t.reward = tx[d].reward
    BY <1>1 DEF TxRow, Points
  <2> HIDE DEF t
  <2>3. t.coupon = NoCoupon
    BY <1>1, <2>2 DEF Gathered
  <2>4. Couponed(d, t, amount)
    <3>1. PICK percent \in MethodPercents :
            /\ tx[d].rows = MethodRows(d, amount, percent)
            /\ tx[d].bonus = Percent(amount, percent)
      BY <1>3 DEF Methodical
    <3>2. PICK o \in Offers : TRUE
      BY OffersAssumption
    <3>3. CouponGives(amount, t.coupon, o) = 0
      BY <2>3 DEF CouponGives
    <3>4. /\ MethodRows(d, amount, percent) \in Seq(RewardLine)
          /\ Percent(amount, percent) \in Nat
      BY <1>2, MethodRowsType
    <3>5. CouponRows(d, amount, percent, t.coupon, o)
            = MethodRows(d, amount, percent)
      BY <3>3, <3>4 DEF CouponRows, Line
    <3> QED
      BY <2>2, <2>3, <3>1, <3>3, <3>4, <3>5 DEF Couponed
  <2>5. Gathered(d, t, Owner(d), amount, hasDeposited, redemptions)
    BY <1>1, <2>2, <2>3, <2>4 DEF Gathered
  <2> QED
    BY <1>1, <1>4, <2>1, <2>2, <2>5, WorkStep, AbortsType, LocksKept DEF Owner
<1> QED
  BY <1>5, <1>6
LEMMA RedeemStep ==
  ASSUME IInv, NEW d \in 1..MaxDeposits, Redeem(d)
  PROVE  IInv'
<1> DEFINE amount == deposits[d].amount
           row == CouponRow(tx[d].coupon)
           line == Line(d, "coupon", tx[d].couponBonus)
<1>1. /\ d \in DOMAIN deposits /\ tx[d].at = "redeem" /\ tx[d] \in TxRow
      /\ deposits[d].status = "PENDING"
      /\ Gathered(d, tx[d], Owner(d), amount, hasDeposited, redemptions)
  BY OpenTx DEF Redeem
<1>2. Owner(d) \in Users /\ amount \in Nat /\ d \in Nat
  BY <1>1, DepositTypes
<1>3. PICK percent \in MethodPercents :
        /\ tx[d].rows = MethodRows(d, amount, percent)
        /\ tx[d].bonus = Percent(amount, percent)
  BY <1>1 DEF Gathered, Methodical
<1>4. PICK o \in Offers : tx[d].couponBonus = CouponBonus(o, amount)
  BY <1>1 DEF Gathered
<1>5. tx[d].coupon \in Coupons /\ tx[d].couponBonus > 0
  BY <1>1 DEF Gathered
<1>6. tx[d].couponBonus = CouponGives(amount, tx[d].coupon, o)
  BY <1>4, <1>5, NoCouponAssumption DEF CouponGives
<1>7. /\ tx[d].rows \o line = CouponRows(d, amount, percent, tx[d].coupon, o)
      /\ tx[d].rows \o line \in Seq(RewardLine)
  BY <1>2, <1>3, <1>6, CouponRowsType DEF CouponRows
<1>8. tx[d].bonus + tx[d].couponBonus \in Nat
  BY <1>1 DEF TxRow
<1> DEFINE rows == tx[d].rows \o line
           bonus == tx[d].bonus + tx[d].couponBonus
           t == [tx[d] EXCEPT !.holds = @ \cup {row}, !.rows = @ \o line,
                              !.bonus = @ + tx[d].couponBonus, !.at = "first"]
<1>9. tx' = [tx EXCEPT ![d] = t]
  BY DEF Redeem, Work
<1>10. tx[d].holds \cup {row} \in SUBSET ({"wallet", "coupon"}
                                   \X (Users \cup {NoUser} \cup Coupons))
  BY <1>1, <1>5 DEF TxRow, CouponRow
<1>11. t = [tx[d] EXCEPT !.holds = tx[d].holds \cup {row}, !.rows = rows,
                         !.bonus = bonus, !.at = "first"]
  BY <1>1 DEF TxRow
<1> HIDE DEF rows, bonus, t
<1>12. rows \in Seq(RewardLine) /\ bonus \in Nat
  BY <1>7, <1>8 DEF rows, bonus
<1>13. /\ t \in TxRow /\ t.at = "first" /\ t.holds = tx[d].holds \cup {row}
       /\ t.rows = rows /\ t.bonus = bonus
       /\ t.coupon = tx[d].coupon /\ t.first = tx[d].first
       /\ t.referred = tx[d].referred /\ t.reward = tx[d].reward
  BY <1>1, <1>10, <1>11, <1>12 DEF TxRow, Points
<1>14. Couponed(d, t, amount)
  <2>1. t.rows = CouponRows(d, amount, percent, t.coupon, o)
    BY <1>7, <1>13 DEF rows
  <2>2. t.bonus = Percent(amount, percent) + CouponGives(amount, t.coupon, o)
    BY <1>3, <1>6, <1>13 DEF bonus
  <2>3. CouponGives(amount, t.coupon, o) > 0
    BY <1>5, <1>6, <1>13
  <2> QED
    BY <2>1, <2>2, <2>3 DEF Couponed
<1>15. Gathered(d, t, Owner(d), amount, hasDeposited, redemptions)
  BY <1>1, <1>13, <1>14 DEF Gathered
<1>16. \A e \in 1..MaxDeposits : e # d => t.holds \cap tx[e].holds = {}
  BY <1>13, LockTaken DEF Redeem
<1>17. UNCHANGED <<settings, coupons, deposits, rewards, aborts>>
  BY DEF Redeem, Work
<1> QED
  BY <1>1, <1>9, <1>13, <1>15, <1>16, <1>17, WorkStep, AbortsType DEF Owner

(* What the transaction goes on with once it knows whether the deposit is  *)
(* its customer's first.                                                   *)
LEMMA EarnedStep ==
  ASSUME IInv, NEW d \in 1..MaxDeposits, NEW where \in {"referrer", "commit"},
         tx[d].at # "idle", tx[d].at # "principal",
         NEW t \in TxRow, t.at = where, t.coupon = tx[d].coupon,
         tx' = [tx EXCEPT ![d] = t],
         tx[d].holds \subseteq t.holds,
         \A e \in 1..MaxDeposits : e # d => t.holds \cap tx[e].holds = {},
         Earned(d, t, deposits[d].amount, ~hasDeposited[Owner(d)], Referrer(d)),
         UNCHANGED <<settings, coupons, deposits, rewards, aborts>>
  PROVE  IInv'
<1>1. TxSound(d)
  BY DEF IInv
<1>2. Gathered(d, t, Owner(d), deposits[d].amount, hasDeposited, redemptions)
  BY <1>1 DEF TxSound, Gathered, Owner, Referrer
<1> QED
  BY <1>1, <1>2, WorkStep, AbortsType DEF TxSound, Owner

LEMMA NotFirstStep ==
  ASSUME IInv, NEW d \in 1..MaxDeposits, NotFirst(d)
  PROVE  IInv'
<1> DEFINE amount == deposits[d].amount
           t == [tx[d] EXCEPT !.at = "commit"]
<1>1. /\ d \in DOMAIN deposits /\ tx[d].at = "first" /\ tx[d] \in TxRow
      /\ Gathered(d, tx[d], Owner(d), amount, hasDeposited, redemptions)
      /\ hasDeposited[Owner(d)]
  BY OpenTx DEF NotFirst
<1>2. Owner(d) \in Users /\ amount \in Nat /\ d \in Nat
  BY <1>1, DepositTypes
<1>3. tx' = [tx EXCEPT ![d] = t]
  BY DEF NotFirst, Work
<1>4. /\ t \in TxRow /\ t.at = "commit" /\ t.holds = tx[d].holds
      /\ t.rows = tx[d].rows /\ t.bonus = tx[d].bonus
      /\ t.coupon = tx[d].coupon /\ t.first = tx[d].first
      /\ t.referred = tx[d].referred /\ t.reward = tx[d].reward
  BY <1>1 DEF TxRow, Points
<1> HIDE DEF t
<1>5. PICK percent \in MethodPercents, o \in Offers :
        /\ t.rows = CouponRows(d, amount, percent, t.coupon, o)
        /\ t.bonus = Percent(amount, percent)
                       + CouponGives(amount, t.coupon, o)
        /\ t.coupon # NoCoupon => CouponGives(amount, t.coupon, o) > 0
  BY <1>1, <1>4 DEF Gathered, Couponed
<1>6. /\ t.first = FALSE /\ t.referred = FALSE /\ t.reward = 0
  BY <1>1, <1>4 DEF Gathered, TxRow
<1>7. /\ t.rows = CouponRows(d, amount, percent, t.coupon, o)
                    \o Line(d, "first", 0) \o Line(d, "referee", 0)
      /\ t.bonus = Percent(amount, percent)
                     + CouponGives(amount, t.coupon, o) + 0 + 0
  <2>1. /\ CouponRows(d, amount, percent, t.coupon, o) \in Seq(RewardLine)
        /\ CouponGives(amount, t.coupon, o) \in Nat
    BY <1>2, CouponRowsType
  <2>2. Percent(amount, percent) \in Nat
    BY <1>2, MethodRowsType
  <2> QED
    BY <1>5, <2>1, <2>2 DEF Line
<1>8. PICK s \in Settings : TRUE
  BY DEF IInv, Tables
<1>9. Earned(d, t, amount, FALSE, Referrer(d))
  BY <1>5, <1>6, <1>7, <1>8 DEF Earned
<1>10. (~hasDeposited[Owner(d)]) = FALSE
  BY <1>1
<1>11. Earned(d, t, amount, ~hasDeposited[Owner(d)], Referrer(d))
  BY <1>9, <1>10
<1>12. UNCHANGED <<settings, coupons, deposits, rewards, aborts>>
  BY DEF NotFirst, Work
<1> QED
  BY <1>1, <1>3, <1>4, <1>11, <1>12, EarnedStep, LocksKept

LEMMA FirstStep ==
  ASSUME IInv, NEW d \in 1..MaxDeposits, First(d)
  PROVE  IInv'
<1> DEFINE amount == deposits[d].amount
           start == FirstBonus(settings, amount)
           referred == settings.referralEnabled /\ Referrer(d) # NoUser
           referee == IF referred THEN RefereeBonus(settings, amount) ELSE 0
           reward == IF referred THEN ReferrerReward(settings, amount) ELSE 0
           where == IF reward > 0 THEN "referrer" ELSE "commit"
<1>1. /\ d \in DOMAIN deposits /\ tx[d].at = "first" /\ tx[d] \in TxRow
      /\ Gathered(d, tx[d], Owner(d), amount, hasDeposited, redemptions)
      /\ ~hasDeposited[Owner(d)]
  BY OpenTx DEF First
<1>2. Owner(d) \in Users /\ amount \in Nat /\ d \in Nat
  BY <1>1, DepositTypes
<1>3. ~\E l \in referralLog : l.referee = Owner(d)
  BY <1>1 DEF IInv, RefereesDeposited
<1>4. /\ settings \in Settings /\ start \in Nat
      /\ referee \in Nat /\ reward \in Nat /\ referred \in BOOLEAN
  <2>1. settings \in Settings
    BY DEF IInv, Tables
  <2> QED
    BY <1>2, <2>1, RewardTypes
<1>5. Work(d, where,
           [tx[d] EXCEPT !.first = TRUE, !.referred = referred,
                         !.reward = reward, !.bonus = @ + start + referee,
                         !.rows = @ \o Line(d, "first", start)
                                    \o Line(d, "referee", referee)])
  BY <1>3 DEF First
<1> HIDE DEF start, referee, reward, referred
<1> DEFINE rows == tx[d].rows \o Line(d, "first", start)
                              \o Line(d, "referee", referee)
           bonus == tx[d].bonus + start + referee
           t == [tx[d] EXCEPT !.first = TRUE, !.referred = referred,
                              !.reward = reward, !.bonus = bonus,
                              !.rows = rows, !.at = where]
<1>6. tx' = [tx EXCEPT ![d] = t]
  BY <1>1, <1>5 DEF Work, TxRow
<1>7. rows \in Seq(RewardLine) /\ bonus \in Nat
  <2>1. /\ Line(d, "first", start) \in Seq(RewardLine)
        /\ Line(d, "referee", referee) \in Seq(RewardLine)
    BY <1>2, <1>4, LineType DEF RewardKinds
  <2> QED
    BY <1>1, <1>4, <2>1 DEF TxRow
<1> HIDE DEF rows, bonus
<1>8. /\ t \in TxRow /\ t.at = where /\ t.holds = tx[d].holds
      /\ t.rows = rows /\ t.bonus = bonus
      /\ t.coupon = tx[d].coupon /\ t.first = TRUE
      /\ t.referred = referred /\ t.reward = reward
  BY <1>1, <1>4, <1>7 DEF TxRow, Points
<1> HIDE DEF t
<1>9. PICK percent \in MethodPercents, o \in Offers :
        /\ tx[d].rows = CouponRows(d, amount, percent, t.coupon, o)
        /\ tx[d].bonus = Percent(amount, percent)
                           + CouponGives(amount, t.coupon, o)
        /\ t.coupon # NoCoupon => CouponGives(amount, t.coupon, o) > 0
  BY <1>1, <1>8 DEF Gathered, Couponed
<1>10. /\ t.rows = CouponRows(d, amount, percent, t.coupon, o)
                     \o Line(d, "first", start) \o Line(d, "referee", referee)
       /\ t.bonus = Percent(amount, percent)
                      + CouponGives(amount, t.coupon, o) + start + referee
  BY <1>8, <1>9, SMTT(30) DEF rows, bonus
<1>11. Earned(d, t, amount, TRUE, Referrer(d))
  BY <1>4, <1>8, <1>9, <1>10 DEF Earned, start, referred, referee, reward
<1>12. (~hasDeposited[Owner(d)]) = TRUE
  BY <1>1
<1>13. Earned(d, t, amount, ~hasDeposited[Owner(d)], Referrer(d))
  BY <1>11, <1>12
<1>14. UNCHANGED <<settings, coupons, deposits, rewards, aborts>>
  BY <1>5 DEF Work
<1> QED
  BY <1>1, <1>6, <1>8, <1>13, <1>14, EarnedStep, LocksKept

LEMMA PayReferrerStep ==
  ASSUME IInv, NEW d \in 1..MaxDeposits, PayReferrer(d)
  PROVE  IInv'
<1> DEFINE amount == deposits[d].amount
           row == WalletRow(Referrer(d))
           t == [tx[d] EXCEPT !.holds = @ \cup {row}, !.at = "commit"]
<1>1. /\ d \in DOMAIN deposits /\ tx[d].at = "referrer" /\ tx[d] \in TxRow
      /\ Gathered(d, tx[d], Owner(d), amount, hasDeposited, redemptions)
  BY OpenTx DEF PayReferrer
<1>2. Referrer(d) \in Users \cup {NoUser}
  BY <1>1, DepositTypes
<1>3. tx' = [tx EXCEPT ![d] = t]
  BY DEF PayReferrer, Work
<1>4. tx[d].holds \cup {row} \in SUBSET ({"wallet", "coupon"}
                                   \X (Users \cup {NoUser} \cup Coupons))
  BY <1>1, <1>2 DEF TxRow, WalletRow
<1>5. /\ t \in TxRow /\ t.at = "commit" /\ t.holds = tx[d].holds \cup {row}
      /\ t.rows = tx[d].rows /\ t.bonus = tx[d].bonus
      /\ t.coupon = tx[d].coupon /\ t.first = tx[d].first
      /\ t.referred = tx[d].referred /\ t.reward = tx[d].reward
  BY <1>1, <1>4 DEF TxRow, Points
<1> HIDE DEF t
<1>6. Earned(d, tx[d], amount, ~hasDeposited[Owner(d)], Referrer(d))
  BY <1>1 DEF Gathered, Referrer
<1>7. Earned(d, t, amount, ~hasDeposited[Owner(d)], Referrer(d))
  BY <1>5, <1>6, ZenonT(40) DEF Earned
<1>8. \A e \in 1..MaxDeposits : e # d => t.holds \cap tx[e].holds = {}
  BY <1>5, LockTaken DEF PayReferrer
<1>9. UNCHANGED <<settings, coupons, deposits, rewards, aborts>>
  BY DEF PayReferrer, Work
<1> QED
  BY <1>1, <1>3, <1>5, <1>7, <1>8, <1>9, EarnedStep
-----------------------------------------------------------------------------
(* The commit.                                                             *)

(* What is known of a transaction about to commit. *)
LEMMA Committing ==
  ASSUME IInv, NEW d \in 1..MaxDeposits, Commit(d)
  PROVE  /\ d \in DOMAIN deposits /\ deposits[d].status = "PENDING"
         /\ tx[d] \in TxRow /\ WalletRow(Owner(d)) \in tx[d].holds
         /\ tx[d].coupon # NoCoupon => <<tx[d].coupon, Owner(d)>> \notin redemptions
         /\ Earned(d, tx[d], deposits[d].amount, ~hasDeposited[Owner(d)],
                   Referrer(d))
         /\ hasDeposited[Owner(d)] \in BOOLEAN
         /\ hasDeposited' = [hasDeposited EXCEPT ![Owner(d)] = TRUE]
<1>1. /\ d \in DOMAIN deposits /\ tx[d].at = "commit" /\ tx[d] \in TxRow
      /\ deposits[d].status = "PENDING"
      /\ Gathered(d, tx[d], Owner(d), deposits[d].amount,
                  hasDeposited, redemptions)
  BY OpenTx DEF Commit
<1>2. Earned(d, tx[d], deposits[d].amount, ~hasDeposited[Owner(d)],
             Referrer(d))
  BY <1>1 DEF Gathered, Referrer
<1>3. tx[d].first = ~hasDeposited[Owner(d)]
  BY <1>2 DEF Earned
<1>4. hasDeposited[Owner(d)] \in BOOLEAN
  BY <1>1, DepositTypes DEF IInv, Tables
<1>5. (hasDeposited[Owner(d)] \/ tx[d].first) = TRUE
  BY <1>3, <1>4
<1>6. hasDeposited' = [hasDeposited EXCEPT ![Owner(d)] = TRUE]
  BY <1>5 DEF Commit
<1>7. /\ WalletRow(Owner(d)) \in tx[d].holds
      /\ tx[d].coupon # NoCoupon => <<tx[d].coupon, Owner(d)>> \notin redemptions
  BY <1>1 DEF Gathered
<1> QED
  BY <1>1, <1>2, <1>4, <1>6, <1>7

LEMMA CommitRedemptions ==
  ASSUME IInv, NEW d \in 1..MaxDeposits, Commit(d)
  PROVE  /\ redemptions' \subseteq Coupons \X Users /\ IsFiniteSet(redemptions')
         /\ coupons' \in [Coupons -> [offer : Offers, exists : BOOLEAN,
                                      usedCount : Nat]]
         /\ RedemptionsCounted'
<1> DEFINE k == tx[d].coupon
           u == Owner(d)
           RowsOf(c, R) == {r \in R : r[1] = c}
<1>1. /\ k \in Coupons \cup {NoCoupon} /\ u \in Users
      /\ k # NoCoupon => <<k, u>> \notin redemptions
  BY Committing, DepositTypes DEF TxRow
<1>2. redemptions' = redemptions \cup
                       (IF k = NoCoupon THEN {} ELSE {<<k, u>>})
  BY DEF Commit
<1>3. /\ redemptions \subseteq Coupons \X Users /\ IsFiniteSet(redemptions)
      /\ coupons \in [Coupons -> [offer : Offers, exists : BOOLEAN,
                                  usedCount : Nat]]
      /\ \A c \in Coupons :
           coupons[c].usedCount = Cardinality(RowsOf(c, redemptions))
  BY DEF IInv, Tables, RedemptionsCounted
<1>4. coupons' = [c \in Coupons |->
        [coupons[c] EXCEPT !.usedCount = @ + IF c = k THEN 1 ELSE 0]]
  BY DEF Commit, CountUse
<1>5. \A c \in Coupons :
        /\ coupons'[c] \in [offer : Offers, exists : BOOLEAN, usedCount : Nat]
        /\ coupons'[c].usedCount
             = coupons[c].usedCount + IF c = k THEN 1 ELSE 0
  <2>1. ASSUME NEW c \in Coupons
        PROVE  /\ coupons'[c] \in [offer : Offers, exists : BOOLEAN,
                                   usedCount : Nat]
               /\ coupons'[c].usedCount
                    = coupons[c].usedCount + IF c = k THEN 1 ELSE 0
    <3> DEFINE n == coupons[c].usedCount + IF c = k THEN 1 ELSE 0
    <3>1. coupons[c] \in [offer : Offers, exists : BOOLEAN, usedCount : Nat]
      BY <1>3
    <3>2. n \in Nat
      BY <3>1
    <3>3. coupons'[c] = [coupons[c] EXCEPT !.usedCount = n]
      BY <1>4, <3>1
    <3> HIDE DEF n
    <3>4. /\ coupons'[c] \in [offer : Offers, exists : BOOLEAN, usedCount : Nat]
          /\ coupons'[c].usedCount = n
      BY <3>1, <3>2, <3>3
    <3> QED
      BY <3>4 DEF n
  <2> QED
    BY <2>1
<1>6. redemptions' \subseteq Coupons \X Users
  BY <1>1, <1>2, <1>3
<1>7. IsFiniteSet(redemptions')
  BY <1>2, <1>3, FS_AddElement, ZenonT(40)
<1>8. ASSUME NEW c \in Coupons
      PROVE  coupons'[c].usedCount = Cardinality(RowsOf(c, redemptions'))
  <2>1. IsFiniteSet(RowsOf(c, redemptions))
    BY <1>3, FS_Subset
  <2>2. CASE c = k
    <3>1. RowsOf(c, redemptions')
            = RowsOf(c, redemptions) \cup {<<k, u>>}
      BY <1>2, <2>2, NoCouponAssumption
    <3>2. <<k, u>> \notin RowsOf(c, redemptions)
      BY <1>1, <2>2, NoCouponAssumption
    <3>3. Cardinality(RowsOf(c, redemptions) \cup {<<k, u>>})
            = Cardinality(RowsOf(c, redemptions)) + 1
      BY <2>1, <3>2, FS_AddElement
    <3> QED
      BY <1>3, <1>5, <2>2, <3>1, <3>3
  <2>3. CASE c # k
    <3>1. RowsOf(c, redemptions') = RowsOf(c, redemptions)
      BY <1>2, <2>3
    <3>2. coupons'[c].usedCount = coupons[c].usedCount
      <4>1. coupons[c].usedCount \in Nat
        BY <1>3
      <4> QED
        BY <1>5, <2>3, <4>1
    <3> QED
      BY <1>3, <3>1, <3>2
  <2> QED
    BY <2>2, <2>3
<1>9. coupons' \in [Coupons -> [offer : Offers, exists : BOOLEAN,
                                usedCount : Nat]]
  BY <1>4, <1>5
<1>10. RedemptionsCounted'
  BY <1>8 DEF RedemptionsCounted
<1> QED
  BY <1>6, <1>7, <1>9, <1>10

LEMMA CommitTables ==
  ASSUME IInv, NEW d \in 1..MaxDeposits, Commit(d)
  PROVE  Tables' /\ RefereesDeposited'
<1> DEFINE t == tx[d]
           u == Owner(d)
<1>1. /\ d \in DOMAIN deposits /\ d \in Nat /\ u \in Users
      /\ Referrer(d) \in Users \cup {NoUser} /\ t \in TxRow
      /\ hasDeposited' = [hasDeposited EXCEPT ![u] = TRUE]
  BY Committing, DepositTypes
<1>2. Tables
  BY DEF IInv
<1>3. deposits' \in Seq(DepositRow) /\ Len(deposits') <= MaxDeposits
  <2> DEFINE row == [deposits[d] EXCEPT !.status = "APPROVED",
                                        !.bonus = t.bonus]
  <2>1. deposits \in Seq(DepositRow) /\ Len(deposits) <= MaxDeposits
    BY <1>2 DEF Tables
  <2>2. deposits[d] \in DepositRow
    BY <1>1, <2>1
  <2>3. row \in DepositRow
    BY <1>1, <2>2 DEF DepositRow, TxRow
  <2>4. deposits' = [deposits EXCEPT ![d] = row]
    BY <1>1, <2>1 DEF Commit
  <2> QED
    BY <1>1, <2>1, <2>3, <2>4
<1>4. ledger' \in [Users -> Seq(RewardLine)]
  <2>1. Line(d, "referral", t.reward) \in Seq(RewardLine)
    BY <1>1, LineType DEF TxRow
  <2>2. t.rows \in Seq(RewardLine)
    BY <1>1 DEF TxRow
  <2>3. ASSUME NEW w \in Users
        PROVE  ledger[w] \o (IF w = u THEN t.rows ELSE <<>>)
                 \o (IF w = Referrer(d) THEN Line(d, "referral", t.reward)
                                        ELSE <<>>) \in Seq(RewardLine)
    <3>1. ledger[w] \in Seq(RewardLine)
      BY <1>2 DEF Tables
    <3>2. (IF w = u THEN t.rows ELSE <<>>) \in Seq(RewardLine)
      BY <2>2
    <3>3. (IF w = Referrer(d) THEN Line(d, "referral", t.reward) ELSE <<>>)
            \in Seq(RewardLine)
      BY <2>1
    <3> QED
      BY <3>1, <3>2, <3>3
  <2> QED
    BY <2>3 DEF Commit
<1>5. hasDeposited' \in [Users -> BOOLEAN]
  BY <1>1, <1>2 DEF Tables
<1>6. earnings' \in [Users -> Nat]
  BY <1>1, <1>2 DEF Tables, Commit, Earn, TxRow
<1>7. referralLog' = referralLog \cup
        (IF t.referred THEN {[referee |-> u, reward |-> t.reward]} ELSE {})
  BY DEF Commit
<1>8. referralLog' \subseteq [referee : Users, reward : Nat]
  BY <1>1, <1>2, <1>7 DEF Tables, TxRow
<1>9. RefereesDeposited'
  <2>1. ASSUME NEW l \in referralLog' PROVE hasDeposited'[l.referee]
    <3>1. CASE l \in referralLog
      <4>1. hasDeposited[l.referee] /\ l.referee \in Users
        BY <1>2, <3>1 DEF IInv, RefereesDeposited, Tables
      <4> QED
        BY <1>1, <1>2, <4>1 DEF Tables
    <3>2. CASE l \notin referralLog
      <4>1. l.referee = u
        BY <1>7, <3>2
      <4> QED
        BY <1>1, <1>2, <4>1 DEF Tables
    <3> QED
      BY <3>1, <3>2
  <2> QED
    BY <2>1 DEF RefereesDeposited
<1>10. settings' \in Settings /\ aborts' \in 0..MaxAborts
  BY <1>2 DEF Tables, Commit
<1> QED
  BY <1>3, <1>4, <1>5, <1>6, <1>8, <1>9, <1>10, CommitRedemptions DEF Tables

(* The others have locked other wallets, so what they have read of their   *)
(* own customer stays true.                                                *)
LEMMA CommitStep ==
  ASSUME IInv, NEW d \in 1..MaxDeposits, Commit(d)
  PROVE  IInv'
<1> DEFINE u == Owner(d)
<1>1. /\ d \in DOMAIN deposits /\ WalletRow(u) \in tx[d].holds
      /\ hasDeposited' = [hasDeposited EXCEPT ![u] = TRUE]
  BY Committing
<1>2. tx \in [1..MaxDeposits -> TxRow] /\ tx' = [tx EXCEPT ![d] = NoTx]
  BY DEF IInv, Commit
<1>3. tx' \in [1..MaxDeposits -> TxRow]
  BY <1>2, IdleTx
<1>4. \A e \in 1..MaxDeposits : tx'[e] = IF e = d THEN NoTx ELSE tx[e]
  BY <1>2
<1>5. Exclusive'
  BY <1>4, IdleTx DEF IInv, Exclusive
<1>6. ASSUME NEW e \in 1..MaxDeposits
      PROVE  TxSound(e)'
  <2>1. CASE e = d
    BY <1>4, <2>1, IdleTx DEF TxSound
  <2>2. CASE e # d /\ tx[e].at = "idle"
    BY <1>4, <2>2 DEF TxSound
  <2>3. CASE e # d /\ tx[e].at # "idle"
    <3> DEFINE t == tx[e]
               w == Owner(e)
    <3>1. /\ e \in DOMAIN deposits /\ deposits[e].status = "PENDING"
          /\ Gathered(e, t, w, deposits[e].amount, hasDeposited, redemptions)
          /\ t \in TxRow
      BY <1>2, <2>3 DEF IInv, TxSound, Owner
    <3>2. w \in Users
      BY <3>1, DepositTypes
    <3>3. tx'[e] = t
      BY <1>4, <2>3
    <3>4. e \in DOMAIN deposits' /\ deposits'[e] = deposits[e]
      <4>1. deposits \in Seq(DepositRow)
        BY DEF IInv, Tables
      <4> QED
        BY <2>3, <3>1, <4>1 DEF Commit
    <3>5. t.at # "principal" => w # u
      <4>1. tx[d].holds \cap t.holds = {}
        BY <2>3, LocksKept
      <4> QED
        BY <1>1, <3>1, <4>1 DEF Gathered
    <3>7. t.coupon # NoCoupon => <<t.coupon, w>> \notin redemptions'
      <4>1. redemptions' \subseteq redemptions \cup
                                     {<<tx[d].coupon, u>>}
        BY DEF Commit
      <4> QED
        BY <3>1, <3>5, <4>1 DEF Gathered
    <3>8. t.at # "principal" => hasDeposited'[w] = hasDeposited[w]
      <4>1. hasDeposited \in [Users -> BOOLEAN]
        BY DEF IInv, Tables
      <4> QED
        BY <1>1, <3>2, <3>5, <4>1
    <3>9. t.at \in {"referrer", "commit"} =>
            Earned(e, t, deposits[e].amount, ~hasDeposited'[w], ReferredBy[w])
      BY <3>1, <3>8 DEF Gathered
    <3>10. Gathered(e, t, w, deposits[e].amount, hasDeposited', redemptions')
      BY <3>1, <3>7, <3>9 DEF Gathered
    <3>11. deposits'[e].user = w
      BY <3>4 DEF Owner
    <3>12. Gathered(e, tx'[e], deposits'[e].user, deposits'[e].amount,
                    hasDeposited', redemptions')
      BY <3>3, <3>4, <3>10, <3>11
    <3> QED
      BY <3>1, <3>4, <3>12 DEF TxSound
  <2> QED
    BY <2>1, <2>2, <2>3
<1> QED
  BY <1>3, <1>5, <1>6, CommitTables, CommitRedemptions DEF IInv
-----------------------------------------------------------------------------
(* Steps outside the transactions.                                         *)

(* A deposit may be added, or one that no transaction has opened changed.  *)
LEMMA DepositsStep ==
  ASSUME IInv, deposits' \in Seq(DepositRow), Len(deposits') <= MaxDeposits,
         \A d \in DOMAIN deposits : d \in DOMAIN deposits' /\
            (tx[d].at # "idle" => /\ deposits'[d].user = deposits[d].user
                                  /\ deposits'[d].amount = deposits[d].amount
                                  /\ deposits'[d].status = deposits[d].status),
         coupons' \in [Coupons -> [offer : Offers, exists : BOOLEAN,
                                   usedCount : Nat]],
         RedemptionsCounted',
         UNCHANGED <<settings, rewards, tx, aborts>>
  PROVE  IInv'
<1>1. Tables'
  BY DEF IInv, Tables, rewards
<1>2. Exclusive' /\ RefereesDeposited' /\ tx' \in [1..MaxDeposits -> TxRow]
  BY DEF IInv, Exclusive, RefereesDeposited, rewards
<1>3. ASSUME NEW d \in 1..MaxDeposits
      PROVE  TxSound(d)'
  <2>1. TxSound(d) /\ tx' = tx /\ hasDeposited' = hasDeposited
          /\ redemptions' = redemptions
    BY DEF IInv, rewards
  <2>2. CASE tx[d].at = "idle"
    BY <2>1, <2>2 DEF TxSound
  <2>3. CASE tx[d].at # "idle"
    <3>1. /\ d \in DOMAIN deposits /\ deposits[d].status = "PENDING"
          /\ Gathered(d, tx[d], deposits[d].user, deposits[d].amount,
                      hasDeposited, redemptions)
      BY <2>1, <2>3 DEF TxSound
    <3>2. /\ d \in DOMAIN deposits' /\ deposits'[d].user = deposits[d].user
          /\ deposits'[d].amount = deposits[d].amount
          /\ deposits'[d].status = "PENDING"
      BY <2>3, <3>1
    <3>3. Gathered(d, tx'[d], deposits'[d].user, deposits'[d].amount,
                   hasDeposited', redemptions')
      BY <2>1, <3>1, <3>2
    <3> QED
      BY <3>2, <3>3 DEF TxSound
  <2> QED
    BY <2>2, <2>3
<1> QED
  BY <1>1, <1>2, <1>3 DEF IInv

LEMMA DepositAdded ==
  ASSUME IInv, NEW u \in Users, NEW a \in Amounts,
         NEW c \in Coupons \cup {NoCoupon}, NEW paid \in BOOLEAN,
         CreateDeposit(u, a, c, paid)
  PROVE  IInv'
<1> DEFINE row == [user |-> u, amount |-> a, coupon |-> c, paid |-> paid,
                   status |-> "PENDING", bonus |-> 0]
<1>1. row \in DepositRow
  BY DEF DepositRow
<1>2. deposits \in Seq(DepositRow) /\ deposits' = Append(deposits, row)
  BY DEF IInv, Tables, CreateDeposit
<1> HIDE DEF row
<1>3. /\ deposits' \in Seq(DepositRow) /\ Len(deposits') <= MaxDeposits
      /\ \A d \in DOMAIN deposits : /\ d \in DOMAIN deposits'
                                    /\ deposits'[d] = deposits[d]
  BY <1>1, <1>2, BoundsAssumption DEF CreateDeposit
<1>4. RedemptionsCounted'
  BY DEF IInv, RedemptionsCounted, CreateDeposit, rewards
<1> QED
  BY <1>3, <1>4, DepositsStep DEF CreateDeposit, IInv, Tables

LEMMA RejectStep ==
  ASSUME IInv, NEW d \in 1..MaxDeposits, Reject(d)
  PROVE  IInv'
<1> DEFINE row == [deposits[d] EXCEPT !.status = "REJECTED"]
<1>1. deposits \in Seq(DepositRow) /\ d \in DOMAIN deposits
  BY DEF IInv, Tables, Reject, At
<1>2. deposits[d] \in DepositRow
  BY <1>1
<1>3. row \in DepositRow
  BY <1>2 DEF DepositRow
<1>4. deposits' = [deposits EXCEPT ![d] = row] /\ tx[d].at = "idle"
  BY DEF Reject, At
<1> HIDE DEF row
<1>5. /\ deposits' \in Seq(DepositRow) /\ Len(deposits') = Len(deposits)
      /\ \A e \in DOMAIN deposits : /\ e \in DOMAIN deposits'
                                    /\ e # d => deposits'[e] = deposits[e]
  BY <1>1, <1>3, <1>4
<1>6. RedemptionsCounted'
  BY DEF IInv, RedemptionsCounted, Reject, rewards
<1> QED
  BY <1>4, <1>5, <1>6, DepositsStep DEF Reject, IInv, Tables

LEMMA SaveCouponStep ==
  ASSUME IInv, NEW c \in Coupons, NEW o \in Offers, SaveCoupon(c, o)
  PROVE  IInv'
<1>1. coupons \in [Coupons -> [offer : Offers, exists : BOOLEAN,
                               usedCount : Nat]]
  BY DEF IInv, Tables
<1> DEFINE row == [coupons[c] EXCEPT !.offer = o, !.exists = TRUE]
<1>2. /\ row \in [offer : Offers, exists : BOOLEAN, usedCount : Nat]
      /\ row.usedCount = coupons[c].usedCount
  BY <1>1
<1>3. coupons' = [coupons EXCEPT ![c] = row]
  BY <1>1 DEF SaveCoupon
<1> HIDE DEF row
<1>4. /\ coupons' \in [Coupons -> [offer : Offers, exists : BOOLEAN,
                                   usedCount : Nat]]
      /\ \A k \in Coupons : coupons'[k].usedCount = coupons[k].usedCount
  BY <1>1, <1>2, <1>3
<1>5. RedemptionsCounted'
  BY <1>4 DEF IInv, RedemptionsCounted, SaveCoupon, rewards
<1>6. UNCHANGED <<settings, deposits, rewards, tx, aborts>>
  BY DEF SaveCoupon
<1>7. deposits' = deposits /\ deposits \in Seq(DepositRow)
        /\ Len(deposits) <= MaxDeposits
  BY <1>6 DEF IInv, Tables
<1> QED
  BY <1>4, <1>5, <1>6, <1>7, DepositsStep

LEMMA DeleteCouponStep ==
  ASSUME IInv, NEW c \in Coupons, DeleteCoupon(c)
  PROVE  IInv'
<1>1. /\ coupons \in [Coupons -> [offer : Offers, exists : BOOLEAN,
                                  usedCount : Nat]]
      /\ redemptions \subseteq Coupons \X Users /\ redemptions' = redemptions
      /\ coupons' = [coupons EXCEPT ![c] = NoOffer]
  BY DEF IInv, Tables, DeleteCoupon, rewards
<1>2. /\ NoOffer \in [offer : Offers, exists : BOOLEAN, usedCount : Nat]
      /\ NoOffer.usedCount = 0
  BY OffersAssumption DEF NoOffer
<1>3. coupons' \in [Coupons -> [offer : Offers, exists : BOOLEAN,
                                usedCount : Nat]]
  BY <1>1, <1>2
<1>4. RedemptionsCounted'
  <2>1. ASSUME NEW k \in Coupons
        PROVE  coupons'[k].usedCount = Cardinality({r \in redemptions : r[1] = k})
    <3>1. CASE k = c
      <4>1. {r \in redemptions : r[1] = k} = {}
        BY <1>1, <3>1 DEF DeleteCoupon
      <4> QED
        BY <1>1, <1>2, <3>1, <4>1, FS_EmptySet
    <3>2. CASE k # c
      BY <1>1, <3>2 DEF IInv, RedemptionsCounted
    <3> QED
      BY <3>1, <3>2
  <2> QED
    BY <1>1, <2>1 DEF RedemptionsCounted
<1> DEFINE Cleared(d) ==
             [deposits[d] EXCEPT !.coupon = IF @ = c THEN NoCoupon ELSE @]
<1>5. deposits \in Seq(DepositRow) /\ Len(deposits) <= MaxDeposits
        /\ deposits' = [d \in DOMAIN deposits |-> Cleared(d)]
  BY DEF IInv, Tables, DeleteCoupon
<1>6. \A d \in DOMAIN deposits : /\ Cleared(d) \in DepositRow
                                 /\ Cleared(d).user = deposits[d].user
                                 /\ Cleared(d).amount = deposits[d].amount
                                 /\ Cleared(d).status = deposits[d].status
  <2>1. ASSUME NEW d \in DOMAIN deposits
        PROVE  /\ Cleared(d) \in DepositRow
               /\ Cleared(d).user = deposits[d].user
               /\ Cleared(d).amount = deposits[d].amount
               /\ Cleared(d).status = deposits[d].status
    <3>1. deposits[d] \in DepositRow
      BY <1>5
    <3> QED
      BY <3>1 DEF DepositRow
  <2> QED
    BY <2>1
<1> HIDE DEF Cleared
<1>7. /\ deposits' \in Seq(DepositRow) /\ Len(deposits') = Len(deposits)
      /\ DOMAIN deposits' = DOMAIN deposits
      /\ \A d \in DOMAIN deposits : deposits'[d] = Cleared(d)
  BY <1>5, <1>6
<1> QED
  BY <1>3, <1>4, <1>5, <1>6, <1>7, DepositsStep DEF DeleteCoupon

LEMMA SaveSettingsStep ==
  ASSUME IInv, SaveSettings
  PROVE  IInv'
<1>1. Tables'
  BY DEF IInv, Tables, SaveSettings, rewards
<1>2. Exclusive' /\ RefereesDeposited' /\ RedemptionsCounted'
  BY DEF IInv, Exclusive, RefereesDeposited, RedemptionsCounted, SaveSettings,
         rewards
<1>3. \A d \in 1..MaxDeposits : TxSound(d)'
  BY DEF IInv, TxSound, SaveSettings, rewards
<1> QED
  BY <1>1, <1>2, <1>3 DEF IInv, SaveSettings

LEMMA DeadlockStep ==
  ASSUME IInv, NEW d \in 1..MaxDeposits, DeadlockAbort(d)
  PROVE  IInv'
<1>1. [NoTx EXCEPT !.at = "idle"] = NoTx
  BY IdleTx DEF TxRow
<1>2. tx' = [tx EXCEPT ![d] = NoTx]
  BY <1>1 DEF DeadlockAbort, Work
<1>3. UNCHANGED <<settings, coupons, deposits, rewards, aborts>>
  BY DEF DeadlockAbort, Work
<1> QED
  BY <1>2, <1>3, EndStep, AbortsType

LEMMA InterruptedStep ==
  ASSUME IInv, NEW d \in 1..MaxDeposits, Interrupted(d)
  PROVE  IInv'
<1>1. aborts' \in 0..MaxAborts
  BY AbortsType, BoundsAssumption DEF Interrupted
<1> QED
  BY <1>1, EndStep DEF Interrupted

-----------------------------------------------------------------------------

LEMMA InitInv == Init => IInv
<1> SUFFICES ASSUME Init PROVE IInv
  OBVIOUS
<1>1. Tables
  <2>1. NoOffer \in [offer : Offers, exists : BOOLEAN, usedCount : Nat]
    BY OffersAssumption DEF NoOffer
  <2>2. <<>> \in Seq(RewardLine) /\ <<>> \in Seq(DepositRow) /\ Len(<<>>) = 0
    OBVIOUS
  <2> QED
    BY <2>1, <2>2, FS_EmptySet, BoundsAssumption DEF Init, Tables
<1>2. tx \in [1..MaxDeposits -> TxRow] /\ \A d \in 1..MaxDeposits : tx[d] = NoTx
  BY IdleTx DEF Init
<1>3. Exclusive /\ RefereesDeposited /\ \A d \in 1..MaxDeposits : TxSound(d)
  BY <1>2, IdleTx DEF Init, Exclusive, RefereesDeposited, TxSound
<1>4. RedemptionsCounted
  <2>1. ASSUME NEW c \in Coupons
        PROVE  coupons[c].usedCount = Cardinality({r \in redemptions : r[1] = c})
    <3>1. {r \in redemptions : r[1] = c} = {}
      BY DEF Init
    <3>2. coupons[c].usedCount = 0
      BY DEF Init, NoOffer
    <3> QED
      BY <3>1, <3>2, FS_EmptySet
  <2> QED
    BY <2>1 DEF RedemptionsCounted
<1> QED
  BY <1>1, <1>2, <1>3, <1>4 DEF IInv

LEMMA StepInv == IInv /\ [Next]_vars => IInv'
<1> SUFFICES ASSUME IInv, [Next]_vars PROVE IInv'
  OBVIOUS
<1>1. CASE \E u \in Users, a \in Amounts, c \in Coupons \cup {NoCoupon},
              paid \in BOOLEAN : CreateDeposit(u, a, c, paid)
  BY <1>1, DepositAdded
<1>2. CASE \E c \in Coupons : DeleteCoupon(c) \/ \E o \in Offers : SaveCoupon(c, o)
  BY <1>2, DeleteCouponStep, SaveCouponStep
<1>3. CASE SaveSettings
  BY <1>3, SaveSettingsStep
<1>4. ASSUME NEW d \in 1..MaxDeposits,
             \/ Open(d) \/ Principal(d) \/ Redeem(d) \/ PayReferrer(d)
             \/ Proceed(d) \/ Reject(d) \/ DeadlockAbort(d) \/ Interrupted(d)
      PROVE  IInv'
  BY <1>4, OpenStep, PrincipalStep, RedeemStep, PayReferrerStep,
     CheckCouponStep, FirstStep, NotFirstStep, CommitStep, RejectStep,
     DeadlockStep, InterruptedStep DEF Proceed
<1>5. CASE UNCHANGED vars
  <2>1. Tables' /\ RedemptionsCounted' /\ RefereesDeposited' /\ Exclusive'
    BY <1>5 DEF IInv, Tables, RedemptionsCounted, RefereesDeposited,
                Exclusive, vars, rewards
  <2>2. \A d \in 1..MaxDeposits : TxSound(d)'
    BY <1>5 DEF IInv, TxSound, vars, rewards
  <2> QED
    BY <1>5, <2>1, <2>2 DEF IInv, vars
<1> QED
  BY <1>1, <1>2, <1>3, <1>4, <1>5 DEF Next

(* The inductive invariant. *)
THEOREM Invariance == Spec => []IInv
BY InitInv, StepInv, PTL DEF Spec

(* The state keeps its shape: every deposit is within the bounds of the    *)
(* form, every line of a wallet is a positive sum of a known kind.         *)
THEOREM TypeCorrect == Spec => []TypeOK
<1>1. IInv => TypeOK
  <2> SUFFICES ASSUME IInv PROVE TypeOK
    OBVIOUS
  <2>1. ASSUME NEW d \in 1..MaxDeposits
        PROVE  /\ tx[d].at \in Points /\ tx[d].rows \in Seq(RewardLine)
               /\ {tx[d].bonus, tx[d].couponBonus, tx[d].reward} \subseteq Nat
    <3>1. tx[d] \in TxRow
      BY DEF IInv
    <3> QED
      BY <3>1 DEF TxRow
  <2> QED
    BY <2>1 DEF IInv, Tables, TypeOK, DepositRow
<1> QED
  BY <1>1, Invariance, PTL

(* A coupon's usedCount counts its redemptions, although two approvals may *)
(* read the same count: a customer's wallet row is held from before the    *)
(* coupon is looked up until the commit, so no pair is inserted twice.     *)
THEOREM CountsAgree == Spec => []RedemptionsCounted
<1>1. IInv => RedemptionsCounted
  BY DEF IInv
<1> QED
  BY <1>1, Invariance, PTL
-----------------------------------------------------------------------------
(* Concurrent approvals implement AtomicRewards.                           *)

(* What AtomicRewards sees of the deposits. *)
Seen(D) == [d \in DOMAIN D |->
              [user |-> D[d].user, amount |-> D[d].amount,
               status |-> D[d].status, bonus |-> D[d].bonus]]

LEMMA SeenStutters ==
  ASSUME Seen(deposits') = Seen(deposits), UNCHANGED rewards
  PROVE  UNCHANGED Atomic!vars
BY DEF Seen, rewards, Atomic!vars

(* AtomicRewards pays by the same rules. *)
LEMMA SameRules ==
  ASSUME NEW d, NEW kind, NEW a, NEW p, NEW s, NEW o
  PROVE  /\ Atomic!Percent(a, p) = Percent(a, p)
         /\ Atomic!Line(d, kind, a) = Line(d, kind, a)
         /\ Atomic!CouponBonus(o, a) = CouponBonus(o, a)
         /\ Atomic!FirstBonus(s, a) = FirstBonus(s, a)
         /\ Atomic!RefereeBonus(s, a) = RefereeBonus(s, a)
         /\ Atomic!ReferrerReward(s, a) = ReferrerReward(s, a)
BY DEF Percent, Line, CouponBonus, FirstBonus, RefereeBonus, ReferrerReward,
       Atomic!Percent, Atomic!Line, Atomic!CouponBonus, Atomic!FirstBonus,
       Atomic!RefereeBonus, Atomic!ReferrerReward

LEMMA RowsAreSeq ==
  ASSUME NEW S, NEW n \in Nat, NEW f \in [1..n -> S]
  PROVE  f \in Seq(S) /\ Len(f) = n
BY SMTT(30)

LEMMA SubmitImplemented ==
  ASSUME IInv, NEW u \in Users, NEW a \in Amounts,
         NEW c \in Coupons \cup {NoCoupon}, NEW paid \in BOOLEAN,
         CreateDeposit(u, a, c, paid)
  PROVE  Atomic!Submit
<1> DEFINE row == [user |-> u, amount |-> a, coupon |-> c, paid |-> paid,
                   status |-> "PENDING", bonus |-> 0]
           seen == [user |-> u, amount |-> a, status |-> "PENDING",
                    bonus |-> 0]
           Row == [user : Users, amount : Amounts,
                   status : {"PENDING", "APPROVED", "REJECTED"}, bonus : Nat]
<1>1. deposits \in Seq(DepositRow) /\ deposits' = Append(deposits, row)
  BY DEF IInv, Tables, CreateDeposit
<1>2. row \in DepositRow /\ seen \in Row
  BY DEF DepositRow
<1>3. Seen(deposits) \in Seq(Row) /\ Len(Seen(deposits)) = Len(deposits)
  <2>1. \A d \in DOMAIN deposits : deposits[d] \in DepositRow
    BY <1>1
  <2>2. \A d \in DOMAIN deposits : Seen(deposits)[d] \in Row
    BY <2>1 DEF Seen, DepositRow
  <2>3. DOMAIN Seen(deposits) = DOMAIN deposits
    BY DEF Seen
  <2>4. Seen(deposits) = [d \in 1..Len(deposits) |-> Seen(deposits)[d]]
    BY <1>1, <2>3 DEF Seen
  <2>5. Len(deposits) \in Nat /\ DOMAIN deposits = 1..Len(deposits)
    BY <1>1
  <2> HIDE DEF Row
  <2>6. Seen(deposits) \in [1..Len(deposits) -> Row]
    BY <2>2, <2>4, <2>5
  <2> QED
    BY <2>5, <2>6, RowsAreSeq
<1>4. Seen(deposits') = Append(Seen(deposits), seen)
  <2> DEFINE n == Len(deposits) + 1
  <2>1. /\ Len(deposits) \in Nat /\ DOMAIN deposits = 1..Len(deposits)
        /\ deposits' = [d \in 1..n |-> IF d = n THEN row ELSE deposits[d]]
    BY <1>1, <1>2
  <2>2. Append(Seen(deposits), seen)
          = [d \in 1..n |-> IF d = n THEN seen ELSE Seen(deposits)[d]]
    BY <1>2, <1>3, <2>1
  <2>3. Seen(deposits')
          = [d \in 1..n |-> IF d = n THEN seen ELSE Seen(deposits)[d]]
    BY <2>1 DEF Seen
  <2> QED
    BY <2>2, <2>3
<1>5. UNCHANGED rewards
  BY DEF CreateDeposit
<1> QED
  BY <1>4, <1>5 DEF Seen, Atomic!Submit, rewards

LEMMA RejectImplemented ==
  ASSUME IInv, NEW d \in 1..MaxDeposits, Reject(d)
  PROVE  d \in DOMAIN Seen(deposits) /\ Atomic!Reject(d)
<1>1. /\ d \in DOMAIN deposits /\ deposits[d].status = "PENDING"
      /\ deposits' = [deposits EXCEPT ![d].status = "REJECTED"]
      /\ UNCHANGED rewards /\ deposits \in Seq(DepositRow)
  BY DEF Reject, At, IInv, Tables
<1>2. deposits[d] \in DepositRow
  BY <1>1
<1>3. Seen(deposits') = [Seen(deposits) EXCEPT ![d].status = "REJECTED"]
  BY <1>1, <1>2 DEF Seen, DepositRow
<1>4. d \in DOMAIN Seen(deposits) /\ Seen(deposits)[d].status = "PENDING"
  BY <1>1 DEF Seen
<1> QED
  BY <1>1, <1>3, <1>4 DEF Seen, Atomic!Reject, rewards

LEMMA DeleteUnseen ==
  ASSUME IInv, NEW c \in Coupons, DeleteCoupon(c)
  PROVE  UNCHANGED Atomic!vars
<1>1. /\ deposits' = [d \in DOMAIN deposits |->
           [deposits[d] EXCEPT !.coupon = IF @ = c THEN NoCoupon ELSE @]]
      /\ UNCHANGED rewards /\ deposits \in Seq(DepositRow)
  BY DEF DeleteCoupon, IInv, Tables
<1>2. \A d \in DOMAIN deposits : deposits[d] \in DepositRow
  BY <1>1
<1>3. Seen(deposits') = Seen(deposits)
  BY <1>1, <1>2 DEF Seen, DepositRow
<1> QED
  BY <1>1, <1>3, SeenStutters

(* A commit is the indivisible approval, under the percentage, the offer   *)
(* and the settings that the transaction read on its way.                  *)
LEMMA ApproveImplemented ==
  ASSUME IInv, NEW d \in 1..MaxDeposits, Commit(d)
  PROVE  /\ d \in DOMAIN Seen(deposits)
         /\ \E s \in Settings, percent \in MethodPercents,
               c \in Coupons \cup {NoCoupon}, o \in Offers :
              Atomic!Approve(d, s, percent, c, o)
<1> DEFINE t == tx[d]
           u == Owner(d)
           amount == deposits[d].amount
           c == tx[d].coupon
           first == ~hasDeposited[u]
           referrer == Referrer(d)
<1>1. /\ d \in DOMAIN deposits /\ deposits[d].status = "PENDING"
      /\ t \in TxRow /\ c \in Coupons \cup {NoCoupon}
      /\ c # NoCoupon => <<c, u>> \notin redemptions
      /\ Earned(d, t, amount, first, referrer)
      /\ hasDeposited' = [hasDeposited EXCEPT ![u] = TRUE]
  BY Committing DEF TxRow
<1>2. /\ u \in Users /\ amount \in Nat /\ d \in Nat
      /\ deposits[d].user = u /\ referrer = ReferredBy[u]
  BY <1>1, DepositTypes DEF Referrer
<1> DEFINE Referred(s) == first /\ s.referralEnabled /\ referrer # NoUser
           Start(s) == IF first THEN FirstBonus(s, amount) ELSE 0
           Referee(s) == IF Referred(s) THEN RefereeBonus(s, amount) ELSE 0
           Reward(s) == IF Referred(s) THEN ReferrerReward(s, amount) ELSE 0
           Given(o) == CouponGives(amount, c, o)
<1>3. PICK percent \in MethodPercents, o \in Offers, s \in Settings :
        /\ t.referred = Referred(s) /\ t.reward = Reward(s)
        /\ t.rows = CouponRows(d, amount, percent, c, o)
                      \o Line(d, "first", Start(s))
                      \o Line(d, "referee", Referee(s))
        /\ t.bonus = Percent(amount, percent) + Given(o) + Start(s)
                       + Referee(s)
        /\ c # NoCoupon => Given(o) > 0
  BY <1>1 DEF Earned
<1>4. t.rows = Line(d, "deposit", amount)
                 \o Line(d, "method", Percent(amount, percent))
                 \o Line(d, "coupon", Given(o)) \o Line(d, "first", Start(s))
                 \o Line(d, "referee", Referee(s))
  BY <1>3 DEF CouponRows, MethodRows
<1>5. deposits' = [deposits EXCEPT ![d].status = "APPROVED",
                                   ![d].bonus = t.bonus]
  BY DEF Commit
<1>6. Seen(deposits') = [Seen(deposits) EXCEPT ![d].status = "APPROVED",
                                               ![d].bonus = t.bonus]
  <2>1. deposits[d] \in DepositRow /\ deposits \in Seq(DepositRow)
    BY <1>1 DEF IInv, Tables
  <2> QED
    BY <1>1, <1>5, <2>1 DEF Seen, DepositRow
<1>7. redemptions' = redemptions \cup (IF Given(o) > 0 THEN {<<c, u>>} ELSE {})
  <2>1. redemptions' = redemptions \cup
                         (IF c = NoCoupon THEN {} ELSE {<<c, u>>})
    BY DEF Commit
  <2>2. c = NoCoupon => ~(Given(o) > 0)
    BY SMTT(30) DEF CouponGives
  <2> QED
    BY <1>3, <2>1, <2>2
<1>8. ledger' = [w \in Users |-> ledger[w]
              \o (IF w # u THEN <<>> ELSE t.rows)
              \o (IF w # referrer THEN <<>>
                                  ELSE Line(d, "referral", Reward(s)))]
  BY <1>3 DEF Commit
<1>9. earnings' = [w \in Users |->
                     earnings[w] + IF w = referrer THEN Reward(s) ELSE 0]
  BY <1>3 DEF Commit, Earn
<1>10. referralLog' = referralLog \cup
         (IF Referred(s) THEN {[referee |-> u, reward |-> Reward(s)]} ELSE {})
  BY <1>3 DEF Commit
<1>11. /\ d \in DOMAIN Seen(deposits) /\ Seen(deposits)[d].user = u
       /\ Seen(deposits)[d].amount = amount
       /\ Seen(deposits)[d].status = "PENDING"
  BY <1>1, <1>2 DEF Seen
<1> DEFINE seen == Seen(deposits)[d]
           firstA == ~hasDeposited[seen.user]
           referredA == /\ firstA /\ s.referralEnabled
                        /\ ReferredBy[seen.user] # NoUser
           methodA == Atomic!Percent(seen.amount, percent)
           couponA == IF c = NoCoupon THEN 0
                      ELSE Atomic!CouponBonus(o, seen.amount)
           startA == IF firstA THEN Atomic!FirstBonus(s, seen.amount) ELSE 0
           refereeA == IF referredA THEN Atomic!RefereeBonus(s, seen.amount)
                                    ELSE 0
           rewardA == IF referredA THEN Atomic!ReferrerReward(s, seen.amount)
                                   ELSE 0
<1>12. /\ seen.user = u /\ seen.amount = amount /\ seen.status = "PENDING"
       /\ ReferredBy[seen.user] = referrer
  BY <1>2, <1>11
<1>13. methodA = Percent(amount, percent) /\ couponA = Given(o)
  BY <1>12, SameRules DEF CouponGives
<1>14. /\ referredA = Referred(s) /\ startA = Start(s)
       /\ refereeA = Referee(s) /\ rewardA = Reward(s)
  BY <1>12, SameRules
<1>15. \A kind, a : Atomic!Line(d, kind, a) = Line(d, kind, a)
  BY SameRules
<1> HIDE DEF seen, methodA, couponA, startA, refereeA, rewardA, referredA,
             Start, Referee, Reward, Referred, Given
<1>16. Seen(deposits') = [Seen(deposits) EXCEPT ![d].status = "APPROVED",
                    ![d].bonus = methodA + couponA + startA + refereeA]
  BY <1>3, <1>6, <1>13, <1>14
<1>17. ledger' = [w \in Users |-> ledger[w]
              \o (IF w # seen.user THEN <<>>
                  ELSE Atomic!Line(d, "deposit", seen.amount)
                       \o Atomic!Line(d, "method", methodA)
                       \o Atomic!Line(d, "coupon", couponA)
                       \o Atomic!Line(d, "first", startA)
                       \o Atomic!Line(d, "referee", refereeA))
              \o (IF w # ReferredBy[seen.user] THEN <<>>
                  ELSE Atomic!Line(d, "referral", rewardA))]
  BY <1>4, <1>8, <1>12, <1>13, <1>14, <1>15, ZenonT(40)
<1>18. /\ c # NoCoupon => <<c, seen.user>> \notin redemptions
       /\ hasDeposited' = [hasDeposited EXCEPT ![seen.user] = TRUE]
       /\ redemptions' = redemptions \cup
            (IF couponA > 0 THEN {<<c, seen.user>>} ELSE {})
  BY <1>1, <1>7, <1>12, <1>13
<1>19. /\ earnings' = [w \in Users |->
            earnings[w] + IF w = ReferredBy[seen.user] THEN rewardA ELSE 0]
       /\ referralLog' = referralLog \cup
            (IF referredA THEN {[referee |-> seen.user, reward |-> rewardA]}
                          ELSE {})
  BY <1>9, <1>10, <1>12, <1>14
<1>20. Atomic!Approve(d, s, percent, c, o)
  BY <1>12, <1>16, <1>17, <1>18, <1>19
     DEF Seen, Atomic!Approve, Atomic!Redeemed, seen, methodA, couponA,
         startA, refereeA, rewardA, referredA
<1> QED
  BY <1>1, <1>11, <1>20

(* However approvals, rejections, coupon forms and crashes interleave, the *)
(* customers' wallets, the redemptions and the referral log change as if   *)
(* each approval were one step that sees all the earlier ones: only the    *)
(* first deposit earns the first-deposit and referral rewards, a coupon    *)
(* is redeemed once by a customer, and a referrer is paid once.            *)
THEOREM Implements == Spec => ImplementsAtomicRewards
<1>1. Init => Atomic!Init
  BY DEF Init, Atomic!Init
<1>2. IInv /\ [Next]_vars => [Atomic!Next]_(Atomic!vars)
  <2> SUFFICES ASSUME IInv, [Next]_vars
               PROVE  Atomic!Next \/ UNCHANGED Atomic!vars
    OBVIOUS
  <2>1. CASE \E u \in Users, a \in Amounts, c \in Coupons \cup {NoCoupon},
                paid \in BOOLEAN : CreateDeposit(u, a, c, paid)
    BY <2>1, SubmitImplemented DEF Atomic!Next
  <2>2. ASSUME NEW c \in Coupons,
               DeleteCoupon(c) \/ \E o \in Offers : SaveCoupon(c, o)
        PROVE  UNCHANGED Atomic!vars
    BY <2>2, DeleteUnseen, SeenStutters DEF SaveCoupon
  <2>3. ASSUME NEW d \in 1..MaxDeposits, Commit(d) \/ Reject(d)
        PROVE  Atomic!Next
    BY <2>3, ApproveImplemented, RejectImplemented DEF Atomic!Next, Seen
  <2>4. ASSUME UNCHANGED <<deposits, rewards>>
        PROVE  UNCHANGED Atomic!vars
    BY <2>4, SeenStutters
  <2>5. CASE SaveSettings \/ UNCHANGED vars
    BY <2>4, <2>5 DEF SaveSettings, vars
  <2>6. ASSUME NEW d \in 1..MaxDeposits,
               \/ Open(d) \/ Principal(d) \/ Redeem(d) \/ PayReferrer(d)
               \/ CheckCoupon(d) \/ First(d) \/ NotFirst(d)
               \/ DeadlockAbort(d) \/ Interrupted(d)
        PROVE  UNCHANGED Atomic!vars
    BY <2>4, <2>6 DEF Open, Principal, Redeem, PayReferrer, CheckCoupon,
       First, NotFirst, DeadlockAbort, Interrupted, Work
  <2> QED
    BY <2>1, <2>2, <2>3, <2>5, <2>6 DEF Next, Proceed
<1> QED
  BY <1>1, <1>2, Invariance, PTL DEF Spec, ImplementsAtomicRewards, Atomic!Spec
-----------------------------------------------------------------------------
(* What the rows of a wallet, and those of the referral log, come to.  The *)
(* prover knows nothing of a sum: so it is shown first that there is one,  *)
(* by going from each number or set to the next, and then how it changes.  *)

(* A set of numbers that has 0, and with each the next, has them all.      *)
LEMMA EveryNatural ==
  ASSUME NEW S, S \subseteq Nat, 0 \in S, \A n \in S : n + 1 \in S
  PROVE  S = Nat
<1> DEFINE T == Nat \ S
           R == OpToRel(<, Nat)
<1>1. IsWellFoundedOn(R, Nat)
  BY NatLessThanWellFounded, Zenon
<1>2. ASSUME T # {} PROVE FALSE
  <2>1. T \subseteq Nat
    OBVIOUS
  <2> HIDE DEF T, R
  <2>2. PICK x \in T : \A y \in T : ~ (<<y, x>> \in R)
    BY <1>1, <1>2, <2>1, WFMin
  <2>3. x \in Nat /\ x # 0 /\ x \notin S
    BY DEF T
  <2>4. x - 1 \in Nat /\ x - 1 < x /\ (x - 1) + 1 = x
    BY <2>3
  <2>5. x - 1 \in T
    BY <2>3, <2>4 DEF T
  <2>6. <<x - 1, x>> \in R
    BY <2>3, <2>4 DEF R, OpToRel
  <2> QED
    BY <2>2, <2>5, <2>6
<1> QED
  BY <1>2

LEMMA EveryPlace ==
  ASSUME NEW L \in Nat, NEW S, 0 \in S,
         \A n \in 0..L : n \in S /\ n < L => n + 1 \in S
  PROVE  0..L \subseteq S
<1> DEFINE T == {n \in Nat : n <= L => n \in S}
<1>1. T \subseteq Nat /\ 0 \in T
  OBVIOUS
<1>2. ASSUME NEW n \in T PROVE n + 1 \in T
  OBVIOUS
<1>3. T = Nat
  <2> HIDE DEF T
  <2> QED
    BY <1>1, <1>2, EveryNatural
<1> QED
  BY <1>3

(* What row n adds, if it is one of A, and how the sum of the first n rows *)
(* is reached from that of one less, in g.                                 *)
Gain(s, A, n) == IF s[n] \in A THEN s[n].amount ELSE 0
Sum1(s, A, g, n) == IF n = 0 THEN 0 ELSE g[n - 1] + Gain(s, A, n)
Adds(s, A, g) == \A n \in 0..Len(s) : g[n] = Sum1(s, A, g, n)
Worth(s, A) == CHOOSE v : \E g : Adds(s, A, g) /\ v = g[Len(s)]

LEMMA GainType ==
  ASSUME NEW s \in Seq(RewardLine), NEW A, NEW n \in 1..Len(s)
  PROVE  Gain(s, A, n) \in Nat
<1>1. s[n] \in RewardLine
  BY ElementOfSeq
<1>2. s[n].amount \in Nat
  BY <1>1 DEF RewardLine
<1> QED
  BY <1>2 DEF Gain

(* There is such a function. *)
LEMMA AddsExist ==
  ASSUME NEW s \in Seq(RewardLine), NEW A
  PROVE  \E g \in [0..Len(s) -> Nat] : Adds(s, A, g)
<1> DEFINE L == Len(s)
           Upto(g, n) == \A m \in 0..n : g[m] = Sum1(s, A, g, m)
           Good(n) == \E g \in [0..L -> Nat] : Upto(g, n)
           S == {n \in 0..L : Good(n)}
<1>1. L \in Nat
  BY LenProperties
<1>2. 0 \in S
  <2> DEFINE g == [n \in 0..L |-> 0]
  <2>1. g \in [0..L -> Nat] /\ Upto(g, 0)
    BY <1>1 DEF Sum1
  <2> QED
    BY <1>1, <2>1
<1>3. ASSUME NEW n \in 0..L, n \in S, n < L
      PROVE  n + 1 \in S
  <2>1. PICK g \in [0..L -> Nat] : Upto(g, n)
    BY <1>3
  <2> DEFINE h == [g EXCEPT ![n + 1] = g[n] + Gain(s, A, n + 1)]
  <2>2. n + 1 \in 1..L /\ g[n] \in Nat /\ n \in Nat
    BY <1>1, <1>3
  <2>3. Gain(s, A, n + 1) \in Nat
    BY <2>2, GainType
  <2>4. h \in [0..L -> Nat]
    BY <2>2, <2>3
  <2>5. h[n + 1] = g[n] + Gain(s, A, n + 1)
    BY <2>2
  <2>6. \A m \in 0..n : h[m] = g[m]
    BY <1>1, <1>3, <2>2
  <2> HIDE DEF h
  <2>7. ASSUME NEW m \in 0..(n + 1)
        PROVE  h[m] = Sum1(s, A, h, m)
    <3>1. CASE m = n + 1
      <4>1. m - 1 = n /\ m # 0 /\ n \in 0..n
        BY <2>2, <3>1
      <4> QED
        BY <2>5, <2>6, <3>1, <4>1 DEF Sum1
    <3>2. CASE m # n + 1
      <4>1. m \in 0..n /\ (m # 0 => m - 1 \in 0..n)
        BY <2>2, <3>2
      <4> QED
        BY <2>1, <2>6, <4>1 DEF Sum1
    <3> QED
      BY <3>1, <3>2
  <2> QED
    BY <2>2, <2>4, <2>7
<1>4. 0..L \subseteq S
  <2> HIDE DEF S, L
  <2> QED
    BY <1>1, <1>2, <1>3, EveryPlace
<1>5. L \in S
  BY <1>1, <1>4
<1> QED
  BY <1>5 DEF Adds

(* And only one. *)
LEMMA AddsSame ==
  ASSUME NEW s \in Seq(RewardLine), NEW A, NEW g, NEW h,
         Adds(s, A, g), Adds(s, A, h)
  PROVE  \A n \in 0..Len(s) : g[n] = h[n] /\ g[n] \in Nat
<1> DEFINE S == {n \in 0..Len(s) : g[n] = h[n] /\ g[n] \in Nat}
<1>1. Len(s) \in Nat
  BY LenProperties
<1>2. 0 \in S
  BY <1>1 DEF Adds, Sum1
<1>3. ASSUME NEW n \in 0..Len(s), n \in S, n < Len(s)
      PROVE  n + 1 \in S
  <2>1. /\ n + 1 \in 1..Len(s) /\ n + 1 \in 0..Len(s) /\ n + 1 # 0
        /\ (n + 1) - 1 = n
    BY <1>1, <1>3
  <2>2. Gain(s, A, n + 1) \in Nat
    BY <2>1, GainType
  <2>3. /\ g[n + 1] = g[n] + Gain(s, A, n + 1)
        /\ h[n + 1] = h[n] + Gain(s, A, n + 1)
    BY <2>1 DEF Adds, Sum1
  <2> QED
    BY <1>3, <2>1, <2>2, <2>3
<1>4. 0..Len(s) \subseteq S
  <2> HIDE DEF S
  <2> QED
    BY <1>1, <1>2, <1>3, EveryPlace
<1> QED
  BY <1>4

LEMMA WorthIs ==
  ASSUME NEW s \in Seq(RewardLine), NEW A, NEW g, Adds(s, A, g)
  PROVE  Worth(s, A) = g[Len(s)] /\ Worth(s, A) \in Nat
<1> DEFINE v == CHOOSE v : \E h : Adds(s, A, h) /\ v = h[Len(s)]
<1>1. \E w : \E h : Adds(s, A, h) /\ w = h[Len(s)]
  OBVIOUS
<1>2. \E h : Adds(s, A, h) /\ v = h[Len(s)]
  BY <1>1
<1>3. Worth(s, A) = v
  BY DEF Worth
<1> HIDE DEF v
<1>4. PICK h : Adds(s, A, h) /\ v = h[Len(s)]
  BY <1>2
<1>5. Len(s) \in 0..Len(s)
  BY LenProperties
<1> QED
  BY <1>3, <1>4, <1>5, AddsSame

LEMMA WorthType ==
  ASSUME NEW s \in Seq(RewardLine), NEW A
  PROVE  Worth(s, A) \in Nat
BY AddsExist, WorthIs

(* The sum of one row after another. *)
LEMMA WorthConcat ==
  ASSUME NEW s \in Seq(RewardLine), NEW t \in Seq(RewardLine), NEW A
  PROVE  Worth(s \o t, A) = Worth(s, A) + Worth(t, A)
<1> DEFINE r == s \o t
<1>1. /\ r \in Seq(RewardLine) /\ Len(r) = Len(s) + Len(t)
      /\ Len(s) \in Nat /\ Len(t) \in Nat
      /\ \A n \in 1..Len(s) : r[n] = s[n]
      /\ \A n \in 1..Len(t) : r[Len(s) + n] = t[n]
  OBVIOUS
<1>2. PICK g \in [0..Len(s) -> Nat] : Adds(s, A, g)
  BY AddsExist
<1>3. PICK h \in [0..Len(t) -> Nat] : Adds(t, A, h)
  BY AddsExist
<1> HIDE DEF r
<1>4. PICK f \in [0..Len(r) -> Nat] : Adds(r, A, f)
  BY <1>1, AddsExist
<1>0. /\ Len(s) \in Nat /\ Len(t) \in Nat /\ Len(r) = Len(s) + Len(t)
      /\ Len(s) \in 0..Len(s) /\ Len(t) \in 0..Len(t)
  BY <1>1
<1> DEFINE S == {n \in 0..Len(s) : f[n] = g[n]}
           T == {n \in 0..Len(t) : f[Len(s) + n] = g[Len(s)] + h[n]}
<1>5. 0..Len(s) \subseteq S
  <2>1. 0 \in S
    BY <1>1, <1>2, <1>4 DEF Adds, Sum1
  <2>2. ASSUME NEW n \in 0..Len(s), n \in S, n < Len(s)
        PROVE  n + 1 \in S
    <3>1. /\ n + 1 \in 1..Len(s) /\ n + 1 \in 0..Len(s) /\ n + 1 # 0
          /\ (n + 1) - 1 = n /\ n + 1 \in 0..Len(r)
      BY <1>0, <2>2
    <3>2. /\ g[n + 1] = g[n] + Gain(s, A, n + 1)
          /\ f[n + 1] = f[n] + Gain(r, A, n + 1)
      BY <1>2, <1>4, <3>1 DEF Adds, Sum1
    <3>3. Gain(r, A, n + 1) = Gain(s, A, n + 1)
      BY <1>1, <3>1 DEF Gain
    <3> QED
      BY <2>2, <3>1, <3>2, <3>3
  <2> HIDE DEF S
  <2> QED
    BY <1>1, <2>1, <2>2, EveryPlace
<1>6. f[Len(s)] = g[Len(s)] /\ g[Len(s)] \in Nat
  BY <1>0, <1>2, <1>5
<1>7. 0..Len(t) \subseteq T
  <2>1. 0 \in T
    <3>1. h[0] = 0
      BY <1>1, <1>3 DEF Adds, Sum1
    <3> QED
      BY <1>1, <1>6, <3>1
  <2>2. ASSUME NEW n \in 0..Len(t), n \in T, n < Len(t)
        PROVE  n + 1 \in T
    <3> DEFINE m == Len(s) + n
    <3>1. /\ n + 1 \in 1..Len(t) /\ n + 1 \in 0..Len(t) /\ n + 1 # 0
          /\ (n + 1) - 1 = n /\ m + 1 \in 0..Len(r) /\ m + 1 # 0
          /\ (m + 1) - 1 = m /\ Len(s) + (n + 1) = m + 1
      BY <1>1, <2>2
    <3>2. /\ h[n + 1] = h[n] + Gain(t, A, n + 1)
          /\ f[m + 1] = f[m] + Gain(r, A, m + 1)
      <4> HIDE DEF m
      <4> QED
        BY <1>3, <1>4, <3>1 DEF Adds, Sum1
    <3>3. Gain(r, A, m + 1) = Gain(t, A, n + 1)
      <4>1. r[m + 1] = t[n + 1]
        BY <1>1, <3>1
      <4> QED
        BY <4>1 DEF Gain
    <3>4. Gain(t, A, n + 1) \in Nat /\ h[n] \in Nat
      BY <1>3, <2>2, <3>1, GainType
    <3> QED
      BY <1>6, <2>2, <3>1, <3>2, <3>3, <3>4
  <2> HIDE DEF T
  <2> QED
    BY <1>1, <2>1, <2>2, EveryPlace
<1>8. f[Len(r)] = g[Len(s)] + h[Len(t)]
  BY <1>0, <1>7
<1> QED
  BY <1>1, <1>2, <1>3, <1>4, <1>8, WorthIs DEF r

(* Rows that are none of A are worth nothing. *)
LEMMA WorthNothing ==
  ASSUME NEW s \in Seq(RewardLine), NEW A, \A n \in 1..Len(s) : s[n] \notin A
  PROVE  Worth(s, A) = 0
<1>1. Len(s) \in Nat
  BY LenProperties
<1> DEFINE g == [n \in 0..Len(s) |-> 0]
<1>2. \A n \in 1..Len(s) : Gain(s, A, n) = 0
  BY DEF Gain
<1>3. Adds(s, A, g)
  BY <1>1, <1>2 DEF Adds, Sum1
<1>4. g[Len(s)] = 0
  BY <1>1
<1> HIDE DEF g
<1> QED
  BY <1>3, <1>4, WorthIs

LEMMA WorthEmpty == \A A : Worth(<<>>, A) = 0
<1>1. <<>> \in Seq(RewardLine) /\ Len(<<>>) = 0
  OBVIOUS
<1>2. \A A : \A n \in 1..Len(<<>>) : <<>>[n] \notin A
  BY <1>1
<1> QED
  BY <1>1, <1>2, WorthNothing

(* A reward is worth its amount, where its kind counts. *)
LEMMA WorthLine ==
  ASSUME NEW d \in Nat, NEW kind \in RewardKinds \cup {"deposit", "referral"},
         NEW a \in Nat, NEW A
  PROVE  /\ [deposit |-> d, kind |-> kind, amount |-> a] \in A
              => Worth(Line(d, kind, a), A) = a
         /\ [deposit |-> d, kind |-> kind, amount |-> a] \notin A
              => Worth(Line(d, kind, a), A) = 0
<1> DEFINE row == [deposit |-> d, kind |-> kind, amount |-> a]
<1>1. CASE a = 0
  <2>1. Line(d, kind, a) = <<>>
    BY <1>1 DEF Line
  <2> QED
    BY <1>1, <2>1, WorthEmpty
<1>2. CASE a > 0
  <2>1. Line(d, kind, a) = <<row>>
    BY <1>2 DEF Line
  <2> DEFINE v == IF row \in A THEN a ELSE 0
             g == [n \in 0..1 |-> IF n = 0 THEN 0 ELSE v]
  <2>2. row.amount = a
    OBVIOUS
  <2> HIDE DEF row
  <2>3. Len(<<row>>) = 1 /\ <<row>>[1] = row
    OBVIOUS
  <2>4. Gain(<<row>>, A, 1) = v
    BY <2>2, <2>3 DEF Gain
  <2> HIDE DEF v
  <2>5. g[0] = 0 /\ g[1] = v /\ v \in Nat
    BY DEF v
  <2> HIDE DEF g
  <2>6. ASSUME NEW n \in 0..1
        PROVE  g[n] = Sum1(<<row>>, A, g, n)
    <3>1. CASE n = 0
      BY <2>5, <3>1 DEF Sum1
    <3>2. CASE n = 1
      BY <2>4, <2>5, <3>2 DEF Sum1
    <3> QED
      BY <3>1, <3>2
  <2>7. Adds(<<row>>, A, g)
    BY <2>3, <2>6 DEF Adds
  <2>8. <<row>> \in Seq(RewardLine)
    BY <2>1, LineType
  <2>9. Worth(<<row>>, A) = v
    BY <2>3, <2>5, <2>7, <2>8, WorthIs
  <2> QED
    BY <2>1, <2>9 DEF v, row
<1> QED
  BY <1>1, <1>2
-----------------------------------------------------------------------------
(* What a deposit's rows come to is what its row says.                     *)

(* The rows that credit deposit d, those of its rewards, and the rows of   *)
(* referral rewards.                                                       *)
Principals(d) == {r \in RewardLine : r.deposit = d /\ r.kind = "deposit"}
Bonuses(d) == {r \in RewardLine : r.deposit = d /\ r.kind \in RewardKinds}
Referrals == {r \in RewardLine : r.kind = "referral"}

LEMMA TotalsAreWorths ==
  ASSUME NEW u \in Users, ledger[u] \in Seq(RewardLine), NEW d
  PROVE  /\ Total(u, LAMBDA r : r.deposit = d /\ r.kind = "deposit")
              = Worth(ledger[u], Principals(d))
         /\ Total(u, LAMBDA r : r.deposit = d /\ r.kind \in RewardKinds)
              = Worth(ledger[u], Bonuses(d))
         /\ Total(u, LAMBDA r : r.kind = "referral")
              = Worth(ledger[u], Referrals)
<1> DEFINE s == ledger[u]
           Sums(A, g) == g = [n \in 0..Len(s) |-> Sum1(s, A, g, n)]
           Sum(A) == CHOOSE g : Sums(A, g)
<1>1. \A n \in 1..Len(s) : s[n] \in RewardLine
  BY ElementOfSeq
<1>2. ASSUME NEW A
      PROVE  (Sum(A))[Len(s)] = Worth(s, A)
  <2>1. PICK g \in [0..Len(s) -> Nat] : Adds(s, A, g)
    BY AddsExist
  <2>2. Sums(A, g)
    BY <2>1 DEF Adds
  <2>3. Sums(A, Sum(A))
    BY <2>2
  <2> HIDE DEF Sum
  <2>4. Adds(s, A, Sum(A))
    BY <2>3 DEF Adds
  <2> QED
    BY <2>4, WorthIs
<1>3. Total(u, LAMBDA r : r.deposit = d /\ r.kind = "deposit")
        = (Sum(Principals(d)))[Len(s)]
  <2>1. \A n \in 1..Len(s) :
          s[n] \in Principals(d) <=> s[n].deposit = d /\ s[n].kind = "deposit"
    BY <1>1 DEF Principals
  <2>2. \A g : [n \in 0..Len(s) |-> Sum1(s, Principals(d), g, n)]
             = [n \in 0..Len(s) |->
                  IF n = 0 THEN 0
                  ELSE g[n - 1] + IF s[n].deposit = d /\ s[n].kind = "deposit"
                                  THEN s[n].amount ELSE 0]
    BY <2>1 DEF Sum1, Gain
  <2> QED
    BY <2>2, Zenon DEF Total
<1>4. Total(u, LAMBDA r : r.deposit = d /\ r.kind \in RewardKinds)
        = (Sum(Bonuses(d)))[Len(s)]
  <2>1. \A n \in 1..Len(s) :
          s[n] \in Bonuses(d) <=> s[n].deposit = d /\ s[n].kind \in RewardKinds
    BY <1>1 DEF Bonuses
  <2>2. \A g : [n \in 0..Len(s) |-> Sum1(s, Bonuses(d), g, n)]
             = [n \in 0..Len(s) |->
                  IF n = 0 THEN 0
                  ELSE g[n - 1] + IF s[n].deposit = d /\ s[n].kind \in RewardKinds
                                  THEN s[n].amount ELSE 0]
    BY <2>1 DEF Sum1, Gain
  <2> QED
    BY <2>2, Zenon DEF Total
<1>5. Total(u, LAMBDA r : r.kind = "referral")
        = (Sum(Referrals))[Len(s)]
  <2>1. \A n \in 1..Len(s) :
          s[n] \in Referrals <=> s[n].kind = "referral"
    BY <1>1 DEF Referrals
  <2>2. \A g : [n \in 0..Len(s) |-> Sum1(s, Referrals, g, n)]
             = [n \in 0..Len(s) |->
                  IF n = 0 THEN 0
                  ELSE g[n - 1] + IF s[n].kind = "referral"
                                  THEN s[n].amount ELSE 0]
    BY <2>1 DEF Sum1, Gain
  <2> QED
    BY <2>2, Zenon DEF Total
<1> HIDE DEF Sum
<1>6. Total(u, LAMBDA r : r.deposit = d /\ r.kind = "deposit")
        = Worth(ledger[u], Principals(d))
  BY <1>2, <1>3, Zenon
<1>7. Total(u, LAMBDA r : r.deposit = d /\ r.kind \in RewardKinds)
        = Worth(ledger[u], Bonuses(d))
  BY <1>2, <1>4, Zenon
<1>8. Total(u, LAMBDA r : r.kind = "referral") = Worth(ledger[u], Referrals)
  BY <1>2, <1>5, Zenon
<1> QED
  BY <1>6, <1>7, <1>8, Zenon

(* Deposit d was credited to u. *)
Settled(d, u) == /\ d \in DOMAIN deposits /\ deposits[d].user = u
                 /\ deposits[d].status = "APPROVED"
Told(d, u) ==
  /\ Worth(ledger[u], Principals(d))
       = IF Settled(d, u) THEN deposits[d].amount ELSE 0
  /\ Worth(ledger[u], Bonuses(d))
       = IF Settled(d, u) THEN deposits[d].bonus ELSE 0
NoBonusYet(d) == deposits[d].status # "APPROVED" => deposits[d].bonus = 0
Telling ==
  /\ \A d \in Nat : \A u \in Users : Told(d, u)
  /\ \A d \in DOMAIN deposits : NoBonusYet(d)

(* Deposits come and go, but none is settled. *)
NoneSettled ==
  /\ ledger' = ledger
  /\ \A d : \A u \in Users :
       /\ Settled(d, u)' <=> Settled(d, u)
       /\ Settled(d, u) => /\ deposits'[d].amount = deposits[d].amount
                           /\ deposits'[d].bonus = deposits[d].bonus
  /\ \A d \in DOMAIN deposits' : NoBonusYet(d)'

LEMMA NoneSettledTells ==
  ASSUME Telling, NoneSettled
  PROVE  Telling'
<1>1. ASSUME NEW d \in Nat, NEW u \in Users
      PROVE  Told(d, u)'
  <2>1. /\ Told(d, u) /\ ledger' = ledger
        /\ Settled(d, u)' <=> Settled(d, u)
        /\ Settled(d, u) => /\ deposits'[d].amount = deposits[d].amount
                            /\ deposits'[d].bonus = deposits[d].bonus
    BY DEF Telling, NoneSettled
  <2>2. CASE Settled(d, u)
    BY <2>1, <2>2 DEF Told
  <2>3. CASE ~Settled(d, u)
    BY <2>1, <2>3 DEF Told
  <2> QED
    BY <2>2, <2>3
<1> QED
  BY <1>1 DEF Telling, NoneSettled

LEMMA OnlyCommitSettles ==
  ASSUME IInv, Telling, [Next]_vars, \A d \in 1..MaxDeposits : ~Commit(d)
  PROVE  NoneSettled /\ UNCHANGED <<earnings, referralLog>>
<1>1. ASSUME NEW u \in Users, NEW a \in Amounts,
             NEW c \in Coupons \cup {NoCoupon}, NEW paid \in BOOLEAN,
             CreateDeposit(u, a, c, paid)
      PROVE  NoneSettled /\ UNCHANGED <<earnings, referralLog>>
  <2> DEFINE row == [user |-> u, amount |-> a, coupon |-> c, paid |-> paid,
                     status |-> "PENDING", bonus |-> 0]
  <2>1. row \in DepositRow /\ row.status = "PENDING" /\ row.bonus = 0
    BY DEF DepositRow
  <2>2. deposits \in Seq(DepositRow) /\ deposits' = Append(deposits, row)
    BY <1>1 DEF IInv, Tables, CreateDeposit
  <2> HIDE DEF row
  <2>3. /\ DOMAIN deposits' = DOMAIN deposits \cup {Len(deposits) + 1}
        /\ Len(deposits) + 1 \notin DOMAIN deposits
        /\ deposits'[Len(deposits) + 1] = row
        /\ \A d \in DOMAIN deposits : deposits'[d] = deposits[d]
    BY <2>1, <2>2
  <2>4. UNCHANGED <<ledger, earnings, referralLog>>
    BY <1>1 DEF CreateDeposit, rewards
  <2> QED
    BY <2>1, <2>3, <2>4 DEF NoneSettled, Settled, Telling, NoBonusYet
<1>2. ASSUME NEW c \in Coupons, DeleteCoupon(c)
      PROVE  NoneSettled /\ UNCHANGED <<earnings, referralLog>>
  <2>1. /\ deposits' = [d \in DOMAIN deposits |->
             [deposits[d] EXCEPT !.coupon = IF @ = c THEN NoCoupon ELSE @]]
        /\ UNCHANGED <<ledger, earnings, referralLog>>
        /\ deposits \in Seq(DepositRow)
    BY <1>2 DEF DeleteCoupon, IInv, Tables, rewards
  <2>2. \A d \in DOMAIN deposits : deposits[d] \in DepositRow
    BY <2>1
  <2>3. DOMAIN deposits' = DOMAIN deposits
    BY <2>1
  <2>4. \A d \in DOMAIN deposits :
          /\ deposits'[d].user = deposits[d].user
          /\ deposits'[d].amount = deposits[d].amount
          /\ deposits'[d].status = deposits[d].status
          /\ deposits'[d].bonus = deposits[d].bonus
    BY <2>1, <2>2 DEF DepositRow
  <2> QED
    BY <2>1, <2>3, <2>4 DEF NoneSettled, Settled, Telling, NoBonusYet
<1>3. ASSUME NEW d \in 1..MaxDeposits, Reject(d)
      PROVE  NoneSettled /\ UNCHANGED <<earnings, referralLog>>
  <2>1. /\ d \in DOMAIN deposits /\ deposits[d].status = "PENDING"
        /\ deposits' = [deposits EXCEPT ![d].status = "REJECTED"]
        /\ UNCHANGED <<ledger, earnings, referralLog>>
        /\ deposits \in Seq(DepositRow)
    BY <1>3 DEF Reject, At, IInv, Tables, rewards
  <2>2. deposits[d] \in DepositRow
    BY <2>1
  <2>3. /\ DOMAIN deposits' = DOMAIN deposits
        /\ deposits'[d].status = "REJECTED"
        /\ deposits'[d].bonus = deposits[d].bonus
        /\ \A e \in DOMAIN deposits : e # d => deposits'[e] = deposits[e]
    BY <2>1, <2>2 DEF DepositRow
  <2> QED
    BY <2>1, <2>3 DEF NoneSettled, Settled, Telling, NoBonusYet
<1>4. ASSUME UNCHANGED <<deposits, rewards>>
      PROVE  NoneSettled /\ UNCHANGED <<earnings, referralLog>>
  BY <1>4 DEF NoneSettled, Settled, Telling, NoBonusYet, rewards
<1>5. ASSUME NEW d \in 1..MaxDeposits,
             \/ Open(d) \/ Principal(d) \/ Redeem(d) \/ PayReferrer(d)
             \/ CheckCoupon(d) \/ First(d) \/ NotFirst(d)
             \/ DeadlockAbort(d) \/ Interrupted(d)
      PROVE  UNCHANGED <<deposits, rewards>>
  BY <1>5 DEF Open, Principal, Redeem, PayReferrer, CheckCoupon,
     First, NotFirst, DeadlockAbort, Interrupted, Work
<1>6. CASE UNCHANGED vars \/ SaveSettings
  BY <1>4, <1>6 DEF vars, SaveSettings
<1>7. ASSUME NEW c \in Coupons, NEW o \in Offers, SaveCoupon(c, o)
      PROVE  UNCHANGED <<deposits, rewards>>
  BY <1>7 DEF SaveCoupon
<1> QED
  BY <1>1, <1>2, <1>3, <1>4, <1>5, <1>6, <1>7 DEF Next, Proceed

LEMMA LineWorths ==
  ASSUME NEW d \in Nat, NEW kind \in RewardKinds \cup {"deposit", "referral"},
         NEW a \in Nat, NEW e
  PROVE  /\ Worth(Line(d, kind, a), Principals(e))
              = IF e = d /\ kind = "deposit" THEN a ELSE 0
         /\ Worth(Line(d, kind, a), Bonuses(e))
              = IF e = d /\ kind \in RewardKinds THEN a ELSE 0
         /\ Worth(Line(d, kind, a), Referrals)
              = IF kind = "referral" THEN a ELSE 0
<1> DEFINE row == [deposit |-> d, kind |-> kind, amount |-> a]
<1>1. CASE a = 0
  <2>1. Line(d, kind, a) = <<>>
    BY <1>1 DEF Line
  <2> QED
    BY <1>1, <2>1, WorthEmpty
<1>2. CASE a # 0
  <2>1. /\ row \in RewardLine /\ row.deposit = d /\ row.kind = kind
    BY <1>2 DEF RewardLine
  <2>2. ASSUME NEW A
        PROVE  Worth(Line(d, kind, a), A) = IF row \in A THEN a ELSE 0
    BY WorthLine
  <2> HIDE DEF row
  <2>3. /\ row \in Principals(e) <=> e = d /\ kind = "deposit"
        /\ row \in Bonuses(e) <=> e = d /\ kind \in RewardKinds
        /\ row \in Referrals <=> kind = "referral"
    BY <2>1 DEF Principals, Bonuses, Referrals
  <2>4. Worth(Line(d, kind, a), Principals(e))
          = IF e = d /\ kind = "deposit" THEN a ELSE 0
    BY <2>2, <2>3
  <2>5. Worth(Line(d, kind, a), Bonuses(e))
          = IF e = d /\ kind \in RewardKinds THEN a ELSE 0
    BY <2>2, <2>3
  <2>6. Worth(Line(d, kind, a), Referrals) = IF kind = "referral" THEN a ELSE 0
    BY <2>2, <2>3
  <2> QED
    BY <2>4, <2>5, <2>6
<1> QED
  BY <1>1, <1>2

(* What a transaction has gathered comes to what it will tell. *)
LEMMA EarnedWorths ==
  ASSUME NEW d \in Nat, NEW t, NEW amount \in Nat, NEW first, NEW referrer,
         Earned(d, t, amount, first, referrer)
  PROVE  /\ t.rows \in Seq(RewardLine) /\ t.reward \in Nat
         /\ Worth(t.rows, Principals(d)) = amount
         /\ Worth(t.rows, Bonuses(d)) = t.bonus
         /\ \A e : e # d => /\ Worth(t.rows, Principals(e)) = 0
                            /\ Worth(t.rows, Bonuses(e)) = 0
         /\ Worth(t.rows, Referrals) = 0
         /\ IF t.referred THEN first /\ referrer # NoUser ELSE t.reward = 0
<1>1. PICK percent \in MethodPercents, o \in Offers, s \in Settings :
        LET referred == first /\ s.referralEnabled /\ referrer # NoUser
            start == IF first THEN FirstBonus(s, amount) ELSE 0
            referee == IF referred THEN RefereeBonus(s, amount) ELSE 0
        IN  /\ t.first = first /\ t.referred = referred
            /\ t.reward = IF referred THEN ReferrerReward(s, amount) ELSE 0
            /\ t.rows = CouponRows(d, amount, percent, t.coupon, o)
                          \o Line(d, "first", start)
                          \o Line(d, "referee", referee)
            /\ t.bonus = Percent(amount, percent)
                           + CouponGives(amount, t.coupon, o) + start + referee
  BY DEF Earned
<1> DEFINE referred == first /\ s.referralEnabled /\ referrer # NoUser
           start == IF first THEN FirstBonus(s, amount) ELSE 0
           referee == IF referred THEN RefereeBonus(s, amount) ELSE 0
           method == Percent(amount, percent)
           coupon == CouponGives(amount, t.coupon, o)
           L(kind, a) == Line(d, kind, a)
<1>2. /\ t.reward = IF t.referred THEN ReferrerReward(s, amount) ELSE 0
      /\ t.referred = referred
      /\ t.bonus = method + coupon + start + referee
      /\ t.rows = L("deposit", amount) \o L("method", method)
                    \o L("coupon", coupon) \o L("first", start)
                    \o L("referee", referee)
  BY <1>1 DEF CouponRows, MethodRows
<1>3. /\ start \in Nat /\ referee \in Nat
      /\ method \in Nat /\ coupon \in Nat /\ ReferrerReward(s, amount) \in Nat
  <2>1. /\ FirstBonus(s, amount) \in Nat /\ RefereeBonus(s, amount) \in Nat
        /\ ReferrerReward(s, amount) \in Nat
    BY RewardTypes
  <2>2. method \in Nat /\ coupon \in Nat
    BY MethodRowsType, CouponRowsType
  <2> QED
    BY <2>1, <2>2
<1> HIDE DEF start, referee, method, coupon
<1>4. /\ L("deposit", amount) \in Seq(RewardLine)
      /\ L("method", method) \in Seq(RewardLine)
      /\ L("coupon", coupon) \in Seq(RewardLine)
      /\ L("first", start) \in Seq(RewardLine)
      /\ L("referee", referee) \in Seq(RewardLine)
  BY <1>3, LineType DEF RewardKinds
<1> HIDE DEF L
<1> DEFINE two == L("deposit", amount) \o L("method", method)
           three == two \o L("coupon", coupon)
           four == three \o L("first", start)
<1>5. /\ two \in Seq(RewardLine)
      /\ \A A : Worth(two, A) = Worth(L("deposit", amount), A)
                                  + Worth(L("method", method), A)
  BY <1>4, WorthConcat, ConcatProperties
<1> HIDE DEF two
<1>6. /\ three \in Seq(RewardLine)
      /\ \A A : Worth(three, A) = Worth(two, A) + Worth(L("coupon", coupon), A)
  BY <1>4, <1>5, WorthConcat, ConcatProperties
<1> HIDE DEF three
<1>7. /\ four \in Seq(RewardLine)
      /\ \A A : Worth(four, A) = Worth(three, A) + Worth(L("first", start), A)
  BY <1>4, <1>6, WorthConcat, ConcatProperties
<1>8. t.rows = four \o L("referee", referee)
  BY <1>2 DEF two, three
<1> HIDE DEF four
<1>9. /\ t.rows \in Seq(RewardLine)
      /\ \A A : Worth(t.rows, A)
                  = Worth(four, A) + Worth(L("referee", referee), A)
  BY <1>4, <1>7, <1>8, WorthConcat, ConcatProperties
<1>10. ASSUME NEW A
       PROVE  Worth(t.rows, A)
                = Worth(L("deposit", amount), A) + Worth(L("method", method), A)
                    + Worth(L("coupon", coupon), A) + Worth(L("first", start), A)
                    + Worth(L("referee", referee), A)
  BY <1>5, <1>6, <1>7, <1>9
<1>11. ASSUME NEW e
       PROVE  Worth(t.rows, Principals(e)) = IF e = d THEN amount ELSE 0
  <2>1. /\ Worth(L("deposit", amount), Principals(e)) = IF e = d THEN amount ELSE 0
        /\ Worth(L("method", method), Principals(e)) = 0
        /\ Worth(L("coupon", coupon), Principals(e)) = 0
        /\ Worth(L("first", start), Principals(e)) = 0
        /\ Worth(L("referee", referee), Principals(e)) = 0
    BY <1>3, LineWorths DEF L, RewardKinds
  <2> QED
    BY <1>10, <2>1
<1>12. ASSUME NEW e
       PROVE  Worth(t.rows, Bonuses(e)) = IF e = d THEN t.bonus ELSE 0
  <2>1. /\ Worth(L("deposit", amount), Bonuses(e)) = 0
        /\ Worth(L("method", method), Bonuses(e)) = IF e = d THEN method ELSE 0
        /\ Worth(L("coupon", coupon), Bonuses(e)) = IF e = d THEN coupon ELSE 0
        /\ Worth(L("first", start), Bonuses(e)) = IF e = d THEN start ELSE 0
        /\ Worth(L("referee", referee), Bonuses(e)) = IF e = d THEN referee ELSE 0
    BY <1>3, LineWorths DEF L, RewardKinds
  <2> QED
    BY <1>2, <1>3, <1>10, <2>1
<1>13. Worth(t.rows, Referrals) = 0
  <2>1. /\ Worth(L("deposit", amount), Referrals) = 0
        /\ Worth(L("method", method), Referrals) = 0
        /\ Worth(L("coupon", coupon), Referrals) = 0
        /\ Worth(L("first", start), Referrals) = 0
        /\ Worth(L("referee", referee), Referrals) = 0
    BY <1>3, LineWorths DEF L, RewardKinds
  <2> QED
    BY <1>10, <2>1
<1>14. /\ Worth(t.rows, Principals(d)) = amount
       /\ Worth(t.rows, Bonuses(d)) = t.bonus
       /\ \A e : e # d => /\ Worth(t.rows, Principals(e)) = 0
                          /\ Worth(t.rows, Bonuses(e)) = 0
  <2> DEFINE P(e) == Worth(t.rows, Principals(e))
             B(e) == Worth(t.rows, Bonuses(e))
  <2>1. \A e : P(e) = IF e = d THEN amount ELSE 0
    BY <1>11
  <2>2. \A e : B(e) = IF e = d THEN t.bonus ELSE 0
    BY <1>12
  <2> HIDE DEF P, B
  <2>3. P(d) = amount /\ B(d) = t.bonus /\ \A e : e # d => P(e) = 0 /\ B(e) = 0
    BY <2>1, <2>2
  <2> QED
    BY <2>3, Zenon DEF P, B
<1>15. /\ t.reward \in Nat
       /\ IF t.referred THEN first /\ referrer # NoUser ELSE t.reward = 0
  <2>1. CASE t.referred
    <3>1. first /\ referrer # NoUser
      BY <1>2, <2>1 DEF referred
    <3> QED
      BY <1>2, <1>3, <2>1, <3>1
  <2>2. CASE ~t.referred
    BY <1>2, <2>2
  <2> QED
    BY <2>1, <2>2
<1> QED
  BY <1>9, <1>13, <1>14, <1>15, Zenon

(* What a commit adds to each wallet's rows.                               *)
LEMMA CommitWorths ==
  ASSUME IInv, NEW d \in 1..MaxDeposits, Commit(d)
  PROVE  /\ tx[d].reward \in Nat
         /\ IF tx[d].referred
            THEN ~hasDeposited[Owner(d)] /\ Referrer(d) # NoUser
            ELSE tx[d].reward = 0
         /\ \A w \in Users : \A e :
              /\ Worth(ledger'[w], Principals(e))
                   = Worth(ledger[w], Principals(e))
                       + IF w = Owner(d) /\ e = d THEN deposits[d].amount ELSE 0
              /\ Worth(ledger'[w], Bonuses(e))
                   = Worth(ledger[w], Bonuses(e))
                       + IF w = Owner(d) /\ e = d THEN tx[d].bonus ELSE 0
         /\ \A w \in Users :
              Worth(ledger'[w], Referrals)
                = Worth(ledger[w], Referrals)
                    + IF w = Referrer(d) THEN tx[d].reward ELSE 0
<1> DEFINE t == tx[d]
           u == Owner(d)
           amount == deposits[d].amount
           line == Line(d, "referral", t.reward)
<1>1. /\ d \in DOMAIN deposits /\ t \in TxRow
      /\ Earned(d, t, amount, ~hasDeposited[u], Referrer(d))
  BY Committing
<1>2. amount \in Nat /\ d \in Nat /\ t.bonus \in Nat
  BY <1>1, DepositTypes DEF TxRow
<1>3. /\ t.rows \in Seq(RewardLine) /\ t.reward \in Nat
      /\ Worth(t.rows, Principals(d)) = amount
      /\ Worth(t.rows, Bonuses(d)) = t.bonus
      /\ \A e : e # d => /\ Worth(t.rows, Principals(e)) = 0
                         /\ Worth(t.rows, Bonuses(e)) = 0
      /\ Worth(t.rows, Referrals) = 0
      /\ IF t.referred THEN ~hasDeposited[u] /\ Referrer(d) # NoUser
                       ELSE t.reward = 0
  <2> DEFINE first == ~hasDeposited[u]
             referrer == Referrer(d)
  <2>1. Earned(d, t, amount, first, referrer)
    BY <1>1
  <2> HIDE DEF t, amount, first, referrer
  <2>2. /\ t.rows \in Seq(RewardLine) /\ t.reward \in Nat
        /\ Worth(t.rows, Principals(d)) = amount
        /\ Worth(t.rows, Bonuses(d)) = t.bonus
        /\ \A e : e # d => /\ Worth(t.rows, Principals(e)) = 0
                           /\ Worth(t.rows, Bonuses(e)) = 0
        /\ Worth(t.rows, Referrals) = 0
        /\ IF t.referred THEN first /\ referrer # NoUser
                         ELSE t.reward = 0
    BY <1>2, <2>1, EarnedWorths, Zenon
  <2> QED
    BY <2>2, Zenon DEF first, referrer
<1>4. line \in Seq(RewardLine)
  BY <1>2, <1>3, LineType
<1>5. /\ \A e : Worth(line, Principals(e)) = 0 /\ Worth(line, Bonuses(e)) = 0
      /\ Worth(line, Referrals) = t.reward
  BY <1>2, <1>3, LineWorths DEF RewardKinds
<1>6. ASSUME NEW w \in Users, NEW A
      PROVE  /\ Worth(ledger[w], A) \in Nat
             /\ Worth(ledger'[w], A)
                  = Worth(ledger[w], A) + (IF w = u THEN Worth(t.rows, A) ELSE 0)
                      + (IF w = Referrer(d) THEN Worth(line, A) ELSE 0)
  <2> DEFINE X == IF w = u THEN t.rows ELSE <<>>
             Y == IF w = Referrer(d) THEN line ELSE <<>>
             s == ledger[w]
  <2>1. X \in Seq(RewardLine) /\ Y \in Seq(RewardLine) /\ s \in Seq(RewardLine)
    BY <1>3, <1>4 DEF IInv, Tables
  <2>2. ledger'[w] = (s \o X) \o Y
    BY DEF Commit
  <2>3. /\ Worth(X, A) = IF w = u THEN Worth(t.rows, A) ELSE 0
        /\ Worth(Y, A) = IF w = Referrer(d) THEN Worth(line, A) ELSE 0
    BY WorthEmpty
  <2> HIDE DEF X, Y, s
  <2>4. s \o X \in Seq(RewardLine)
    BY <2>1, ConcatProperties
  <2>5. Worth((s \o X) \o Y, A) = Worth(s \o X, A) + Worth(Y, A)
    BY <2>1, <2>4, WorthConcat
  <2>6. Worth(s \o X, A) = Worth(s, A) + Worth(X, A)
    BY <2>1, WorthConcat
  <2>7. Worth(s, A) \in Nat
    BY <2>1, WorthType
  <2>8. Worth(ledger'[w], A) = Worth(s, A) + Worth(X, A) + Worth(Y, A)
    BY <2>2, <2>5, <2>6
  <2> QED
    BY <2>3, <2>7, <2>8 DEF s
<1> HIDE DEF t, amount, u, line
<1>7. ASSUME NEW w \in Users, NEW e
      PROVE  /\ Worth(ledger'[w], Principals(e))
                  = Worth(ledger[w], Principals(e))
                      + IF w = u /\ e = d THEN amount ELSE 0
             /\ Worth(ledger'[w], Bonuses(e))
                  = Worth(ledger[w], Bonuses(e))
                      + IF w = u /\ e = d THEN t.bonus ELSE 0
  <2>1. /\ Worth(t.rows, Principals(e)) = IF e = d THEN amount ELSE 0
        /\ Worth(t.rows, Bonuses(e)) = IF e = d THEN t.bonus ELSE 0
    BY <1>3
  <2>2. /\ Worth(line, Principals(e)) = 0 /\ Worth(line, Bonuses(e)) = 0
    BY <1>5
  <2>3. /\ Worth(ledger[w], Principals(e)) \in Nat
        /\ Worth(ledger'[w], Principals(e))
             = Worth(ledger[w], Principals(e))
                 + (IF w = u THEN Worth(t.rows, Principals(e)) ELSE 0)
                 + (IF w = Referrer(d) THEN Worth(line, Principals(e)) ELSE 0)
    BY <1>6
  <2>4. /\ Worth(ledger[w], Bonuses(e)) \in Nat
        /\ Worth(ledger'[w], Bonuses(e))
             = Worth(ledger[w], Bonuses(e))
                 + (IF w = u THEN Worth(t.rows, Bonuses(e)) ELSE 0)
                 + (IF w = Referrer(d) THEN Worth(line, Bonuses(e)) ELSE 0)
    BY <1>6
  <2>5. Worth(ledger'[w], Principals(e))
          = Worth(ledger[w], Principals(e))
              + IF w = u /\ e = d THEN amount ELSE 0
    BY <1>2, <2>1, <2>2, <2>3
  <2>6. Worth(ledger'[w], Bonuses(e))
          = Worth(ledger[w], Bonuses(e))
              + IF w = u /\ e = d THEN t.bonus ELSE 0
    BY <1>2, <2>1, <2>2, <2>4
  <2> QED
    BY <2>5, <2>6
<1>8. ASSUME NEW w \in Users
      PROVE  Worth(ledger'[w], Referrals)
               = Worth(ledger[w], Referrals)
                   + IF w = Referrer(d) THEN t.reward ELSE 0
  <2>1. /\ Worth(ledger[w], Referrals) \in Nat
        /\ Worth(ledger'[w], Referrals)
             = Worth(ledger[w], Referrals)
                 + (IF w = u THEN Worth(t.rows, Referrals) ELSE 0)
                 + (IF w = Referrer(d) THEN Worth(line, Referrals) ELSE 0)
    BY <1>6
  <2> QED
    BY <1>3, <1>5, <2>1
<1>9. /\ t.reward \in Nat
      /\ IF t.referred THEN ~hasDeposited[u] /\ Referrer(d) # NoUser
                       ELSE t.reward = 0
  BY <1>3
<1> QED
  BY <1>7, <1>8, <1>9, Zenon DEF t, amount, u

(* A commit settles one deposit, that was not told of.                     *)
LEMMA CommitTells ==
  ASSUME IInv, Telling, NEW d \in 1..MaxDeposits, Commit(d)
  PROVE  Telling'
<1> DEFINE t == tx[d]
           u == Owner(d)
           amount == deposits[d].amount
<1>1. /\ d \in DOMAIN deposits /\ deposits[d].status = "PENDING"
      /\ t.bonus \in Nat
  BY Committing DEF TxRow
<1>2. /\ u \in Users /\ amount \in Nat /\ d \in Nat
      /\ deposits[d].user = u
  BY <1>1, DepositTypes
<1>3. /\ DOMAIN deposits' = DOMAIN deposits
      /\ \A e \in DOMAIN deposits : e # d => deposits'[e] = deposits[e]
      /\ deposits'[d].user = u /\ deposits'[d].amount = amount
      /\ deposits'[d].status = "APPROVED" /\ deposits'[d].bonus = t.bonus
  <2>1. /\ deposits' = [deposits EXCEPT ![d].status = "APPROVED",
                                       ![d].bonus = t.bonus]
        /\ deposits \in Seq(DepositRow)
    BY DEF Commit, IInv, Tables
  <2>2. deposits[d] \in DepositRow
    BY <1>1, <2>1
  <2> QED
    BY <1>1, <1>2, <2>1, <2>2 DEF DepositRow
<1>4. /\ \A w \in Users : \A e :
           Worth(ledger'[w], Principals(e))
             = Worth(ledger[w], Principals(e))
                 + IF w = u /\ e = d THEN amount ELSE 0
      /\ \A w \in Users : \A e :
           Worth(ledger'[w], Bonuses(e))
             = Worth(ledger[w], Bonuses(e))
                 + IF w = u /\ e = d THEN t.bonus ELSE 0
  BY CommitWorths
<1>5. ASSUME NEW e \in Nat, NEW w \in Users
      PROVE  Told(e, w)'
  <2> DEFINE p == Worth(ledger[w], Principals(e))
             b == Worth(ledger[w], Bonuses(e))
             p2 == Worth(ledger'[w], Principals(e))
             b2 == Worth(ledger'[w], Bonuses(e))
  <2>1. /\ p = IF Settled(e, w) THEN deposits[e].amount ELSE 0
        /\ b = IF Settled(e, w) THEN deposits[e].bonus ELSE 0
    BY DEF Telling, Told
  <2>2. p2 = p + IF w = u /\ e = d THEN amount ELSE 0
    BY <1>4
  <2>3. b2 = b + IF w = u /\ e = d THEN t.bonus ELSE 0
    BY <1>4
  <2>4. p \in Nat /\ b \in Nat
    <3>1. ledger[w] \in Seq(RewardLine)
      BY DEF IInv, Tables
    <3> QED
      BY <3>1, WorthType
  <2> HIDE DEF p, b, p2, b2
  <2>5. CASE e = d /\ w = u
    <3>1. ~Settled(e, w) /\ Settled(e, w)'
      BY <1>1, <1>2, <1>3, <2>5 DEF Settled
    <3>2. p2 = amount /\ b2 = t.bonus
      BY <1>1, <1>2, <2>1, <2>2, <2>3, <2>5, <3>1
    <3> QED
      BY <1>3, <2>5, <3>1, <3>2 DEF Told, p2, b2
  <2>6. CASE ~(e = d /\ w = u)
    <3>1. p2 = p /\ b2 = b
      BY <2>2, <2>3, <2>4, <2>6
    <3>2. Settled(e, w)' <=> Settled(e, w)
      BY <1>1, <1>2, <1>3, <2>6 DEF Settled
    <3>3. Settled(e, w) => e # d /\ e \in DOMAIN deposits
      BY <1>1 DEF Settled
    <3>4. Settled(e, w) => deposits'[e] = deposits[e]
      BY <1>3, <3>3
    <3> QED
      BY <2>1, <3>1, <3>2, <3>4 DEF Told, p2, b2
  <2> QED
    BY <2>5, <2>6
<1>6. \A e \in DOMAIN deposits' : NoBonusYet(e)'
  BY <1>1, <1>3 DEF Telling, NoBonusYet
<1> QED
  BY <1>5, <1>6 DEF Telling

LEMMA InitTells == Init => Telling
<1> SUFFICES ASSUME Init PROVE Telling
  OBVIOUS
<1>1. ASSUME NEW d \in Nat, NEW u \in Users PROVE Told(d, u)
  <2>1. ledger[u] = <<>> /\ ~Settled(d, u)
    BY DEF Init, Settled
  <2> QED
    BY <2>1, WorthEmpty DEF Told
<1>2. DOMAIN deposits = {}
  BY DEF Init
<1> QED
  BY <1>1, <1>2 DEF Telling

LEMMA StepTells == IInv /\ Telling /\ [Next]_vars => Telling'
<1> SUFFICES ASSUME IInv, Telling, [Next]_vars PROVE Telling'
  OBVIOUS
<1>1. CASE \E d \in 1..MaxDeposits : Commit(d)
  BY <1>1, CommitTells
<1>2. CASE \A d \in 1..MaxDeposits : ~Commit(d)
  BY <1>2, OnlyCommitSettles, NoneSettledTells
<1> QED
  BY <1>1, <1>2

(* The rows that cite a deposit come to what its row says: its amount,     *)
(* credited once when it is approved and never before, and bonusAmount,    *)
(* whichever rewards it earned and whatever else was approved meanwhile.   *)
THEOREM DepositsTold == Spec => []DepositTellsItsCredits
<1>1. IInv /\ Telling => DepositTellsItsCredits
  <2> SUFFICES ASSUME IInv, Telling, NEW d \in DOMAIN deposits
               PROVE  /\ Total(Owner(d), LAMBDA r : r.deposit = d
                                                     /\ r.kind = "deposit")
                            = IF deposits[d].status = "APPROVED"
                              THEN deposits[d].amount ELSE 0
                      /\ Total(Owner(d), LAMBDA r : r.deposit = d
                                                     /\ r.kind \in RewardKinds)
                            = deposits[d].bonus
    BY Zenon DEF DepositTellsItsCredits
  <2> DEFINE u == Owner(d)
             amount == Total(u, LAMBDA r : r.deposit = d /\ r.kind = "deposit")
             bonus == Total(u, LAMBDA r : r.deposit = d /\ r.kind \in RewardKinds)
  <2>1. u \in Users /\ d \in Nat /\ deposits[d].user = u
    BY DepositTypes
  <2>2. ledger[u] \in Seq(RewardLine)
    BY <2>1 DEF IInv, Tables
  <2> HIDE DEF u
  <2>3. /\ amount = Worth(ledger[u], Principals(d))
        /\ bonus = Worth(ledger[u], Bonuses(d))
    BY <2>1, <2>2, TotalsAreWorths, Zenon
  <2>4. Told(d, u) /\ NoBonusYet(d)
    BY <2>1 DEF Telling
  <2>5. Settled(d, u) <=> deposits[d].status = "APPROVED"
    BY <2>1 DEF Settled
  <2> HIDE DEF amount, bonus
  <2>6. /\ amount = IF deposits[d].status = "APPROVED"
                    THEN deposits[d].amount ELSE 0
        /\ bonus = deposits[d].bonus
    BY <2>3, <2>4, <2>5 DEF Told, NoBonusYet
  <2> QED
    BY <2>6, Zenon DEF amount, bonus, u
<1>2. IInv /\ IInv' /\ Telling /\ [Next]_vars => Telling'
  BY StepTells
<1> QED
  BY <1>1, <1>2, InitTells, Invariance, PTL DEF Spec
-----------------------------------------------------------------------------
(* The rewards logged for those a user referred.                           *)

LogRow == [referee : Users, reward : Nat]

(* The sum over a set of log rows is reached from that without the row     *)
(* CHOOSE takes.                                                           *)
LogPick(S) == CHOOSE l \in S : TRUE
LogAt(g, S) == IF S = {} THEN 0 ELSE LogPick(S).reward + g[S \ {LogPick(S)}]
LogSums(L, g) == g = [S \in SUBSET L |-> LogAt(g, S)]
LogSum(L) == CHOOSE g : LogSums(L, g)
LogTotal(L) == (LogSum(L))[L]
LogAdds(L, g) == \A S \in SUBSET L : g[S] = LogAt(g, S)

(* A set of sets that has the empty one, and each without one member of    *)
(* which it has every set, has them all.                                   *)
LEMMA EveryPart ==
  ASSUME NEW L, IsFiniteSet(L), NEW B, {} \in B,
         \A S \in SUBSET L : (\A z \in S : S \ {z} \in B) => S \in B
  PROVE  SUBSET L \subseteq B
<1> DEFINE N == {n \in Nat : \A S \in SUBSET L :
                               Cardinality(S) <= n => S \in B}
<1>1. \A S \in SUBSET L : /\ IsFiniteSet(S) /\ Cardinality(S) \in Nat
                          /\ (S = {} <=> Cardinality(S) = 0)
  BY FS_Subset, FS_EmptySet, FS_CardinalityType
<1>2. 0 \in N
  <2>1. \A S \in SUBSET L : Cardinality(S) <= 0 => S = {}
    BY <1>1
  <2> QED
    BY <2>1
<1>3. ASSUME NEW n \in N PROVE n + 1 \in N
  <2>1. ASSUME NEW S \in SUBSET L, Cardinality(S) <= n + 1
        PROVE  S \in B
    <3>1. ASSUME NEW z \in S PROVE S \ {z} \in B
      <4>1. /\ S \ {z} \in SUBSET L
            /\ Cardinality(S \ {z}) = Cardinality(S) - 1
        BY <1>1, FS_RemoveElement
      <4>2. Cardinality(S \ {z}) <= n
        BY <1>1, <2>1, <4>1
      <4> QED
        BY <4>1, <4>2
    <3> QED
      BY <3>1
  <2> QED
    BY <2>1
<1>4. N = Nat
  <2>1. N \subseteq Nat
    OBVIOUS
  <2> HIDE DEF N
  <2> QED
    BY <1>2, <1>3, <2>1, EveryNatural
<1>5. ASSUME NEW S \in SUBSET L PROVE S \in B
  <2>1. Cardinality(S) \in N /\ Cardinality(S) <= Cardinality(S)
    BY <1>1, <1>4
  <2> QED
    BY <2>1
<1> QED
  BY <1>5

LEMMA LogPicked == \A S : S # {} => LogPick(S) \in S
  BY DEF LogPick

LEMMA LogAddsExist ==
  ASSUME NEW L \in SUBSET LogRow, IsFiniteSet(L)
  PROVE  \E g \in [SUBSET L -> Nat] : LogAdds(L, g)
<1> DEFINE Upto(g, n) == \A S \in SUBSET L :
                           Cardinality(S) <= n => g[S] = LogAt(g, S)
           Good(n) == \E g \in [SUBSET L -> Nat] : Upto(g, n)
           N == {n \in Nat : Good(n)}
<1>1. \A S \in SUBSET L : /\ IsFiniteSet(S) /\ Cardinality(S) \in Nat
                          /\ (S = {} <=> Cardinality(S) = 0)
                          /\ Cardinality(S) <= Cardinality(L)
  BY FS_Subset, FS_EmptySet, FS_CardinalityType
<1>2. ASSUME NEW S \in SUBSET L, S # {}
      PROVE  /\ LogPick(S) \in S /\ LogPick(S).reward \in Nat
             /\ S \ {LogPick(S)} \in SUBSET L
             /\ Cardinality(S \ {LogPick(S)}) = Cardinality(S) - 1
  <2>1. LogPick(S) \in S
    BY <1>2, LogPicked
  <2> QED
    BY <1>1, <2>1, FS_RemoveElement DEF LogRow
<1>3. 0 \in N
  <2> DEFINE g == [S \in SUBSET L |-> 0]
  <2>1. g \in [SUBSET L -> Nat]
    OBVIOUS
  <2>2. Upto(g, 0)
    BY <1>1 DEF LogAt
  <2> HIDE DEF g, Upto
  <2> QED
    BY <2>1, <2>2
<1>4. ASSUME NEW n \in N PROVE n + 1 \in N
  <2>1. PICK g \in [SUBSET L -> Nat] : Upto(g, n)
    OBVIOUS
  <2> DEFINE h == [S \in SUBSET L |-> LogAt(g, S)]
  <2>2. ASSUME NEW S \in SUBSET L PROVE LogAt(g, S) \in Nat
    <3> DEFINE y == LogPick(S)
    <3>1. S # {} => y.reward \in Nat /\ S \ {y} \in SUBSET L
      BY <1>2
    <3> HIDE DEF y
    <3>2. S # {} => y.reward \in Nat /\ g[S \ {y}] \in Nat
      BY <3>1
    <3> QED
      BY <3>2 DEF LogAt, y
  <2>3. h \in [SUBSET L -> Nat]
    BY <2>2, Zenon
  <2>4. ASSUME NEW S \in SUBSET L, Cardinality(S) <= n
        PROVE  h[S] = g[S]
    BY <2>1, <2>4
  <2>5. ASSUME NEW S \in SUBSET L, Cardinality(S) <= n + 1
        PROVE  h[S] = LogAt(h, S)
    <3>1. CASE S = {}
      BY <3>1 DEF LogAt
    <3>2. CASE S # {}
      <4> DEFINE R == S \ {LogPick(S)}
      <4>1. R \in SUBSET L /\ Cardinality(R) <= n
        BY <1>1, <1>2, <2>5, <3>2
      <4>2. h[S] = LogAt(g, S)
        OBVIOUS
      <4> HIDE DEF h, R
      <4>3. h[R] = g[R]
        BY <2>4, <4>1
      <4> QED
        BY <3>2, <4>2, <4>3 DEF LogAt, R
    <3> QED
      BY <3>1, <3>2
  <2> HIDE DEF h
  <2> QED
    BY <2>3, <2>5
<1>5. Cardinality(L) \in N
  <2>1. N \subseteq Nat
    OBVIOUS
  <2>2. N = Nat
    <3> HIDE DEF N
    <3> QED
      BY <1>3, <1>4, <2>1, EveryNatural
  <2> QED
    BY <1>1, <2>2
<1>6. PICK g \in [SUBSET L -> Nat] : Upto(g, Cardinality(L))
  BY <1>5
<1> QED
  BY <1>1, <1>6 DEF LogAdds

(* The sum over some rows is that of any such function.                    *)
LEMMA LogTotalIs ==
  ASSUME NEW L \in SUBSET LogRow, IsFiniteSet(L),
         NEW g, LogAdds(L, g), NEW M \in SUBSET L
  PROVE  LogTotal(M) = g[M]
<1>1. M \in SUBSET LogRow /\ IsFiniteSet(M)
  BY FS_Subset
<1> DEFINE G == LogSum(M)
<1>2. LogAdds(M, G)
  <2>1. PICK h \in [SUBSET M -> Nat] : LogAdds(M, h)
    BY <1>1, LogAddsExist
  <2>2. LogSums(M, h)
    BY <2>1 DEF LogAdds, LogSums
  <2>3. LogSums(M, G)
    BY <2>2 DEF LogSum
  <2> HIDE DEF G
  <2> QED
    BY <2>3 DEF LogSums, LogAdds
<1> HIDE DEF G
<1> DEFINE B == {S \in SUBSET M : G[S] = g[S]}
<1>3. {} \in B
  BY <1>2 DEF LogAdds, LogAt
<1>4. ASSUME NEW S \in SUBSET M, \A z \in S : S \ {z} \in B
      PROVE  S \in B
  <2>1. CASE S = {}
    BY <1>3, <2>1
  <2>2. CASE S # {}
    <3>1. G[S \ {LogPick(S)}] = g[S \ {LogPick(S)}]
      BY <1>4, <2>2, LogPicked
    <3>2. G[S] = LogAt(G, S) /\ g[S] = LogAt(g, S)
      BY <1>2 DEF LogAdds
    <3> QED
      BY <2>2, <3>1, <3>2 DEF LogAt
  <2> QED
    BY <2>1, <2>2
<1>5. SUBSET M \subseteq B
  <2> HIDE DEF B
  <2> QED
    BY <1>1, <1>3, <1>4, EveryPart
<1> QED
  BY <1>5 DEF LogTotal, G

LEMMA LogTotalType ==
  ASSUME NEW L \in SUBSET LogRow, IsFiniteSet(L)
  PROVE  LogTotal(L) \in Nat
<1>1. PICK g \in [SUBSET L -> Nat] : LogAdds(L, g)
  BY LogAddsExist
<1>2. LogTotal(L) = g[L]
  BY <1>1, LogTotalIs
<1> QED
  BY <1>2

LEMMA LogTotalEmpty == LogTotal({}) = 0
<1>1. {} \in SUBSET LogRow /\ IsFiniteSet({})
  BY FS_EmptySet
<1>2. PICK g \in [SUBSET {} -> Nat] : LogAdds({}, g)
  BY <1>1, LogAddsExist
<1>3. LogTotal({}) = g[{}]
  BY <1>1, <1>2, LogTotalIs
<1> QED
  BY <1>2, <1>3 DEF LogAdds, LogAt

(* The order of the rows does not matter: a new one adds its reward.       *)
LEMMA LogTotalAdd ==
  ASSUME NEW L \in SUBSET LogRow, IsFiniteSet(L), NEW x \in LogRow, x \notin L
  PROVE  LogTotal(L \cup {x}) = LogTotal(L) + x.reward
<1> DEFINE M == L \cup {x}
<1>1. M \in SUBSET LogRow /\ IsFiniteSet(M)
  BY FS_AddElement
<1>2. M \ {x} = L /\ x \in M /\ L \in SUBSET M /\ M \in SUBSET M
  OBVIOUS
<1> HIDE DEF M
<1>3. PICK g \in [SUBSET M -> Nat] : LogAdds(M, g)
  BY <1>1, LogAddsExist
<1>4. \A z \in M : z.reward \in Nat
  BY <1>1 DEF LogRow
<1> DEFINE B == {S \in SUBSET M : \A z \in S : g[S] = z.reward + g[S \ {z}]}
<1>5. {} \in B
  OBVIOUS
<1>6. ASSUME NEW S \in SUBSET M, \A z \in S : S \ {z} \in B
      PROVE  S \in B
  <2>1. ASSUME NEW z \in S PROVE g[S] = z.reward + g[S \ {z}]
    <3> DEFINE y == LogPick(S)
    <3>1. y \in S /\ g[S] = y.reward + g[S \ {y}]
      BY <1>3, <2>1, LogPicked DEF LogAdds, LogAt
    <3>2. CASE y = z
      BY <3>1, <3>2
    <3>3. CASE y # z
      <4> HIDE DEF y
      <4>1. z \in S \ {y} /\ y \in S \ {z}
        BY <3>1, <3>3
      <4>2. g[S \ {y}] = z.reward + g[(S \ {y}) \ {z}]
        BY <1>6, <3>1, <4>1
      <4>3. g[S \ {z}] = y.reward + g[(S \ {z}) \ {y}]
        BY <1>6, <4>1
      <4>4. (S \ {y}) \ {z} = (S \ {z}) \ {y} /\ (S \ {y}) \ {z} \in SUBSET M
        OBVIOUS
      <4>5. y.reward \in Nat /\ z.reward \in Nat /\ g[(S \ {y}) \ {z}] \in Nat
        BY <1>4, <3>1, <4>4
      <4> DEFINE ry == y.reward
                 rz == z.reward
                 gs == g[S]
                 gy == g[S \ {y}]
                 gz == g[S \ {z}]
                 gr == g[(S \ {y}) \ {z}]
      <4>6. /\ gs = ry + gy /\ gy = rz + gr /\ gz = ry + gr
            /\ ry \in Nat /\ rz \in Nat /\ gr \in Nat
        BY <3>1, <4>2, <4>3, <4>4, <4>5, Zenon
      <4> HIDE DEF ry, rz, gs, gy, gz, gr
      <4>7. gs = rz + gz
        BY <4>6
      <4> QED
        BY <4>7, Zenon DEF rz, gs, gz
    <3> QED
      BY <3>2, <3>3
  <2> QED
    BY <2>1
<1>7. M \in B
  <2> HIDE DEF B
  <2>1. \A S \in SUBSET M : (\A z \in S : S \ {z} \in B) => S \in B
    BY <1>6
  <2>2. {} \in B /\ IsFiniteSet(M)
    BY <1>1, <1>5
  <2>3. SUBSET M \subseteq B
    BY <2>1, <2>2, EveryPart, SMTT(30)
  <2> QED
    BY <1>2, <2>3
<1>8. g[M] = x.reward + g[L] /\ g[L] \in Nat
  BY <1>2, <1>7
<1>9. LogTotal(M) = g[M] /\ LogTotal(L) = g[L]
  BY <1>1, <1>2, <1>3, LogTotalIs
<1> QED
  BY <1>4, <1>2, <1>8, <1>9 DEF M

(* The rows of those u referred; and what a user has earned.               *)
Logged(log, u) == {l \in log : ReferredBy[l.referee] = u}
Earning ==
  /\ IsFiniteSet(referralLog)
  /\ \A u \in Users : /\ earnings[u] = Worth(ledger[u], Referrals)
                      /\ earnings[u] = LogTotal(Logged(referralLog, u))

LEMMA InitEarning == Init => Earning
<1> SUFFICES ASSUME Init PROVE Earning
  OBVIOUS
<1>1. referralLog = {} /\ IsFiniteSet(referralLog)
  BY FS_EmptySet DEF Init
<1>2. ASSUME NEW u \in Users
      PROVE  /\ earnings[u] = Worth(ledger[u], Referrals)
             /\ earnings[u] = LogTotal(Logged(referralLog, u))
  <2>1. ledger[u] = <<>> /\ earnings[u] = 0
    BY DEF Init
  <2>2. Logged(referralLog, u) = {}
    BY <1>1 DEF Logged
  <2> QED
    BY <2>1, <2>2, WorthEmpty, LogTotalEmpty
<1> QED
  BY <1>1, <1>2 DEF Earning

LEMMA CommitEarning ==
  ASSUME IInv, Earning, NEW d \in 1..MaxDeposits, Commit(d)
  PROVE  Earning'
<1> DEFINE t == tx[d]
           u == Owner(d)
           r == Referrer(d)
           x == [referee |-> u, reward |-> t.reward]
<1>1. /\ d \in DOMAIN deposits /\ u \in Users /\ r = ReferredBy[u]
  BY Committing, DepositTypes DEF Referrer
<1>2. /\ t.reward \in Nat
      /\ IF t.referred THEN ~hasDeposited[u] /\ r # NoUser ELSE t.reward = 0
      /\ \A w \in Users : Worth(ledger'[w], Referrals)
                            = Worth(ledger[w], Referrals)
                                + IF w = r THEN t.reward ELSE 0
  BY CommitWorths
<1>3. /\ referralLog' = referralLog \cup (IF t.referred THEN {x} ELSE {})
      /\ \A w \in Users :
           earnings'[w] = earnings[w] + IF w = r THEN t.reward ELSE 0
  BY DEF Commit, Earn
<1>4. /\ referralLog \in SUBSET LogRow /\ IsFiniteSet(referralLog)
      /\ \A l \in referralLog : hasDeposited[l.referee]
  BY DEF IInv, Tables, RefereesDeposited, Earning, LogRow
<1>5. x \in LogRow /\ x.referee = u /\ x.reward = t.reward
  BY <1>1, <1>2 DEF LogRow
<1> HIDE DEF x, u, r
<1>6. IsFiniteSet(referralLog')
  <2>1. IsFiniteSet(referralLog \cup {x})
    BY <1>4, FS_AddElement
  <2> QED
    BY <1>3, <1>4, <2>1
<1>7. ASSUME NEW w \in Users
      PROVE  /\ earnings'[w] = Worth(ledger'[w], Referrals)
             /\ earnings'[w] = LogTotal(Logged(referralLog', w))
  <2> DEFINE L == Logged(referralLog, w)
             M == Logged(referralLog', w)
  <2>1. earnings[w] = Worth(ledger[w], Referrals) /\ earnings[w] = LogTotal(L)
    BY DEF Earning
  <2>2. earnings'[w] = Worth(ledger'[w], Referrals)
    BY <1>2, <1>3, <2>1
  <2>3. L \in SUBSET LogRow /\ IsFiniteSet(L) /\ L \subseteq referralLog
    BY <1>4, FS_Subset DEF Logged
  <2>4. CASE t.referred /\ w = r
    <3>1. x \notin L
      BY <1>2, <1>4, <1>5, <2>3, <2>4
    <3>2. M = L \cup {x}
      BY <1>1, <1>3, <1>5, <2>4 DEF Logged
    <3>3. LogTotal(M) = LogTotal(L) + t.reward
      BY <1>5, <2>3, <3>1, <3>2, LogTotalAdd
    <3> QED
      BY <1>3, <2>1, <2>2, <2>4, <3>3
  <2>5. CASE ~(t.referred /\ w = r)
    <3>1. M = L
      BY <1>1, <1>3, <1>5, <2>5 DEF Logged
    <3>2. LogTotal(L) \in Nat
      BY <2>3, LogTotalType
    <3>3. earnings'[w] = earnings[w]
      BY <1>2, <1>3, <2>1, <2>5, <3>2
    <3> QED
      BY <2>1, <2>2, <3>1, <3>3
  <2> QED
    BY <2>4, <2>5
<1> QED
  BY <1>6, <1>7 DEF Earning

LEMMA StepEarning == IInv /\ Telling /\ Earning /\ [Next]_vars => Earning'
<1> SUFFICES ASSUME IInv, Telling, Earning, [Next]_vars PROVE Earning'
  OBVIOUS
<1>1. CASE \E d \in 1..MaxDeposits : Commit(d)
  BY <1>1, CommitEarning
<1>2. CASE \A d \in 1..MaxDeposits : ~Commit(d)
  <2>1. UNCHANGED <<ledger, earnings, referralLog>>
    BY <1>2, OnlyCommitSettles DEF NoneSettled
  <2> QED
    BY <2>1 DEF Earning
<1> QED
  BY <1>1, <1>2

(* A referrer's totalReferralEarnings, the referral rows of their wallet   *)
(* and the rewards logged for those they referred agree, though each       *)
(* referee's own transaction writes a part of them.                        *)
THEOREM EarningsAgree == Spec => []EarningsMatchLog
<1>1. IInv /\ Earning => EarningsMatchLog
  <2> SUFFICES ASSUME IInv, Earning PROVE EarningsMatchLog
    OBVIOUS
  <2>1. ASSUME NEW u \in Users
        PROVE  /\ earnings[u] = Total(u, LAMBDA r : r.kind = "referral")
               /\ Total(u, LAMBDA r : r.kind = "referral")
                    = (LogSum(Logged(referralLog, u)))[Logged(referralLog, u)]
    <3>1. ledger[u] \in Seq(RewardLine)
      BY DEF IInv, Tables
    <3>2. Total(u, LAMBDA r : r.kind = "referral") = Worth(ledger[u], Referrals)
      BY <3>1, TotalsAreWorths, Zenon
    <3>3. /\ earnings[u] = Worth(ledger[u], Referrals)
          /\ earnings[u]
               = (LogSum(Logged(referralLog, u)))[Logged(referralLog, u)]
      BY DEF Earning, LogTotal
    <3> QED
      BY <3>2, <3>3, Zenon
  <2> QED
    BY <2>1, Zenon DEF EarningsMatchLog, LogSum, LogSums, LogAt, LogPick, Logged
<1>2. IInv /\ Telling /\ Earning /\ [Next]_vars => Telling' /\ Earning'
  BY StepTells, StepEarning
<1> QED
  BY <1>1, <1>2, InitTells, InitEarning, Invariance, PTL DEF Spec
=============================================================================
