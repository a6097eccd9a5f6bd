----------------------------- MODULE RewardRules -----------------------------
(***************************************************************************)
(* What an approved deposit earns besides its amount: the sums that        *)
(* creditApprovedDeposit and redeemCouponForDeposit compute from the rows  *)
(* they read.  Money is counted in units in which every percentage of the  *)
(* instance is whole; rounding to the column's scale is not looked at.     *)
(***************************************************************************)
EXTENDS Integers, Sequences

Percent(amount, percent) == (amount * percent) \div 100

(* SiteSettings, the fields of the first-deposit and referral rewards.     *)
SettingsRow == [firstEnabled : BOOLEAN, firstPercent : Nat, firstMin : Nat,
                firstMax : Nat, referralEnabled : BOOLEAN,
                refereePercent : Nat, fixed : BOOLEAN, referrerValue : Nat]

(* What the admin's coupon form holds: the bonus, the limit on its uses,   *)
(* and whether the coupon is active and not expired.                       *)
OfferRow == [fixed : BOOLEAN, value : Nat \ {0}, maxUses : Nat \ {0},
             active : BOOLEAN]

CouponBonus(offer, amount) ==
  IF offer.fixed THEN offer.value ELSE Percent(amount, offer.value)

(* The first-deposit bonus: a percentage, at most firstMax unless that is 0. *)
FirstBonus(s, amount) ==
  LET bonus == Percent(amount, s.firstPercent)
  IN  IF ~s.firstEnabled \/ amount < s.firstMin THEN 0
      ELSE IF s.firstMax > 0 /\ bonus > s.firstMax THEN s.firstMax ELSE bonus

RefereeBonus(s, amount) == Percent(amount, s.refereePercent)

ReferrerReward(s, amount) ==
  IF s.fixed THEN s.referrerValue ELSE Percent(amount, s.referrerValue)

(* A row of the ledger: `kind` stands for its type and note. *)
RewardKinds == {"method", "coupon", "first", "referee"}
RewardLine == [deposit : Nat, kind : RewardKinds \cup {"deposit", "referral"},
               amount : Nat \ {0}]

(* Mutant: the reward is credited even if it is nothing. *)
LineAlways(d, kind, amount) ==
  <<[deposit |-> d, kind |-> kind, amount |-> amount]>>

(* A reward of nothing writes no row. *)
Line(d, kind, amount) ==
  IF amount > 0 THEN <<[deposit |-> d, kind |-> kind, amount |-> amount]>>
                ELSE <<>>
=============================================================================
