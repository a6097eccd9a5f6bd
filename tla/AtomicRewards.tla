---------------------------- MODULE AtomicRewards ----------------------------
(***************************************************************************)
(* What the reward programme promises: a deposit is approved, and          *)
(* everything it earns is paid, in one indivisible step that sees every    *)
(* earlier approval.  Its own customer gets the amount, the bonus of the   *)
(* payment method and of at most one coupon not used before; and only the  *)
(* customer's first approved deposit earns the first-deposit bonus, the    *)
(* referee's bonus and the referrer's reward.                              *)
(***************************************************************************)
EXTENDS RewardRules

CONSTANTS Users, NoUser, ReferredBy, Amounts, Coupons, NoCoupon,
          Offers, Settings, MethodPercents

VARIABLES
  deposits,      \* [user, amount, status, bonus] of each deposit
  ledger,        \* the rows credited to each wallet
  hasDeposited, earnings, referralLog,
  redemptions    \* the <<coupon, user>> pairs

vars == <<deposits, ledger, hasDeposited, earnings, referralLog, redemptions>>

Init ==
  /\ deposits = <<>>
  /\ ledger = [u \in Users |-> <<>>]
  /\ hasDeposited = [u \in Users |-> FALSE]
  /\ earnings = [u \in Users |-> 0]
  /\ referralLog = {}
  /\ redemptions = {}

Submit ==
  /\ \E u \in Users, a \in Amounts :
       deposits' = Append(deposits, [user |-> u, amount |-> a,
                                     status |-> "PENDING", bonus |-> 0])
  /\ UNCHANGED <<ledger, hasDeposited, earnings, referralLog, redemptions>>

Reject(d) ==
  /\ deposits[d].status = "PENDING"
  /\ deposits' = [deposits EXCEPT ![d].status = "REJECTED"]
  /\ UNCHANGED <<ledger, hasDeposited, earnings, referralLog, redemptions>>

(* Coupon c, on offer o, gives d a bonus; NoCoupon gives none. *)
Redeemed(d, c, o) ==
  IF c = NoCoupon THEN 0 ELSE CouponBonus(o, deposits[d].amount)

Approve(d, s, percent, c, o) ==
  LET u == deposits[d].user
      amount == deposits[d].amount
      first == ~hasDeposited[u]
      referrer == ReferredBy[u]
      referred == first /\ s.referralEnabled /\ referrer # NoUser
      method == Percent(amount, percent)
      coupon == Redeemed(d, c, o)
      start == IF first THEN FirstBonus(s, amount) ELSE 0
      referee == IF referred THEN RefereeBonus(s, amount) ELSE 0
      reward == IF referred THEN ReferrerReward(s, amount) ELSE 0
  IN  /\ deposits[d].status = "PENDING"
      /\ c # NoCoupon => <<c, u>> \notin redemptions
      /\ deposits' = [deposits EXCEPT ![d].status = "APPROVED",
                            ![d].bonus = method + coupon + start + referee]
      /\ ledger' = [w \in Users |-> ledger[w]
              \o (IF w # u THEN <<>>
                  ELSE Line(d, "deposit", amount) \o Line(d, "method", method)
                       \o Line(d, "coupon", coupon) \o Line(d, "first", start)
                       \o Line(d, "referee", referee))
              \o (IF w # referrer THEN <<>> ELSE Line(d, "referral", reward))]
      /\ hasDeposited' = [hasDeposited EXCEPT ![u] = TRUE]
      /\ earnings' = [w \in Users |->
                        earnings[w] + IF w = referrer THEN reward ELSE 0]
      /\ referralLog' = referralLog \cup
           (IF referred THEN {[referee |-> u, reward |-> reward]} ELSE {})
      /\ redemptions' = redemptions \cup
           (IF coupon > 0 THEN {<<c, u>>} ELSE {})

Next ==
  \/ Submit
  \/ \E d \in DOMAIN deposits :
       \/ Reject(d)
       \/ \E s \in Settings, percent \in MethodPercents,
             c \in Coupons \cup {NoCoupon}, o \in Offers :
            Approve(d, s, percent, c, o)

Spec == Init /\ [][Next]_vars
=============================================================================
