-------------------------------- MODULE Money --------------------------------
(***************************************************************************)
(* Fractions in one customer's wallet.  The columns are Decimal(18, 4), so *)
(* money is counted in units of 0.0001; what the code computes may have    *)
(* more places and is rounded when a column is written, each column by     *)
(* itself.  An order is debited by its exact price, n thousandths of a     *)
(* unit, and refunded and re-charged by the charge its row kept.  The      *)
(* ledger is its sum; interleavings are WalletTransactions' subject.       *)
(***************************************************************************)
EXTENDS Integers, Sequences, FiniteSets

CONSTANTS Rates,        \* prices per 1000, in units
          Lots,         \* quantities ordered
          TopUps,       \* principals of deposits, in units
          Percents,     \* bonuses, in hundredths of a percent; 0 is none
          MaxBookings   \* bound on what is booked in the wallet

(* Prices and quantities are numbers; a deposit brings something. *)
ASSUME MoneyAssumption ==
  /\ Rates \subseteq Nat /\ Lots \subseteq Nat /\ Percents \subseteq Nat
  /\ TopUps \subseteq Nat \ {0} /\ MaxBookings \in Nat

VARIABLES stored,     \* Wallet.balance
          told,       \* the sum of WalletTransaction.amount
          bought,     \* orders: exact price, charge column, ledger rows' sum
          bookings    \* what may still be booked

money == <<stored, told, bought, bookings>>

(* Prices are per thousand; a percentage has two decimals. *)
Thousand == 1000
TenThousand == 10000

(* n / d in a column: rounded, a half away from zero. *)
Rounded(n, d) == IF n >= 0 THEN (2 * n + d) \div (2 * d)
                 ELSE -((d - 2 * n) \div (2 * d))

(* The charge column of an order that costs n thousandths of a unit. *)
Charge1000(n) == Rounded(n, Thousand)

(* adjustWalletBalance by n / d on the balance b: its refusals compare the *)
(* exact numbers, ...                                                      *)
Covers(b, n, d) == n # 0 /\ b * d + n >= 0

(* ... and the balance it writes is rounded after the addition. *)
Adjusted(b, n, d) == Rounded(b * d + n, d)

Book == bookings > 0 /\ bookings' = bookings - 1

Adjust(n, d) ==
  /\ Book
  /\ Covers(stored, n, d)
  /\ stored' = Adjusted(stored, n, d)
  /\ told' = told + Rounded(n, d)

MoneyInit ==
  stored = 0 /\ told = 0 /\ bought = <<>> /\ bookings \in {0, MaxBookings}

(* placeOrderInTransaction: the row keeps the charge, the wallet pays the  *)
(* exact price.                                                            *)
PlaceOrder(rate, lot) ==
  LET exact == rate * lot
  IN /\ Adjust(-exact, Thousand)
     /\ bought' = Append(bought,
          [exact |-> exact, charge |-> Charge1000(exact),
           status |-> "PENDING", net |-> Rounded(-exact, Thousand)])

(* The statuses an order is refunded at; a failed one can be resent. *)
Terminal == {"CANCELED", "FAILED"}

(* updateOrderStatus: the refund of a terminated order, whose charge is    *)
(* read from its row.  A charge of nothing is refused with it.             *)
RefundOrder(o, status) ==
  /\ bought[o].status = "PENDING"
  /\ Adjust(bought[o].charge, 1)
  /\ bought' = [bought EXCEPT ![o].status = status,
                              ![o].net = @ + bought[o].charge]

(* Mutant: the price is computed again. *)
RechargeExactly(o) ==
  /\ bought[o].status = "FAILED"
  /\ Adjust(-bought[o].exact, Thousand)
  /\ bought' = [bought EXCEPT ![o].status = "PENDING",
                  ![o].net = @ + Rounded(-bought[o].exact, Thousand)]

(* resendOrderToProvider: the re-charge of a failed order. *)
RechargeOrder(o) ==
  /\ bought[o].status = "FAILED"
  /\ Adjust(-bought[o].charge, 1)
  /\ bought' = [bought EXCEPT ![o].status = "PENDING",
                              ![o].net = @ - bought[o].charge]

(* creditApprovedDeposit: the principal, then a percentage of it. *)
ApproveDeposit(amount, percent) ==
  LET bonus == amount * percent
  IN /\ Book
     /\ stored' = Adjusted(stored + amount, bonus, TenThousand)
     /\ told' = told + amount + Rounded(bonus, TenThousand)
     /\ UNCHANGED bought

MoneyNext ==
  \/ \E rate \in Rates, lot \in Lots : PlaceOrder(rate, lot)
  \/ \E o \in DOMAIN bought :
        RechargeOrder(o) \/ \E status \in Terminal : RefundOrder(o, status)
  \/ \E amount \in TopUps, percent \in Percents :
        ApproveDeposit(amount, percent)

MoneySpec == MoneyInit /\ [][MoneyNext]_money

-----------------------------------------------------------------------------

Bought == [exact : Nat, charge : Nat, status : {"PENDING"} \cup Terminal,
           net : Int]

(* The columns hold whole units, and the wallet is never overdrawn although *)
(* what is compared is exact and what is written is rounded.                *)
MoneyTypeOK ==
  stored \in Nat /\ told \in Int /\ bought \in Seq(Bought) /\ bookings \in Nat

(* The price of an order ends in exactly half a unit. *)
Halved(o) == bought[o].exact % 1000 = 500

(* The balance and the ledger it is to be reconstructed from differ by one *)
(* unit for each order whose price ended in half a unit (the balance is    *)
(* rounded up, the debit's amount away from zero), and by nothing else:    *)
(* bonuses of any fraction, refunds and re-charges add no difference.      *)
DriftIsHalves ==
  stored = told + Cardinality({o \in DOMAIN bought : Halved(o)})

(* However often an order is refunded and re-charged, its ledger rows      *)
(* cancel while it is refunded and amount to its charge while it is paid.  *)
OrderRowsCancel ==
  \A o \in DOMAIN bought :
    bought[o].net = IF bought[o].status = "PENDING" THEN -bought[o].charge ELSE 0

(* What rounding does to the books is known to the unit. *)
FractionsAccounted == DriftIsHalves /\ OrderRowsCancel
=============================================================================
