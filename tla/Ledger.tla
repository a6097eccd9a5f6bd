------------------------------- MODULE Ledger -------------------------------
(***************************************************************************)
(* The wallet ledger of apps/api: a wallet is a balance and the sequence   *)
(* of its WalletTransaction rows, oldest first.  A row keeps the signed    *)
(* amount and the balance it left (balanceAfter), so a ledger can be       *)
(* audited row by row.  Pure operators; every module that moves money      *)
(* uses them, and WalletProofs proves what they preserve.                  *)
(***************************************************************************)
EXTENDS Integers, Sequences

LedgerRow == [amount : Int, balanceAfter : Int]

(* The balance after every row of l, for a wallet that started at b. *)
FinalBalance(b, l) == IF Len(l) = 0 THEN b ELSE l[Len(l)].balanceAfter

(* What row i of l found in the wallet. *)
BalanceBefore(b, l, i) == IF i = 1 THEN b ELSE l[i - 1].balanceAfter

(* Every row adds its amount to what the row before it left, and never     *)
(* leaves the wallet negative.                                             *)
ChainedFrom(b, l) ==
  \A i \in 1..Len(l) :
     /\ l[i].balanceAfter = BalanceBefore(b, l, i) + l[i].amount
     /\ l[i].balanceAfter >= 0

(* Mutant: the row is written without its amount. *)
RowWithoutAmount(b, amount) == [balanceAfter |-> b + amount]

(* wallet.service.ts, adjustWalletBalance: the row it writes for `amount`  *)
(* on a wallet whose locked balance is b.                                  *)
Row(b, amount) == [amount |-> amount, balanceAfter |-> b + amount]

(* The two early exits of adjustWalletBalance: "amount cannot be zero" and *)
(* "Insufficient wallet balance".                                          *)
Adjustable(b, amount) == amount # 0 /\ b + amount >= 0
=============================================================================
