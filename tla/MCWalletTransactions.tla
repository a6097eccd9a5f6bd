----------------------- MODULE MCWalletTransactions -----------------------
EXTENDS WalletTransactions

(* A credit, a debit and the zero amount adjustWalletBalance refuses. *)
MCAmounts == {0, 2, -1}
===========================================================================
