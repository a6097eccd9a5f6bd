--------------------------- MODULE AuditedWallets ---------------------------
(***************************************************************************)
(* What the wallet service promises: every committed change of the wallets *)
(* only appends rows, each row continues the one before it, no row leaves  *)
(* a wallet negative, and the stored balance is the last row's.            *)
(***************************************************************************)
EXTENDS Ledger

CONSTANT Users

VARIABLES balance, ledger

vars == <<balance, ledger>>

Init == /\ balance = [u \in Users |-> 0]
        /\ ledger = [u \in Users |-> <<>>]

(* `new` is `old` followed by rows that continue it. *)
Extends(old, new) ==
  /\ Len(old) <= Len(new)
  /\ \A i \in 1..Len(old) : new[i] = old[i]
  /\ ChainedFrom(0, new)

(* One committed transaction, over any number of wallets. *)
Transact ==
  \A u \in Users : /\ Extends(ledger[u], ledger'[u])
                   /\ balance'[u] = FinalBalance(0, ledger'[u])

Spec == Init /\ [][Transact]_vars
=============================================================================
