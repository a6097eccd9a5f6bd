------------------------------ MODULE Vending ------------------------------
(***************************************************************************)
(* What the store promises: a machine that keeps codes on a shelf and      *)
(* sells them out of prepaid purses.  A request, named by its buyer and    *)
(* key, is sold once, for one code that leaves the shelf with it (or for   *)
(* an order that needs none), at the price the buyer's purse goes down by; *)
(* and money comes only from payments.                                     *)
(***************************************************************************)
EXTENDS Naturals

CONSTANTS Customers, NoCode

VARIABLES shelf,    \* the codes for sale
          paidIn,   \* what each customer has paid so far
          purse,    \* what each has left
          sold      \* the sales: buyer, key, code and price

machine == <<shelf, paidIn, purse, sold>>

VendingInit ==
  /\ sold = {}
  /\ purse = paidIn

(* Codes are put on the shelf, but none that was sold. *)
Restock ==
  /\ shelf \subseteq shelf'
  /\ \A s \in sold : s.code \notin shelf' \ shelf
  /\ UNCHANGED <<paidIn, purse, sold>>

(* Codes are taken off the shelf unsold. *)
Withdraw ==
  /\ shelf' \subseteq shelf
  /\ UNCHANGED <<paidIn, purse, sold>>

(* u's purse after a payment, if there was one, and a price of x. *)
After(u, x) ==
  /\ paidIn' = [paidIn EXCEPT ![u] = paidIn'[u]] /\ paidIn'[u] >= paidIn[u]
  /\ purse' = [purse EXCEPT ![u] = @ + (paidIn'[u] - paidIn[u]) - x]
  /\ purse'[u] >= 0

PayIn(u) == After(u, 0) /\ UNCHANGED <<shelf, sold>>

Sell(s) ==
  /\ sold' = sold \cup {s}
  /\ \A old \in sold : old.buyer # s.buyer \/ old.key # s.key
  /\ s.code \in shelf \cup {NoCode}
  /\ shelf' = shelf \ {s.code}
  /\ After(s.buyer, s.paid)

VendingNext ==
  \/ Restock \/ Withdraw
  \/ \E u \in Customers : PayIn(u)
  \/ \E s \in sold' \ sold : Sell(s)

VendingSpec == VendingInit /\ [][VendingNext]_machine
=============================================================================
