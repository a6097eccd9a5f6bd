--------------------------- MODULE MCFulfilment ---------------------------
(* Fulfilment on one customer's orders.                                    *)
EXTENDS Fulfilment, TLC
MCSymmetry == Permutations(Orders) \cup Permutations(Jobs)
=============================================================================
