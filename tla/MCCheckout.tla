----------------------------- MODULE MCCheckout -----------------------------
EXTENDS Checkout, TLC

MCSymmetry == Permutations(Jobs)
=============================================================================
