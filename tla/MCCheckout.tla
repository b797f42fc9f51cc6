----------------------------- MODULE MCCheckout -----------------------------
(* The checkout on its own, for the price it shows.                        *)
EXTENDS Checkout, TLC

CheckoutSymmetry == Permutations(Calls)
=============================================================================
