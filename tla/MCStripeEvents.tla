---- MODULE MCStripeEvents ----
EXTENDS StripeEvents, TLC
Symmetric == Permutations(Delivery)
====
