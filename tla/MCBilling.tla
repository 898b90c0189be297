----------------------------- MODULE MCBilling ------------------------------
(* Billing for TLC: a few subscriptions of one customer. *)
EXTENDS Billing, TLC

CONSTANTS a1, a2, a3, a4, h1, h2

Symmetry == Permutations(Sub) \cup Permutations(Handler)
=============================================================================
