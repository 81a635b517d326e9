----------------------------- MODULE MCBilling -----------------------------
(* Billing with interchangeable users, customers, subscriptions, handlers. *)
EXTENDS Billing, TLC

Symmetry == Permutations(Users) \cup Permutations(Customers)
            \cup Permutations(Subscriptions) \cup Permutations(Handlers)
=============================================================================
