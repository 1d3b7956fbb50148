----------------------------- MODULE MCRegistry -----------------------------
(* Registry on a small instance with every transaction of every account. *)
EXTENDS SelfPayment, TLC

Symmetry == Permutations(Account)

=============================================================================
