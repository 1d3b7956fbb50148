----------------------------- MODULE TrustTier ------------------------------
(***************************************************************************)
(* The trust tier of a score, as the contract computes it to enforce a     *)
(* policy and as the shared package computes it to show a badge.           *)
(***************************************************************************)
EXTENDS Integers

\* SpendGuard._tierOf: 0 new, 1 reliable, 2 trusted.
TierOf(total, success) ==
  IF total < 5 THEN 0
  ELSE IF total >= 25 /\ success * 100 >= total * 95 THEN 2
  ELSE IF success * 10 >= total * 9 THEN 1 ELSE 0

\* trustTier of packages/shared, on the same scale; a score with more successes
\* than calls is malformed and earns no badge.
Badge(total, success) ==
  IF success > total THEN 0
  ELSE IF total < 5 THEN 0
  ELSE IF total >= 25 /\ success * 100 >= total * 95 THEN 2
  ELSE IF success * 10 >= total * 9 THEN 1 ELSE 0

=============================================================================
