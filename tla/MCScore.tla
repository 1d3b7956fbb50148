------------------------------ MODULE MCScore ------------------------------
(***************************************************************************)
(* The score of one service, on the contracts and on the devnet, with only *)
(* the transactions that move it: its registration, payments and what a    *)
(* gateway attests.  The owner's transactions are left to MCRegistry.      *)
(***************************************************************************)
EXTENDS Devnet, TLC

CONSTANTS owner, witness

Symmetry == Permutations(Nonce)

\* One owner, who is also the payee, as wrap registers by default, and one
\* witness; money moves to the payee or to oneself; the faucet gives once.
Focus ==
  /\ \A id \in 1 .. servicesCount :
       <<services[id].owner, services[id].paymentTarget, services[id].attestor>>
         = <<owner, owner, witness>>
  /\ \A i \in DOMAIN transfers : transfers[i].tx[4] \in {owner, transfers[i].tx[3]}
  /\ faucetTotal \in {0, MaxFaucet}

ScoreNext == SteadyNext /\ Focus'

ScoreSpec == SteadyInit /\ [][ScoreNext]_<<vars, devnetVars>>

=============================================================================
