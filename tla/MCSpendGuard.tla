---------------------------- MODULE MCSpendGuard ----------------------------
(***************************************************************************)
(* SpendGuard with one policy already open and allowed the one service; a  *)
(* second one may be opened by the same owner.  Configurations and the     *)
(* registry's answers are named here and chosen by the cfg.                *)
(***************************************************************************)
EXTENDS SpendGuard, TLC

CONSTANTS gate, payee

Symmetry == Permutations(Nonce)

\* Two approved calls of one unit in any two ticks, three in all.
Steady ==
  [gate |-> gate, budget |-> 3, perCallCap |-> 1,
   window |-> 2, maxCallsInWindow |-> 2, minTrustTier |-> 0]

\* One unit in all, for a trusted service only.
Picky == [Steady EXCEPT !.budget = 1, !.maxCallsInWindow = 1, !.minTrustTier = 2]

\* Refused by openPolicy: a cap above the budget, a window of nothing, no gate,
\* no such tier.
Broken ==
  { [Steady EXCEPT !.perCallCap = 4], [Steady EXCEPT !.window = 0],
    [Steady EXCEPT !.gate = NoOne], [Steady EXCEPT !.minTrustTier = 3] }

Configs == {Picky} \cup Broken

Listed ==
  [payTo |-> payee, price |-> 1, active |-> TRUE, totalCalls |-> 25, successCalls |-> 24]

\* The same service with a score that has slipped.
Answers == {Listed, [Listed EXCEPT !.totalCalls = 26]}

MCInit ==
  /\ now = 0
  /\ frames = <<>>
  /\ world = [ policiesCount |-> 1,
               policies |-> [id \in PolicyId |->
                 IF id = 1
                   THEN [NoPolicy EXCEPT
                          !.owner = payee, !.gate = gate, !.budget = Steady.budget,
                          !.perCallCap = Steady.perCallCap, !.window = Steady.window,
                          !.maxCallsInWindow = Steady.maxCallsInWindow]
                   ELSE NoPolicy],
               serviceAllowed |-> {1} \X ServiceId, seenRefs |-> {}, settled |-> {},
               callTimes |-> [id \in PolicyId |-> <<>>],
               ringCursor |-> [id \in PolicyId |-> 0],
               held |-> 0, deposited |-> 0, ledger |-> <<>>,
               terms |-> [service \in ServiceId |-> Listed] ]

\* Every transaction; one account owns both policies, pauses the first and
\* allows and disallows the service for the second.
MCNext ==
  \/ \E c \in Config : OpenPolicy(payee, c)
  \/ \E id \in PolicyId, value \in Amount : Deposit(id, value)
  \/ \E sender, payTo \in Account, id \in PolicyId, service \in ServiceId,
        amount \in Amount, nonce \in Nonce :
       Debit(sender, id, service, amount, payTo, nonce)
  \/ \E sender, to \in Account, id \in PolicyId, amount \in Amount :
       Withdraw(sender, id, amount, to)
  \/ CallReturns
  \/ CallReverts
  \/ \E sender \in Account, service \in ServiceId, allowed \in BOOLEAN :
       SetServiceAllowed(sender, 2, service, allowed)
  \/ \E sender \in Account, paused \in BOOLEAN : Pause(sender, 1, paused)
  \/ \E service \in ServiceId, terms \in Terms : RegistryMoves(service, terms)
  \/ Tick

MCSpec == MCInit /\ [][MCNext]_vars

=============================================================================
