----------------------------- MODULE Scoreboard -----------------------------
(***************************************************************************)
(* What AgentGateRegistry promises about a service's score, whatever data  *)
(* structure keeps it: every recorded outcome counts once, the counters    *)
(* never move otherwise (they pin at their width), and the outcomes shown  *)
(* are the latest few, newest first.                                       *)
(***************************************************************************)
EXTENDS Integers, Sequences

CONSTANTS
  ServiceId,
  Outcome,          \* attestations; each has a Boolean field "success"
  MaxAttestations,  \* how many outcomes are shown
  MaxCalls          \* the largest value a counter can hold

VARIABLES totalCalls, successCalls, recent

scoreVars == <<totalCalls, successCalls, recent>>

Init ==
  /\ totalCalls = [id \in ServiceId |-> 0]
  /\ successCalls = [id \in ServiceId |-> 0]
  /\ recent = [id \in ServiceId |-> <<>>]

Latest(s) == SubSeq(s, 1, IF Len(s) < MaxAttestations THEN Len(s) ELSE MaxAttestations)

Bump(n) == IF n = MaxCalls THEN n ELSE n + 1

Score(id, outcome) ==
  /\ totalCalls' = [totalCalls EXCEPT ![id] = Bump(@)]
  /\ successCalls' = IF outcome.success
                       THEN [successCalls EXCEPT ![id] = Bump(@)]
                       ELSE successCalls
  /\ recent' = [recent EXCEPT ![id] = Latest(<<outcome>> \o @)]

Next == \E id \in ServiceId, outcome \in Outcome : Score(id, outcome)

Spec == Init /\ [][Next]_scoreVars

=============================================================================
