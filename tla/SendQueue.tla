----------------------------- MODULE SendQueue ------------------------------
(***************************************************************************)
(* The transactions one signing address sends through Live0gClient, from   *)
(* the call of a write to its answer.  Sends are serialized by a chain of  *)
(* promises and numbered from the pending count of a load-balanced RPC or  *)
(* from a floor the client remembers for a while; receipts are awaited     *)
(* side by side.  The node, its mempool and its blocks are the environment: *)
(* it may fail a request, take a transaction and lose the answer, lag, or  *)
(* drop what it took.  Ages stop counting once nothing depends on them, so *)
(* time itself has no bound.                                               *)
(***************************************************************************)
EXTENDS Integers, Sequences, FiniteSets

CONSTANTS
  Attest,    \* recordAttestation calls, all of them for one payment
  Write,     \* registerService, setActive and transfer calls
  NoCall,
  FloorTtl,  \* NONCE_FLOOR_TTL_MS, in ticks
  Lag,       \* bound: ticks until every node knows what one node knows
  Patience,  \* ZG_RECEIPT_TIMEOUT_MS, in ticks
  MaxDrops   \* bound: transactions the mempool forgets

Call == Attest \cup Write

ASSUME CallAssumption == IsFiniteSet(Call) /\ NoCall \notin Call /\ Attest \cap Write = {}
ASSUME TimeAssumption == FloorTtl \in Nat /\ Lag \in 0 .. FloorTtl /\ Patience \in Nat
ASSUME DropsAssumption == MaxDrops \in Nat

VARIABLES
  queue,     \* sendQueue: the calls whose send has not ended, in order
  phase,     \* how far each call is
  nonceOf,   \* the nonce a call sent, or is about to send, with; -1 = none
  waited,    \* ticks a call has waited for its receipt, up to Patience
  floor,     \* nonceFloor, its age counted up to FloorTtl
  txs,       \* by nonce, the transaction the node holds, mined or not
  txAge,     \* by nonce, ticks since the node took it, up to Lag
  mined,     \* the account nonce: what is below has been executed
  status,    \* the status in a call's receipt
  attested,  \* seenPayments of the payment: -1 = not, else its age up to Lag
  witness,   \* the address is still the service's attestor
  lost       \* the transactions the mempool has dropped

callVars == <<queue, phase, nonceOf, waited, floor>>
chainVars == <<txs, txAge, mined, status, attested, witness, lost>>
vars == <<callVars, chainVars>>

Nonces == 0 .. Cardinality(Call) - 1
Answered == {"done", "reverted", "unconfirmed", "threw"}
Phases == {"idle", "queued", "numbered", "sent"} \cup Answered

Least(n, m) == IF n < m THEN n ELSE m

-----------------------------------------------------------------------------
(***************************************************************************)
(* The environment.                                                        *)
(***************************************************************************)

\* The first nonce from the account's on that a node knowing `known` lacks.
Count(known) ==
  CHOOSE n \in mined .. Cardinality(Call) :
    /\ n \notin known
    /\ \A m \in mined .. n - 1 : m \in known

\* The pending counts the nodes may answer: all of them know what is Lag old.
PendingCounts ==
  LET held == {n \in Nonces : txs[n] # NoCall}
      old == {n \in held : txAge[n] >= Lag}
  IN  Count(old) .. Count(held)

\* seenPayments, as some node reads it.
MayReadAttested == attested # -1
MayReadUnattested == attested < Lag

\* The next transaction is executed.  An attestation needs its witness and a
\* payment nobody has attested; any other write may revert for its own reasons.
Mine ==
  /\ mined \in Nonces
  /\ txs[mined] # NoCall
  /\ mined' = mined + 1
  /\ LET c == txs[mined] IN
     \E ok \in BOOLEAN :
       /\ c \in Attest => ok = (witness /\ attested = -1)
       /\ status' = [status EXCEPT ![c] = IF ok THEN "success" ELSE "reverted"]
       /\ attested' = IF ok /\ c \in Attest THEN 0 ELSE attested
  /\ UNCHANGED <<callVars, txs, txAge, witness, lost>>

Drop(n) ==
  /\ Cardinality(lost) < MaxDrops
  /\ n >= mined /\ txs[n] # NoCall
  /\ txs' = [txs EXCEPT ![n] = NoCall]
  /\ lost' = lost \cup {txs[n]}
  /\ UNCHANGED <<callVars, txAge, mined, status, attested, witness>>

RotateWitness ==
  /\ witness' = FALSE
  /\ UNCHANGED <<callVars, txs, txAge, mined, status, attested, lost>>

Tick ==
  /\ waited' = [c \in Call |->
       IF phase[c] = "sent" THEN Least(waited[c] + 1, Patience) ELSE waited[c]]
  /\ floor' = [floor EXCEPT !.age = Least(@ + 1, FloorTtl)]
  /\ txAge' = [n \in Nonces |-> Least(txAge[n] + 1, Lag)]
  /\ attested' = IF attested = -1 THEN -1 ELSE Least(attested + 1, Lag)
  /\ UNCHANGED <<queue, phase, nonceOf, txs, mined, status, witness, lost>>

-----------------------------------------------------------------------------
(***************************************************************************)
(* sendTx: one call at a time from its turn to the node's answer.          *)
(***************************************************************************)

\* A caller writes: its send is chained behind the ones before it.
Enqueue(c) ==
  /\ phase[c] = "idle"
  /\ queue' = Append(queue, c)
  /\ phase' = [phase EXCEPT ![c] = "queued"]
  /\ UNCHANGED <<nonceOf, waited, floor, chainVars>>

\* Mutant of NonceFor: the node's count is all there is.
NonceForNode(pending) == pending

\* Mutant of NonceFor: the floor never expires.
NonceForFloor(pending) == IF floor.nonce > pending THEN floor.nonce ELSE pending

NonceFor(pending) ==
  IF floor.nonce > pending /\ floor.age < FloorTtl THEN floor.nonce ELSE pending

HasTurn(c) == queue # <<>> /\ c = Head(queue)

\* Mutant of ReadCount: the nonce is reserved before the send.
ReadCountReserves(c) ==
  /\ HasTurn(c) /\ phase[c] = "queued"
  /\ \E pending \in PendingCounts :
       /\ nonceOf' = [nonceOf EXCEPT ![c] = NonceFor(pending)]
       /\ floor' = [nonce |-> NonceFor(pending) + 1, age |-> 0]
  /\ phase' = [phase EXCEPT ![c] = "numbered"]
  /\ UNCHANGED <<queue, waited, chainVars>>

ReadCount(c) ==
  /\ HasTurn(c) /\ phase[c] = "queued"
  /\ \E pending \in PendingCounts :
       nonceOf' = [nonceOf EXCEPT ![c] = NonceFor(pending)]
  /\ phase' = [phase EXCEPT ![c] = "numbered"]
  /\ UNCHANGED <<queue, waited, floor, chainVars>>

\* The node takes the transaction, in place of one it has not yet mined if the
\* fee has risen.
Takes(c) ==
  LET n == nonceOf[c] IN
  /\ n \in Nonces /\ n >= mined
  /\ txs' = [txs EXCEPT ![n] = c]
  /\ txAge' = [txAge EXCEPT ![n] = 0]
  /\ UNCHANGED <<mined, status, attested, witness, lost>>

Send(c) ==
  /\ HasTurn(c) /\ phase[c] = "numbered"
  /\ c \in Attest => MayReadUnattested
  /\ Takes(c)
  /\ floor' = [nonce |-> nonceOf[c] + 1, age |-> 0]
  /\ phase' = [phase EXCEPT ![c] = "sent"]
  /\ queue' = Tail(queue)
  /\ UNCHANGED <<nonceOf, waited>>

\* Mutant of EndTurn: the queue chains the raw promise, and a rejection rejects
\* every send behind it before it has run.
EndTurnRejects(c, outcome) ==
  /\ phase' = [phase EXCEPT ![c] = outcome]
  /\ nonceOf' = [nonceOf EXCEPT ![c] = -1]
  /\ queue' = IF outcome = "threw" THEN queue ELSE Tail(queue)
  /\ UNCHANGED <<waited, floor>>

\* The turn ends without an acknowledged transaction.
EndTurn(c, outcome) ==
  /\ phase' = [phase EXCEPT ![c] = outcome]
  /\ nonceOf' = [nonceOf EXCEPT ![c] = -1]
  /\ queue' = Tail(queue)
  /\ UNCHANGED <<waited, floor>>

\* A request fails, the estimate reverts, or the node refuses the nonce; the
\* node may also have taken the transaction and its answer is what got lost.
Throw(c) ==
  /\ HasTurn(c)
  /\ \/ phase[c] \in {"queued", "numbered"} /\ UNCHANGED chainVars
     \/ phase[c] = "numbered" /\ Takes(c)
  /\ EndTurn(c, "threw")

\* The estimate reverts with DuplicateAttestation, which is the end state asked
\* for: recordAttestation resolves with no transaction.
AlreadyRecorded(c) ==
  /\ HasTurn(c) /\ phase[c] = "numbered"
  /\ c \in Attest /\ MayReadAttested
  /\ EndTurn(c, "done")
  /\ UNCHANGED chainVars

TakeTurn(c) == ReadCount(c) \/ Send(c) \/ Throw(c) \/ AlreadyRecorded(c)

-----------------------------------------------------------------------------
(***************************************************************************)
(* settled: what the receipt makes of a transaction that was sent.         *)
(***************************************************************************)

Answer(c, outcome) ==
  /\ phase[c] = "sent"
  /\ phase' = [phase EXCEPT ![c] = outcome]
  /\ UNCHANGED <<queue, nonceOf, waited, floor, chainVars>>

Confirm(c) == status[c] = "success" /\ Answer(c, "done")

\* Mutant of Revert: a reverted attestation is taken for a duplicate.
RevertIsDuplicate(c) ==
  /\ status[c] = "reverted"
  /\ \/ c \in Attest /\ Answer(c, "done")
     \/ c \in Write /\ Answer(c, "reverted")

\* A reverted attestation asks the registry whether a sibling's won.
Revert(c) ==
  /\ status[c] = "reverted"
  /\ \/ c \in Attest /\ MayReadAttested /\ Answer(c, "done")
     \/ (c \in Attest => MayReadUnattested) /\ Answer(c, "reverted")

\* awaitReceipt, past its deadline with nothing but lag to show.
GiveUp(c) == waited[c] = Patience /\ Answer(c, "unconfirmed")

AwaitReceipt(c) == Confirm(c) \/ Revert(c) \/ GiveUp(c)

-----------------------------------------------------------------------------

Init ==
  /\ queue = <<>>
  /\ phase = [c \in Call |-> "idle"]
  /\ nonceOf = [c \in Call |-> -1]
  /\ waited = [c \in Call |-> 0]
  /\ floor = [nonce |-> 0, age |-> FloorTtl]
  /\ txs = [n \in Nonces |-> NoCall]
  /\ txAge = [n \in Nonces |-> 0]
  /\ mined = 0
  /\ status = [c \in Call |-> "none"]
  /\ attested = -1
  /\ witness = TRUE
  /\ lost = {}

Next ==
  \/ \E c \in Call : Enqueue(c) \/ TakeTurn(c) \/ AwaitReceipt(c)
  \/ Mine
  \/ \E n \in Nonces : Drop(n)
  \/ RotateWitness
  \/ Tick

\* Requests are answered or time out (viem's transport), blocks are produced and
\* clocks go on; nobody has to call, and nothing has to be dropped.
Fairness ==
  /\ WF_vars(\E c \in Call : TakeTurn(c))
  /\ WF_vars(\E c \in Call : AwaitReceipt(c))
  /\ WF_vars(Mine)
  /\ WF_vars(Tick)

Spec == Init /\ [][Next]_vars /\ Fairness

-----------------------------------------------------------------------------
(***************************************************************************)
(* Properties.                                                             *)
(***************************************************************************)

\* Every variable has its type; the queue holds, once each, exactly the calls
\* whose send has not ended, and only its head has a number without a
\* transaction.
TypeOK ==
  /\ phase \in [Call -> Phases]
  /\ nonceOf \in [Call -> Nonces \cup {-1, Cardinality(Call)}]
  /\ waited \in [Call -> 0 .. Patience]
  /\ floor \in [nonce : 0 .. Cardinality(Call), age : 0 .. FloorTtl]
  /\ txs \in [Nonces -> Call \cup {NoCall}]
  /\ txAge \in [Nonces -> 0 .. Lag]
  /\ mined \in 0 .. Cardinality(Call)
  /\ status \in [Call -> {"none", "success", "reverted"}]
  /\ attested \in -1 .. Lag
  /\ witness \in BOOLEAN
  /\ lost \subseteq Call
  /\ {queue[i] : i \in DOMAIN queue} = {c \in Call : phase[c] \in {"queued", "numbered"}}
  /\ \A i \in DOMAIN queue : \A k \in 1 .. i - 1 :
       queue[i] # queue[k] /\ phase[queue[i]] = "queued"

\* A transaction the node has acknowledged keeps its nonce: no sibling from the
\* same address replaces it, however far the answering nodes lag behind each
\* other, as long as the mempool forgets nothing (the floor of sendTx).
AcknowledgedKeepsItsNonce ==
  lost = {} =>
    \A c \in Call :
      nonceOf[c] # -1 /\ phase[c] # "numbered" => txs[nonceOf[c]] = c

\* A write is reported as done only if the chain shows its effect: its own
\* transaction succeeded or, for an attestation, the payment is attested
\* (settled, isAttested and the DuplicateAttestation branch).
DoneMeansRecorded ==
  \A c \in Call :
    phase[c] = "done" =>
      IF c \in Attest THEN attested # -1 ELSE status[c] = "success"

\* Every write is answered in the end, whatever became of the sends before it:
\* a failed send does not hold up the queue, a lost receipt not its caller.
EveryCallIsAnswered == \A c \in Call : phase[c] = "queued" ~> phase[c] \in Answered

\* A transaction the node has acknowledged is executed, unless the mempool drops
\* one: no failed send leaves a nonce behind that nobody will ever fill.
AcknowledgedIsExecuted ==
  \A c \in Call : phase[c] = "sent" ~> status[c] # "none" \/ lost # {}

\* A dropped transaction does not strand the account: a write that has its turn
\* after a quiet FloorTtl is numbered from the node and gets executed, unless it
\* failed to be sent or had no need to.
QuietHeals ==
  \A c \in Call :
    (/\ queue = <<c>> /\ phase[c] = "queued"
     /\ floor.age = FloorTtl /\ \A n \in Nonces : txAge[n] = Lag
     /\ Cardinality(lost) = MaxDrops)
      ~> (status[c] # "none" \/ phase[c] \in {"threw", "done"})

=============================================================================
