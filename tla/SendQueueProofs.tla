--------------------------- MODULE SendQueueProofs ---------------------------
(***************************************************************************)
(* Proofs about the safety of SendQueue, for any calls, delays and bounds. *)
(* A call is executed at most once because it is sent at most once; and an *)
(* acknowledged nonce stays below the floor, below which a count is always *)
(* old enough that every node knows it when the floor has expired.         *)
(***************************************************************************)
EXTENDS SendQueue, FiniteSetTheorems, WellFoundedInduction, TLAPS

SendTypeOK ==
  /\ queue \in Seq(Call)
  /\ phase \in [Call -> Phases]
  /\ nonceOf \in [Call -> Int]
  /\ floor \in [nonce : Nat, age : Nat]
  /\ txs \in [Nonces -> Call \cup {NoCall}]
  /\ txAge \in [Nonces -> Nat]
  /\ mined \in 0 .. Cardinality(Call)
  /\ status \in [Call -> {"none", "success", "reverted"}]
  /\ attested \in Int /\ attested >= -1

\* Only the head of the queue has a number without a transaction.
TurnOK == \A c \in Call : phase[c] = "numbered" => HasTurn(c)

\* A call is in the chain at most once, and not before it is sent; one with a
\* status has been executed.
PlaceOK ==
  /\ \A m, n \in Nonces : txs[m] # NoCall /\ txs[m] = txs[n] => m = n
  /\ \A c \in Call : status[c] # "none" => \E n \in Nonces : n < mined /\ txs[n] = c
  /\ \A c \in Call : phase[c] \in {"idle", "queued", "numbered"} =>
       \A n \in Nonces : txs[n] # c

\* Where an attestation succeeded the payment is attested.
RecordedOK ==
  /\ \A c \in Attest : status[c] = "success" => attested # -1
  /\ DoneMeansRecorded

\* The transactions there are have no gap; those below the floor are at least
\* as old as the floor; a number in use is not below it; and an acknowledged
\* transaction is.
NumbersOK ==
  /\ \A m, n \in Nonces : m < n /\ txs[n] # NoCall => txs[m] # NoCall
  /\ \A n \in Nonces : n < mined => txs[n] # NoCall
  /\ \A n \in Nat : n < floor.nonce =>
       n \in Nonces /\ txs[n] # NoCall /\ txAge[n] >= Least(floor.age, Lag)
  /\ \A c \in Call : phase[c] = "numbered" =>
       /\ nonceOf[c] \in Nat /\ nonceOf[c] >= floor.nonce
       /\ \A m \in Nonces : m < nonceOf[c] => txs[m] # NoCall
  /\ \A c \in Call : nonceOf[c] # -1 /\ phase[c] # "numbered" =>
       nonceOf[c] \in Nonces /\ txs[nonceOf[c]] = c /\ nonceOf[c] < floor.nonce

SendInv ==
  /\ SendTypeOK
  /\ TurnOK
  /\ PlaceOK
  /\ RecordedOK
  /\ lost = {} => NumbersOK

-----------------------------------------------------------------------------
(***************************************************************************)
(* What a node may answer.                                                 *)
(***************************************************************************)

\* There are finitely many calls, so nonces are numbers.
LEMMA CallsAreCounted == Cardinality(Call) \in Nat
BY CallAssumption, FS_CardinalityType

\* Every set of naturals has a least element.
LEMMA LeastElement ==
  ASSUME NEW T \in SUBSET Nat, T # {}
  PROVE  \E n \in T : \A m \in T : n <= m
<1>1. IsWellFoundedOn(OpToRel(<, Nat), Nat)
  BY NatLessThanWellFounded
<1>2. PICK n \in T : \A m \in T : ~(<<m, n>> \in OpToRel(<, Nat))
  BY <1>1, WFMin
<1>3. \A m \in T : ~(m < n)
  BY <1>2 DEF OpToRel
<1>4. QED
  BY <1>3

\* A count is the first nonce from the account's on that the node does not know.
LEMMA CountOK ==
  ASSUME SendTypeOK, NEW known \in SUBSET Nonces
  PROVE  /\ Count(known) \in mined .. Cardinality(Call)
         /\ Count(known) \notin known
         /\ \A m \in mined .. Count(known) - 1 : m \in known
<1> DEFINE N == Cardinality(Call)
           Free == {n \in mined .. N : n \notin known}
<1>1. N \in Nat /\ mined \in 0 .. N
  BY CallsAreCounted DEF SendTypeOK
<1>2. N \in Free
  BY <1>1 DEF Nonces
<1>3. Free \in SUBSET Nat
  BY <1>1
<1>4. PICK n \in Free : \A m \in Free : n <= m
  BY <1>2, <1>3, LeastElement
<1>5. \A m \in mined .. n - 1 : m \in known
  BY <1>1, <1>4
<1>6. \E k \in mined .. N : k \notin known /\ \A m \in mined .. k - 1 : m \in known
  BY <1>4, <1>5
<1>7. QED
  BY <1>6 DEF Count

\* A number is not below the floor and leaves no gap, since what is below an
\* expired floor is old enough for every node to know.
LEMMA NumberOK ==
  ASSUME SendTypeOK, NumbersOK, NEW pending \in PendingCounts
  PROVE  /\ NonceFor(pending) \in Nat
         /\ NonceFor(pending) >= floor.nonce
         /\ \A m \in Nonces : m < NonceFor(pending) => txs[m] # NoCall
<1> DEFINE held == {n \in Nonces : txs[n] # NoCall}
           old == {n \in held : txAge[n] >= Lag}
<1>1. pending \in Count(old) .. Count(held)
  BY DEF PendingCounts
<1>2. held \in SUBSET Nonces /\ old \in SUBSET Nonces
  OBVIOUS
<1>3. /\ Count(old) \in mined .. Cardinality(Call) /\ Count(old) \notin old
      /\ Count(held) \in mined .. Cardinality(Call)
      /\ \A m \in mined .. Count(held) - 1 : m \in held
  BY <1>2, CountOK
<1>4. /\ mined \in Nat /\ floor.nonce \in Nat /\ floor.age \in Nat
      /\ Lag \in Nat /\ FloorTtl \in Nat /\ Lag <= FloorTtl
      /\ Cardinality(Call) \in Nat
  BY TimeAssumption, CallsAreCounted DEF SendTypeOK
<1>5. \A m \in Nonces : m < pending => txs[m] # NoCall
  <2>1. ASSUME NEW m \in Nonces, m < pending PROVE txs[m] # NoCall
    <3>1. m \in Nat
      BY DEF Nonces
    <3>2. CASE m < mined
      BY <3>2 DEF NumbersOK
    <3>3. CASE m >= mined
      <4>1. m \in mined .. Count(held) - 1
        BY <1>1, <1>3, <1>4, <2>1, <3>1, <3>3
      <4>2. QED
        BY <1>3, <4>1
    <3>4. QED
      BY <1>4, <3>1, <3>2, <3>3
  <2>2. QED
    BY <2>1
<1> HIDE DEF held
<1>6. pending \in Nat
  BY <1>1, <1>3, <1>4
<1>7. CASE floor.nonce > pending /\ floor.age < FloorTtl
  BY <1>4, <1>7 DEF NonceFor, NumbersOK, Nonces
<1>8. CASE ~(floor.nonce > pending /\ floor.age < FloorTtl)
  <2>1. NonceFor(pending) = pending
    BY <1>8 DEF NonceFor
  <2>2. pending >= floor.nonce
    <3>1. SUFFICES ASSUME floor.nonce > pending PROVE FALSE
      BY <1>4, <1>6
    <3>2. Least(floor.age, Lag) = Lag
      BY <1>4, <1>8, <3>1 DEF Least
    <3>3. Count(old) < floor.nonce /\ Count(old) \in Nat
      BY <1>1, <1>3, <1>4, <1>6, <3>1
    <3>4. Count(old) \in Nonces /\ txs[Count(old)] # NoCall /\ txAge[Count(old)] >= Lag
      BY <3>2, <3>3 DEF NumbersOK
    <3>5. Count(old) \in old
      BY <3>4 DEF held
    <3>6. QED
      BY <1>3, <3>5
  <2>3. QED
    BY <1>5, <1>6, <2>1, <2>2
<1>9. QED
  BY <1>7, <1>8

-----------------------------------------------------------------------------
(***************************************************************************)
(* The invariant gives the properties, and holds at first.                 *)
(***************************************************************************)

\* The invariant gives the properties.
LEMMA SendInvImplies == SendInv => DoneMeansRecorded /\ AcknowledgedKeepsItsNonce
BY DEF SendInv, RecordedOK, NumbersOK, AcknowledgedKeepsItsNonce

\* Before the first call nothing is numbered, sent or recorded.
LEMMA InitSendInv == Init => SendInv
<1> SUFFICES ASSUME Init PROVE SendInv
  OBVIOUS
<1>1. Cardinality(Call) \in Nat
  BY CallsAreCounted
<1>2. /\ \A c \in Call : phase[c] = "idle" /\ nonceOf[c] = -1 /\ status[c] = "none"
      /\ \A n \in Nonces : txs[n] = NoCall
      /\ mined = 0 /\ floor = [nonce |-> 0, age |-> FloorTtl]
  BY DEF Init
<1>3. SendTypeOK
  BY <1>1, TimeAssumption DEF Init, SendTypeOK, Phases, Answered
<1>4. TurnOK /\ PlaceOK
  BY <1>2, CallAssumption DEF TurnOK, PlaceOK
<1>5. RecordedOK
  BY <1>2 DEF RecordedOK, DoneMeansRecorded, Call
<1>6. NumbersOK
  BY <1>2 DEF NumbersOK, Nonces
<1>7. QED
  BY <1>3, <1>4, <1>5, <1>6 DEF SendInv

-----------------------------------------------------------------------------
(***************************************************************************)
(* The calls.                                                              *)
(***************************************************************************)

\* A caller joins the queue behind the ones before it.
LEMMA EnqueueKeepsSendInv ==
  ASSUME SendInv, NEW c \in Call, Enqueue(c)
  PROVE  SendInv'
<1>1. /\ queue' = Append(queue, c) /\ phase' = [phase EXCEPT ![c] = "queued"]
      /\ phase[c] = "idle"
      /\ UNCHANGED <<nonceOf, floor, txs, txAge, mined, status, attested, lost>>
  BY DEF Enqueue, chainVars
<1>2. SendTypeOK'
  BY <1>1 DEF SendInv, SendTypeOK, Phases
<1>3. TurnOK'
  <2>1. ASSUME NEW d \in Call, phase'[d] = "numbered" PROVE HasTurn(d)'
    <3>1. HasTurn(d) /\ queue \in Seq(Call)
      BY <1>1, <2>1 DEF SendInv, SendTypeOK, TurnOK
    <3>2. queue' # <<>> /\ Head(queue') = Head(queue)
      BY <1>1, <3>1 DEF HasTurn
    <3>3. QED
      BY <3>1, <3>2 DEF HasTurn
  <2>2. QED
    BY <2>1 DEF TurnOK
<1>4. PlaceOK'
  BY <1>1 DEF SendInv, SendTypeOK, PlaceOK
<1>5. RecordedOK'
  BY <1>1 DEF SendInv, SendTypeOK, RecordedOK, DoneMeansRecorded, Call
<1>6. lost' = {} => NumbersOK'
  BY <1>1 DEF SendInv, SendTypeOK, NumbersOK
<1>7. QED
  BY <1>2, <1>3, <1>4, <1>5, <1>6 DEF SendInv

\* A call with its turn takes a number.
LEMMA ReadCountKeepsSendInv ==
  ASSUME SendInv, NEW c \in Call, ReadCount(c)
  PROVE  SendInv'
<1>1. /\ HasTurn(c) /\ phase[c] = "queued"
      /\ phase' = [phase EXCEPT ![c] = "numbered"]
      /\ UNCHANGED <<queue, floor, txs, txAge, mined, status, attested, lost>>
  BY DEF ReadCount, chainVars
<1>2. PICK pending \in PendingCounts : nonceOf' = [nonceOf EXCEPT ![c] = NonceFor(pending)]
  BY DEF ReadCount
<1>3. NonceFor(pending) \in Int
  <2>1. mined \in Nat /\ Cardinality(Call) \in Nat /\ floor.nonce \in Nat
    BY CallsAreCounted DEF SendInv, SendTypeOK
  <2>2. pending \in Int
    BY DEF PendingCounts
  <2>3. QED
    BY <2>1, <2>2 DEF NonceFor
<1>4. SendTypeOK'
  BY <1>1, <1>2, <1>3 DEF SendInv, SendTypeOK, Phases
<1>5. TurnOK'
  BY <1>1 DEF SendInv, SendTypeOK, TurnOK, HasTurn
<1>6. PlaceOK'
  BY <1>1 DEF SendInv, SendTypeOK, PlaceOK
<1>7. RecordedOK'
  BY <1>1 DEF SendInv, SendTypeOK, RecordedOK, DoneMeansRecorded, Call
<1>8. ASSUME lost = {} PROVE NumbersOK'
  <2>1. /\ NonceFor(pending) \in Nat /\ NonceFor(pending) >= floor.nonce
        /\ \A m \in Nonces : m < NonceFor(pending) => txs[m] # NoCall
    BY <1>8, NumberOK DEF SendInv
  <2>2. QED
    BY <1>1, <1>2, <1>8, <2>1 DEF SendInv, SendTypeOK, NumbersOK
<1>9. QED
  BY <1>1, <1>4, <1>5, <1>6, <1>7, <1>8 DEF SendInv

\* When the head's turn ends no call has a number without a transaction.
LEMMA TurnEnds ==
  ASSUME SendInv, NEW c \in Call, HasTurn(c), queue' = Tail(queue),
         NEW outcome \in Phases \ {"numbered"}, phase' = [phase EXCEPT ![c] = outcome]
  PROVE  /\ queue' \in Seq(Call) /\ phase' \in [Call -> Phases]
         /\ \A d \in Call : phase'[d] # "numbered"
         /\ TurnOK'
<1>1. queue \in Seq(Call) /\ queue # <<>> /\ phase \in [Call -> Phases]
  BY DEF SendInv, SendTypeOK, HasTurn
<1>2. queue' \in Seq(Call) /\ phase' \in [Call -> Phases]
  BY <1>1
<1>3. \A d \in Call : phase'[d] # "numbered"
  BY <1>1 DEF SendInv, TurnOK, HasTurn
<1>4. QED
  BY <1>2, <1>3 DEF TurnOK

\* What the node takes goes at or above the account's nonce.
LEMMA TakesOK ==
  ASSUME SendInv, NEW c \in Call, phase[c] = "numbered", Takes(c)
  PROVE  /\ nonceOf[c] \in Nonces /\ nonceOf[c] >= mined
         /\ txs' = [txs EXCEPT ![nonceOf[c]] = c]
         /\ txs' \in [Nonces -> Call \cup {NoCall}]
         /\ txAge' = [txAge EXCEPT ![nonceOf[c]] = 0]
         /\ txAge' \in [Nonces -> Nat]
         /\ UNCHANGED <<mined, status, attested, lost>>
         /\ \A m, n \in Nonces : txs'[m] # NoCall /\ txs'[m] = txs'[n] => m = n
         /\ \A d \in Call : status[d] # "none" => \E n \in Nonces : n < mined /\ txs'[n] = d
         /\ \A d \in Call \ {c} : phase[d] \in {"idle", "queued", "numbered"} =>
              \A n \in Nonces : txs'[n] # d
<1>1. /\ nonceOf[c] \in Nonces /\ nonceOf[c] >= mined
      /\ txs' = [txs EXCEPT ![nonceOf[c]] = c]
      /\ txAge' = [txAge EXCEPT ![nonceOf[c]] = 0]
      /\ UNCHANGED <<mined, status, attested, lost>>
  BY DEF Takes
<1>2. txs' \in [Nonces -> Call \cup {NoCall}] /\ txAge' \in [Nonces -> Nat]
  BY <1>1 DEF SendInv, SendTypeOK
<1>3. \A n \in Nonces : txs'[n] = IF n = nonceOf[c] THEN c ELSE txs[n]
  BY <1>1 DEF SendInv, SendTypeOK
<1>4. \A n \in Nonces : txs[n] # c
  BY DEF SendInv, PlaceOK
<1>5. \A m, n \in Nonces : txs'[m] # NoCall /\ txs'[m] = txs'[n] => m = n
  BY <1>3, <1>4 DEF SendInv, PlaceOK
<1>6. ASSUME NEW d \in Call, status[d] # "none"
      PROVE  \E n \in Nonces : n < mined /\ txs'[n] = d
  <2>1. PICK n \in Nonces : n < mined /\ txs[n] = d
    BY <1>6 DEF SendInv, PlaceOK
  <2>2. n # nonceOf[c]
    BY <1>1, <2>1, CallsAreCounted DEF SendInv, SendTypeOK, Nonces
  <2>3. QED
    BY <1>3, <2>1, <2>2
<1>7. \A d \in Call \ {c} : phase[d] \in {"idle", "queued", "numbered"} =>
        \A n \in Nonces : txs'[n] # d
  BY <1>3 DEF SendInv, PlaceOK
<1>8. QED
  BY <1>1, <1>2, <1>5, <1>6, <1>7

\* In a chain without a gap the number taken leaves none, and what is below the
\* floor is not replaced.
LEMMA TakesKeepsNumbers ==
  ASSUME SendInv, lost = {}, NEW c \in Call, phase[c] = "numbered", Takes(c)
  PROVE  /\ nonceOf[c] >= floor.nonce /\ floor.nonce \in Nat
         /\ \A m, n \in Nonces : m < n /\ txs'[n] # NoCall => txs'[m] # NoCall
         /\ \A n \in Nonces : n < mined => txs'[n] # NoCall
         /\ \A n \in Nat : n < floor.nonce =>
              /\ n \in Nonces /\ n # nonceOf[c] /\ txs[n] # NoCall
              /\ txs'[n] = txs[n] /\ txAge'[n] = txAge[n]
         /\ \A m \in Nonces : m < nonceOf[c] => txs'[m] # NoCall
<1>1. NumbersOK /\ c # NoCall
  BY CallAssumption DEF SendInv
<1>2. /\ nonceOf[c] \in Nonces /\ txs \in [Nonces -> Call \cup {NoCall}]
      /\ txAge \in [Nonces -> Nat]
      /\ txs' = [txs EXCEPT ![nonceOf[c]] = c]
      /\ txAge' = [txAge EXCEPT ![nonceOf[c]] = 0]
  BY TakesOK DEF SendInv, SendTypeOK
<1>3. \A n \in Nonces : /\ txs'[n] = IF n = nonceOf[c] THEN c ELSE txs[n]
                        /\ n # nonceOf[c] => txAge'[n] = txAge[n]
  BY <1>2
<1>4. /\ nonceOf[c] \in Nat /\ nonceOf[c] >= floor.nonce /\ floor.nonce \in Nat
      /\ \A m \in Nonces : m < nonceOf[c] => txs[m] # NoCall
  BY <1>1 DEF NumbersOK, SendInv, SendTypeOK
<1>5. \A m, n \in Nonces : m < n /\ txs'[n] # NoCall => txs'[m] # NoCall
  BY <1>1, <1>3, <1>4 DEF NumbersOK
<1>6. \A n \in Nonces : n < mined => txs'[n] # NoCall
  BY <1>1, <1>3 DEF NumbersOK
<1>7. ASSUME NEW n \in Nat, n < floor.nonce
      PROVE  /\ n \in Nonces /\ n # nonceOf[c] /\ txs[n] # NoCall
             /\ txs'[n] = txs[n] /\ txAge'[n] = txAge[n]
  <2>1. n \in Nonces /\ n # nonceOf[c] /\ txs[n] # NoCall
    BY <1>1, <1>4, <1>7 DEF NumbersOK
  <2>2. QED
    BY <1>3, <2>1
<1>8. \A m \in Nonces : m < nonceOf[c] => txs'[m] # NoCall
  BY <1>3, <1>4
<1>9. QED
  BY <1>4, <1>5, <1>6, <1>7, <1>8

\* An acknowledged transaction raises the floor over its nonce.
LEMMA SendKeepsSendInv ==
  ASSUME SendInv, NEW c \in Call, Send(c)
  PROVE  SendInv'
<1>1. /\ HasTurn(c) /\ phase[c] = "numbered" /\ Takes(c)
      /\ floor' = [nonce |-> nonceOf[c] + 1, age |-> 0]
      /\ phase' = [phase EXCEPT ![c] = "sent"]
      /\ queue' = Tail(queue) /\ UNCHANGED nonceOf
  BY DEF Send
<1>2. /\ queue' \in Seq(Call) /\ phase' \in [Call -> Phases]
      /\ \A d \in Call : phase'[d] # "numbered"
      /\ TurnOK'
  BY <1>1, TurnEnds DEF Phases
<1>3. UNCHANGED <<mined, status, attested, lost>> /\ nonceOf[c] \in Nonces
  BY <1>1, TakesOK
<1>4. SendTypeOK'
  BY <1>1, <1>2, <1>3, TakesOK, CallsAreCounted DEF SendInv, SendTypeOK, Nonces
<1>5. \A d \in Call : phase'[d] = IF d = c THEN "sent" ELSE phase[d]
  BY <1>1 DEF SendInv, SendTypeOK
<1>6. PlaceOK'
  BY <1>1, <1>3, <1>5, TakesOK DEF PlaceOK
<1>7. RecordedOK'
  BY <1>3, <1>5 DEF SendInv, RecordedOK, DoneMeansRecorded
<1>8. ASSUME lost = {} PROVE NumbersOK'
  <2>1. /\ floor'.nonce = nonceOf[c] + 1 /\ floor'.age = 0 /\ nonceOf[c] \in Nat
        /\ Least(floor'.age, Lag) = 0 /\ nonceOf[c] < floor'.nonce
    BY <1>1, <1>3, TimeAssumption, CallsAreCounted DEF Nonces, Least
  <2>2. NumbersOK
    BY <1>8 DEF SendInv
  <2>3. ASSUME NEW n \in Nat, n < floor'.nonce
        PROVE  n \in Nonces /\ txs'[n] # NoCall /\ txAge'[n] >= Least(floor'.age, Lag)
    <3>1. n \in Nonces /\ (n < nonceOf[c] \/ n = nonceOf[c])
      BY <1>3, <2>1, <2>3, CallsAreCounted DEF Nonces
    <3>2. txs'[n] # NoCall
      BY <1>1, <1>8, <3>1, TakesOK, TakesKeepsNumbers, CallAssumption DEF SendInv, SendTypeOK
    <3>3. QED
      BY <1>4, <2>1, <3>1, <3>2 DEF SendTypeOK
  <2>4. ASSUME NEW d \in Call, nonceOf[d] # -1
        PROVE  nonceOf[d] \in Nonces /\ txs'[nonceOf[d]] = d /\ nonceOf[d] < floor'.nonce
    <3>1. CASE d = c
      BY <1>1, <1>3, <2>1, <3>1, TakesOK DEF SendInv, SendTypeOK
    <3>2. CASE d # c
      <4>1. nonceOf[d] \in Nonces /\ txs[nonceOf[d]] = d /\ nonceOf[d] < floor.nonce
        BY <1>2, <1>5, <2>2, <2>4, <3>2 DEF NumbersOK
      <4>2. nonceOf[d] \in Nat
        BY <4>1 DEF Nonces
      <4>3. txs'[nonceOf[d]] = d
        BY <1>1, <1>8, <4>1, <4>2, TakesKeepsNumbers
      <4>4. floor.nonce \in Nat /\ nonceOf[c] >= floor.nonce
        BY <1>1, <1>8, TakesKeepsNumbers
      <4>5. QED
        BY <2>1, <4>1, <4>2, <4>3, <4>4
    <3>3. QED
      BY <3>1, <3>2
  <2>5. /\ \A m, n \in Nonces : m < n /\ txs'[n] # NoCall => txs'[m] # NoCall
        /\ \A n \in Nonces : n < mined => txs'[n] # NoCall
    BY <1>1, <1>8, TakesKeepsNumbers
  <2>6. QED
    BY <1>1, <1>2, <1>3, <2>3, <2>4, <2>5 DEF NumbersOK
<1>9. QED
  BY <1>2, <1>3, <1>4, <1>6, <1>7, <1>8 DEF SendInv

\* A turn that ends without a transaction to wait for.
LEMMA EndTurnKeepsSendInv ==
  ASSUME SendInv, NEW c \in Call, HasTurn(c), NEW outcome \in {"threw", "done"},
         EndTurn(c, outcome),
         outcome = "done" => c \in Attest /\ attested # -1,
         UNCHANGED chainVars \/ (phase[c] = "numbered" /\ Takes(c))
  PROVE  SendInv'
<1>1. /\ queue' = Tail(queue) /\ phase' = [phase EXCEPT ![c] = outcome]
      /\ nonceOf' = [nonceOf EXCEPT ![c] = -1] /\ UNCHANGED floor
  BY DEF EndTurn
<1>2. UNCHANGED <<mined, status, attested, lost>>
  BY TakesOK DEF chainVars
<1>3. /\ queue' \in Seq(Call) /\ phase' \in [Call -> Phases]
      /\ \A d \in Call : phase'[d] # "numbered"
      /\ TurnOK'
  BY <1>1, TurnEnds DEF Phases, Answered
<1>4. \A d \in Call : /\ phase'[d] = IF d = c THEN outcome ELSE phase[d]
                      /\ nonceOf'[d] = IF d = c THEN -1 ELSE nonceOf[d]
  BY <1>1 DEF SendInv, SendTypeOK
<1>5. SendTypeOK'
  <2>1. txs' \in [Nonces -> Call \cup {NoCall}] /\ txAge' \in [Nonces -> Nat]
    BY TakesOK DEF chainVars, SendInv, SendTypeOK
  <2>2. QED
    BY <1>1, <1>2, <1>3, <2>1 DEF SendInv, SendTypeOK
<1>6. PlaceOK'
  <2>1. CASE UNCHANGED chainVars
    BY <1>4, <2>1 DEF chainVars, SendInv, PlaceOK
  <2>2. CASE phase[c] = "numbered" /\ Takes(c)
    BY <1>2, <1>4, <2>2, TakesOK DEF PlaceOK
  <2>3. QED
    BY <2>1, <2>2
<1>7. RecordedOK'
  BY <1>2, <1>4 DEF SendInv, RecordedOK, DoneMeansRecorded
<1>8. ASSUME lost = {} PROVE NumbersOK'
  <2>1. NumbersOK
    BY <1>8 DEF SendInv
  <2>2. CASE UNCHANGED chainVars
    BY <1>1, <1>3, <1>4, <2>1, <2>2 DEF chainVars, NumbersOK
  <2>3. CASE phase[c] = "numbered" /\ Takes(c)
    <3>1. \A n \in Nat : n < floor.nonce =>
            n \in Nonces /\ txs'[n] # NoCall /\ txAge'[n] >= Least(floor.age, Lag)
      BY <1>8, <2>1, <2>3, TakesKeepsNumbers DEF NumbersOK
    <3>2. ASSUME NEW d \in Call, nonceOf'[d] # -1
          PROVE  nonceOf'[d] \in Nonces /\ txs'[nonceOf'[d]] = d /\ nonceOf'[d] < floor.nonce
      <4>1. d # c /\ nonceOf'[d] = nonceOf[d] /\ phase[d] # "numbered"
        BY <1>3, <1>4, <3>2
      <4>2. nonceOf[d] \in Nonces /\ txs[nonceOf[d]] = d /\ nonceOf[d] < floor.nonce
        BY <2>1, <3>2, <4>1 DEF NumbersOK
      <4>3. nonceOf[d] \in Nat
        BY <4>2 DEF Nonces
      <4>4. QED
        BY <1>8, <2>3, <4>1, <4>2, <4>3, TakesKeepsNumbers
    <3>3. /\ \A m, n \in Nonces : m < n /\ txs'[n] # NoCall => txs'[m] # NoCall
          /\ \A n \in Nonces : n < mined => txs'[n] # NoCall
      BY <1>8, <2>3, TakesKeepsNumbers
    <3>4. QED
      BY <1>1, <1>2, <1>3, <3>1, <3>2, <3>3 DEF NumbersOK
  <2>4. QED
    BY <2>2, <2>3
<1>9. QED
  BY <1>2, <1>3, <1>5, <1>6, <1>7, <1>8 DEF SendInv

\* A call is answered: done, only if the chain shows its effect.
LEMMA AnswerKeepsSendInv ==
  ASSUME SendInv, NEW c \in Call, NEW outcome \in Answered, Answer(c, outcome),
         outcome = "done" => IF c \in Attest THEN attested # -1 ELSE status[c] = "success"
  PROVE  SendInv'
<1>1. /\ phase[c] = "sent" /\ phase' = [phase EXCEPT ![c] = outcome]
      /\ UNCHANGED <<queue, nonceOf, floor, txs, txAge, mined, status, attested, lost>>
  BY DEF Answer, chainVars
<1>2. /\ outcome \in Phases
      /\ outcome \notin {"idle", "queued", "numbered"}
  BY DEF Answered, Phases
<1>3. \A d \in Call : phase'[d] = IF d = c THEN outcome ELSE phase[d]
  BY <1>1 DEF SendInv, SendTypeOK
<1>4. SendTypeOK' /\ TurnOK' /\ PlaceOK'
  BY <1>1, <1>2, <1>3 DEF SendInv, SendTypeOK, TurnOK, PlaceOK, HasTurn
<1>5. RecordedOK'
  BY <1>1, <1>3 DEF SendInv, RecordedOK, DoneMeansRecorded
<1>6. lost' = {} => NumbersOK'
  BY <1>1, <1>2, <1>3 DEF SendInv, NumbersOK
<1>7. QED
  BY <1>4, <1>5, <1>6 DEF SendInv

-----------------------------------------------------------------------------
(***************************************************************************)
(* The environment.                                                        *)
(***************************************************************************)

\* A call is executed for the first and only time.
LEMMA MineKeepsSendInv ==
  ASSUME SendInv, Mine
  PROVE  SendInv'
<1> DEFINE c == txs[mined]
<1>1. PICK ok \in BOOLEAN :
        /\ c \in Attest => ok = (witness /\ attested = -1)
        /\ status' = [status EXCEPT ![c] = IF ok THEN "success" ELSE "reverted"]
        /\ attested' = IF ok /\ c \in Attest THEN 0 ELSE attested
  BY DEF Mine
<1>2. /\ mined \in Nonces /\ c # NoCall /\ mined' = mined + 1
      /\ UNCHANGED <<queue, phase, nonceOf, floor, txs, txAge, lost>>
  BY DEF Mine, callVars
<1>3. c \in Call /\ mined \in Nat /\ Cardinality(Call) \in Nat
  BY <1>2, CallsAreCounted DEF SendInv, SendTypeOK, Nonces
<1>4. status[c] = "none"
  <2>1. SUFFICES ASSUME status[c] # "none" PROVE FALSE
    OBVIOUS
  <2>2. PICK n \in Nonces : n < mined /\ txs[n] = c
    BY <1>3, <2>1 DEF SendInv, PlaceOK
  <2>3. n = mined
    BY <1>2, <2>2 DEF SendInv, PlaceOK
  <2>4. QED
    BY <1>3, <2>2, <2>3
<1>5. \A d \in Call : status'[d] = IF d = c THEN IF ok THEN "success" ELSE "reverted"
                                            ELSE status[d]
  BY <1>1 DEF SendInv, SendTypeOK
<1> HIDE DEF c
<1>6. SendTypeOK'
  <2>1. status' \in [Call -> {"none", "success", "reverted"}]
    BY <1>1, <1>3 DEF SendInv, SendTypeOK
  <2>2. mined' \in 0 .. Cardinality(Call)
    BY <1>2, <1>3 DEF Nonces
  <2>3. QED
    BY <1>1, <1>2, <2>1, <2>2 DEF SendInv, SendTypeOK
<1>7. TurnOK'
  BY <1>2 DEF SendInv, TurnOK, HasTurn
<1>8. PlaceOK'
  <2>1. ASSUME NEW d \in Call, status'[d] # "none"
        PROVE  \E n \in Nonces : n < mined' /\ txs[n] = d
    <3>1. CASE d = c
      BY <1>2, <1>3, <3>1 DEF c
    <3>2. CASE d # c
      <4>1. PICK n \in Nonces : n < mined /\ txs[n] = d
        BY <1>5, <2>1, <3>2 DEF SendInv, PlaceOK
      <4>2. n < mined'
        BY <1>2, <1>3, <4>1 DEF Nonces
      <4>3. QED
        BY <4>1, <4>2
    <3>3. QED
      BY <3>1, <3>2
  <2>2. QED
    BY <1>2, <2>1 DEF SendInv, PlaceOK
<1>9. RecordedOK'
  <2>1. attested # -1 => attested' # -1
    BY <1>1
  <2>2. \A d \in Attest : status'[d] = "success" => attested' # -1
    BY <1>1, <1>5, <2>1 DEF SendInv, RecordedOK, Call
  <2>3. \A d \in Call : status[d] = "success" => status'[d] = "success"
    BY <1>4, <1>5
  <2>4. QED
    BY <1>2, <2>1, <2>2, <2>3 DEF SendInv, RecordedOK, DoneMeansRecorded
<1>10. lost' = {} => NumbersOK'
  <2>1. \A n \in Nonces : n < mined' => n < mined \/ n = mined
    BY <1>2, <1>3 DEF Nonces
  <2>2. txs[mined] # NoCall
    BY <1>2 DEF c
  <2>3. QED
    BY <1>2, <2>1, <2>2 DEF SendInv, NumbersOK
<1>11. QED
  BY <1>6, <1>7, <1>8, <1>9, <1>10 DEF SendInv

\* A transaction is dropped before it is executed, never after.
LEMMA DropKeepsSendInv ==
  ASSUME SendInv, NEW k \in Nonces, Drop(k)
  PROVE  SendInv'
<1>1. /\ k >= mined /\ txs' = [txs EXCEPT ![k] = NoCall] /\ lost' = lost \cup {txs[k]}
      /\ UNCHANGED <<queue, phase, nonceOf, floor, txAge, mined, status, attested>>
  BY DEF Drop, callVars
<1>2. \A n \in Nonces : txs'[n] = IF n = k THEN NoCall ELSE txs[n]
  BY <1>1 DEF SendInv, SendTypeOK
<1>3. SendTypeOK' /\ TurnOK'
  BY <1>1 DEF SendInv, SendTypeOK, TurnOK, HasTurn
<1>4. PlaceOK'
  <2>1. ASSUME NEW d \in Call, status[d] # "none"
        PROVE  \E n \in Nonces : n < mined /\ txs'[n] = d
    <3>1. PICK n \in Nonces : n < mined /\ txs[n] = d
      BY <2>1 DEF SendInv, PlaceOK
    <3>2. n # k
      BY <1>1, <3>1, CallsAreCounted DEF SendInv, SendTypeOK, Nonces
    <3>3. QED
      BY <1>2, <3>1, <3>2
  <2>2. NoCall \notin Call
    BY CallAssumption
  <2>3. QED
    BY <1>1, <1>2, <2>1, <2>2 DEF SendInv, PlaceOK
<1>5. RecordedOK'
  BY <1>1 DEF SendInv, RecordedOK, DoneMeansRecorded
<1>6. lost' # {}
  BY <1>1
<1>7. QED
  BY <1>3, <1>4, <1>5, <1>6 DEF SendInv

\* The floor and what is below it grow old together.
LEMMA TickKeepsSendInv ==
  ASSUME SendInv, Tick
  PROVE  SendInv'
<1>1. /\ floor' = [floor EXCEPT !.age = Least(@ + 1, FloorTtl)]
      /\ txAge' = [n \in Nonces |-> Least(txAge[n] + 1, Lag)]
      /\ attested' = IF attested = -1 THEN -1 ELSE Least(attested + 1, Lag)
      /\ UNCHANGED <<queue, phase, nonceOf, txs, mined, status, lost>>
  BY DEF Tick
<1>2. Lag \in Nat /\ FloorTtl \in Nat /\ Lag <= FloorTtl /\ floor.age \in Nat
  BY TimeAssumption DEF SendInv, SendTypeOK
<1>3. /\ attested' \in Int /\ attested' >= -1 /\ (attested # -1 => attested' # -1)
  BY <1>1, <1>2 DEF SendInv, SendTypeOK, Least
<1>4. /\ floor' \in [nonce : Nat, age : Nat] /\ floor'.nonce = floor.nonce
      /\ floor'.age = Least(floor.age + 1, FloorTtl)
  <2>1. Least(floor.age + 1, FloorTtl) \in Nat
    BY <1>2 DEF Least
  <2>2. QED
    BY <1>1, <2>1 DEF SendInv, SendTypeOK
<1>5. txAge' \in [Nonces -> Nat]
  BY <1>1, <1>2 DEF SendInv, SendTypeOK, Least
<1>6. SendTypeOK' /\ TurnOK' /\ PlaceOK'
  BY <1>1, <1>3, <1>4, <1>5 DEF SendInv, SendTypeOK, TurnOK, PlaceOK, HasTurn
<1>7. RecordedOK'
  BY <1>1, <1>3 DEF SendInv, RecordedOK, DoneMeansRecorded
<1>8. ASSUME lost = {} PROVE NumbersOK'
  <2>1. ASSUME NEW n \in Nat, n < floor.nonce
        PROVE  n \in Nonces /\ txs[n] # NoCall /\ txAge'[n] >= Least(floor'.age, Lag)
    <3>1. n \in Nonces /\ txs[n] # NoCall /\ txAge[n] >= Least(floor.age, Lag)
          /\ txAge[n] \in Nat
      BY <1>8, <2>1 DEF SendInv, SendTypeOK, NumbersOK
    <3>2. txAge'[n] = Least(txAge[n] + 1, Lag)
      BY <1>1, <3>1
    <3>3. QED
      BY <1>2, <1>4, <3>1, <3>2 DEF Least
  <2>2. QED
    BY <1>1, <1>4, <1>8, <2>1 DEF SendInv, NumbersOK
<1>9. QED
  BY <1>1, <1>6, <1>7, <1>8 DEF SendInv

\* No step breaks the invariant.
LEMMA NextSendInv == SendInv /\ [Next]_vars => SendInv'
<1> SUFFICES ASSUME SendInv, [Next]_vars PROVE SendInv'
  OBVIOUS
<1>1. ASSUME NEW c \in Call, Enqueue(c) PROVE SendInv'
  BY <1>1, EnqueueKeepsSendInv
<1>2. ASSUME NEW c \in Call, TakeTurn(c) PROVE SendInv'
  <2>1. CASE ReadCount(c)
    BY <2>1, ReadCountKeepsSendInv
  <2>2. CASE Send(c)
    BY <2>2, SendKeepsSendInv
  <2>3. CASE Throw(c)
    BY <2>3, EndTurnKeepsSendInv DEF Throw
  <2>4. CASE AlreadyRecorded(c)
    BY <2>4, EndTurnKeepsSendInv DEF AlreadyRecorded, MayReadAttested
  <2>5. QED
    BY <1>2, <2>1, <2>2, <2>3, <2>4 DEF TakeTurn
<1>3. ASSUME NEW c \in Call, AwaitReceipt(c) PROVE SendInv'
  <2>1. CASE Confirm(c)
    BY <2>1, AnswerKeepsSendInv DEF Confirm, SendInv, RecordedOK, Answered
  <2>2. CASE Revert(c)
    BY <2>2, AnswerKeepsSendInv DEF Revert, MayReadAttested, Answered
  <2>3. CASE GiveUp(c)
    BY <2>3, AnswerKeepsSendInv DEF GiveUp, Answered
  <2>4. QED
    BY <1>3, <2>1, <2>2, <2>3 DEF AwaitReceipt
<1>4. CASE Mine
  BY <1>4, MineKeepsSendInv
<1>5. ASSUME NEW n \in Nonces, Drop(n) PROVE SendInv'
  BY <1>5, DropKeepsSendInv
<1>6. CASE Tick
  BY <1>6, TickKeepsSendInv
<1>7. CASE RotateWitness \/ UNCHANGED vars
  <2>1. UNCHANGED <<queue, phase, nonceOf, floor, txs, txAge, mined, status, attested, lost>>
    BY <1>7 DEF RotateWitness, vars, callVars, chainVars
  <2>2. SendTypeOK' /\ TurnOK' /\ PlaceOK' /\ RecordedOK'
    BY <2>1 DEF SendInv, SendTypeOK, TurnOK, HasTurn, PlaceOK, RecordedOK, DoneMeansRecorded
  <2>3. lost' = {} => NumbersOK'
    BY <2>1 DEF SendInv, NumbersOK
  <2>4. QED
    BY <2>2, <2>3 DEF SendInv
<1>8. QED
  BY <1>1, <1>2, <1>3, <1>4, <1>5, <1>6, <1>7 DEF Next

-----------------------------------------------------------------------------
(***************************************************************************)
(* The theorems.                                                           *)
(***************************************************************************)

\* The invariant holds throughout.
THEOREM SendInvariant == Spec => []SendInv
<1>1. Init => SendInv
  BY InitSendInv
<1>2. SendInv /\ [Next]_vars => SendInv'
  BY NextSendInv
<1>3. QED
  BY <1>1, <1>2, PTL DEF Spec

\* A write is reported as done only with its effect on the chain, whatever
\* became of the answers and the transactions in between (sendTx, settled and
\* recordAttestation of Live0gClient).
THEOREM DoneIsRecorded == Spec => []DoneMeansRecorded
BY SendInvariant, SendInvImplies, PTL

\* For any number of calls, and any floor that outlives the lag of the nodes, no
\* acknowledged transaction is replaced by a sibling (the floor of sendTx).
THEOREM AcknowledgedIsNotReplaced == Spec => []AcknowledgedKeepsItsNonce
BY SendInvariant, SendInvImplies, PTL

=============================================================================
