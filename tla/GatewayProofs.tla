---------------------------- MODULE GatewayProofs ----------------------------
(***************************************************************************)
(* Proofs about Gateway and FetchPaid, for any accounts, prices, delays    *)
(* and bounds.                                                             *)
(*                                                                         *)
(* The argument is about nonces: a nonce is with the upstream or answered  *)
(* once, its invoice is used then in the Map and in the file alike, is     *)
(* used otherwise only if its call was cut off, and leaves either no       *)
(* sooner than a window after the deadline that was issued with it.  The   *)
(* buyer's calls add that a nonce belongs to one call and has one request  *)
(* at a time, and that each has one payment at most, which its proofs      *)
(* carry.                                                                  *)
(***************************************************************************)
EXTENDS FetchPaid, ServiceTermsProofs, FiniteSetTheorems, TLAPS

InvoiceShape(v) ==
  v = [nonce |-> v.nonce, id |-> v.id, quote |-> v.quote,
       expiresAt |-> v.expiresAt, used |-> v.used]

RequestShape(r) ==
  r = [presenter |-> r.presenter, nonce |-> r.nonce, payment |-> r.payment,
       record |-> r.record, step |-> r.step, expiresAt |-> r.expiresAt]

\* Deadlines are moments, and a payment names an invoice that was issued.
LedgerOK ==
  /\ now \in Nat
  /\ issued \in Seq(Nat)
  /\ \A payment \in paid : payment.nonce \in DOMAIN issued /\ payment.timestamp \in Nat

\* An invoice carries the deadline issued with its nonce, and every nonce has
\* its invoice, in the Map and in the file, until its window is over.
InvoicesOK ==
  /\ \A v \in invoices \cup file : /\ InvoiceShape(v)
                                  /\ v.nonce \in DOMAIN issued
                                  /\ v.expiresAt = issued[v.nonce]
                                  /\ v.used \in BOOLEAN
  /\ \A n \in DOMAIN issued :
       \/ (\E v \in invoices : v.nonce = n) /\ (\E v \in file : v.nonce = n)
       \/ issued[n] < now - RedemptionWindow

\* What a request has been checked for by the step it waits at.
RequestOK(r) ==
  /\ RequestShape(r)
  /\ r.step \in {"verify", "sign", "proxy"}
  /\ r.nonce \in DOMAIN issued
  /\ r.payment \in paid
  /\ r.step # "verify" => r.payment.timestamp <= r.expiresAt
  /\ r.step = "proxy" => r.payment.payer = r.presenter

ServedOK ==
  /\ \E S : served \in Seq(S)
  /\ \A i \in DOMAIN served :
       /\ served[i].nonce \in DOMAIN issued
       /\ served[i].payment \in paid
       /\ served[i].payment.timestamp <= served[i].expiresAt
       /\ served[i].payment.payer = served[i].presenter

Calling(n) == \E r \in requests : r.nonce = n /\ r.step = "proxy"
Answered(n) == \E i \in DOMAIN served : served[i].nonce = n

\* A nonce is spent once: with the upstream or answered.
SpentOnce ==
  /\ lost \subseteq DOMAIN issued
  /\ \A q, r \in requests :
       q.step = "proxy" /\ r.step = "proxy" /\ q.nonce = r.nonce => q = r
  /\ \A i, j \in DOMAIN served : served[i].nonce = served[j].nonce => i = j
  /\ \A r \in requests : r.step = "proxy" => ~Answered(r.nonce)

\* A spent nonce has a used invoice, and a used invoice a spent or a lost nonce,
\* unless its window is over.
SpentFits(v) ==
  /\ Calling(v.nonce) \/ Answered(v.nonce) => v.used
  /\ v.used => \/ Calling(v.nonce) \/ Answered(v.nonce)
               \/ v.nonce \in lost
               \/ v.expiresAt < now - RedemptionWindow

UsedMeansSpent == \A v \in invoices \cup file : SpentFits(v)

GInv ==
  /\ LedgerOK
  /\ InvoicesOK
  /\ \A r \in requests : RequestOK(r)
  /\ ServedOK
  /\ SpentOnce
  /\ UsedMeansSpent

-----------------------------------------------------------------------------

\* A set whose members are all equal has at most one.
LEMMA AtMostOne ==
  ASSUME NEW S, \A x, y \in S : x = y
  PROVE  Cardinality(S) = IF S = {} THEN 0 ELSE 1
<1>1. CASE S = {}
  BY <1>1, FS_EmptySet
<1>2. CASE S # {}
  <2>1. PICK x \in S : TRUE
    BY <1>2
  <2>2. S = {x}
    BY <2>1
  <2>3. QED
    BY <1>2, <2>2, FS_Singleton
<1>3. QED
  BY <1>1, <1>2

\* Appending to a sequence of anything keeps the entries it had.
LEMMA AppendKeeps ==
  ASSUME NEW S, NEW s \in Seq(S), NEW x
  PROVE  /\ Append(s, x) \in Seq(S \cup {x})
         /\ Len(s) + 1 \in DOMAIN Append(s, x)
         /\ Len(s) + 1 \notin DOMAIN s
         /\ DOMAIN Append(s, x) = DOMAIN s \cup {Len(s) + 1}
         /\ \A i \in DOMAIN s : Append(s, x)[i] = s[i]
         /\ Append(s, x)[Len(s) + 1] = x
<1>1. s \in Seq(S \cup {x}) /\ x \in S \cup {x}
  OBVIOUS
<1>2. QED
  BY <1>1

\* The invariant gives the three properties.
LEMMA GInvImplies ==
  GInv => EveryServeHasItsOwnPayment /\ BurnedMeansDelivered /\ PaidInvoiceIsKept
<1> SUFFICES ASSUME GInv
             PROVE  EveryServeHasItsOwnPayment /\ BurnedMeansDelivered /\ PaidInvoiceIsKept
  OBVIOUS
<1>1. EveryServeHasItsOwnPayment
  BY DEF GInv, ServedOK, SpentOnce, EveryServeHasItsOwnPayment
<1>2. BurnedMeansDelivered
  <2> SUFFICES ASSUME NEW v \in invoices \cup file
      PROVE  LET deliveries == Cardinality(Calls(v.nonce)) + Cardinality(Answers(v.nonce))
             IN  /\ deliveries <= 1
                 /\ deliveries = 1 => v.used
                 /\ v.used => \/ deliveries = 1
                              \/ v.nonce \in lost
                              \/ v.expiresAt < now - RedemptionWindow
    BY DEF BurnedMeansDelivered
  <2>1. Cardinality(Answers(v.nonce)) = IF Answers(v.nonce) = {} THEN 0 ELSE 1
    <3>1. \A i, j \in Answers(v.nonce) : i = j
      BY DEF GInv, SpentOnce, Answers
    <3>2. QED
      BY <3>1, AtMostOne
  <2>2. Cardinality(Calls(v.nonce)) = IF Calls(v.nonce) = {} THEN 0 ELSE 1
    <3>1. \A q, r \in Calls(v.nonce) : q = r
      BY DEF GInv, SpentOnce, Calls
    <3>2. QED
      BY <3>1, AtMostOne
  <2>3. Calls(v.nonce) # {} <=> Calling(v.nonce)
    BY DEF Calling, Calls
  <2>4. Answers(v.nonce) # {} <=> Answered(v.nonce)
    BY DEF Answered, Answers
  <2>5. ~(Calling(v.nonce) /\ Answered(v.nonce))
    BY DEF GInv, SpentOnce, Calling
  <2>6. /\ Calling(v.nonce) \/ Answered(v.nonce) => v.used
        /\ v.used => \/ Calling(v.nonce) \/ Answered(v.nonce)
                     \/ v.nonce \in lost
                     \/ v.expiresAt < now - RedemptionWindow
    BY DEF GInv, UsedMeansSpent, SpentFits
  <2>7. QED
    BY <2>1, <2>2, <2>3, <2>4, <2>5, <2>6
<1>3. PaidInvoiceIsKept
  <2> SUFFICES ASSUME NEW payment \in paid, Collectable(payment)
               PROVE  InvoiceOf(payment.nonce) # {}
    BY DEF PaidInvoiceIsKept
  <2>1. /\ payment.nonce \in DOMAIN issued /\ payment.timestamp \in Nat
        /\ issued[payment.nonce] \in Nat /\ now \in Nat /\ RedemptionWindow \in Nat
    BY TtlAssumption DEF GInv, LedgerOK
  <2>2. ~(issued[payment.nonce] < now - RedemptionWindow)
    BY <2>1 DEF Collectable
  <2>3. PICK v \in invoices : v.nonce = payment.nonce
    BY <2>1, <2>2 DEF GInv, InvoicesOK
  <2>4. QED
    BY <2>3 DEF InvoiceOf
<1>4. QED
  BY <1>1, <1>2, <1>3

\* An empty gateway satisfies the invariant.
LEMMA InitGInv == Init => GInv
<1> SUFFICES ASSUME Init PROVE GInv
  OBVIOUS
<1>1. served \in Seq({}) /\ issued \in Seq(Nat) /\ DOMAIN served = {} /\ DOMAIN issued = {}
  BY DEF Init
<1>2. ServedOK
  BY <1>1 DEF ServedOK
<1>3. QED
  BY <1>1, <1>2 DEF Init, TermsInit, GInv, LedgerOK, InvoicesOK, SpentOnce, UsedMeansSpent, SpentFits


-----------------------------------------------------------------------------
(***************************************************************************)
(* Most handlers only add an invoice and move requests that are not with   *)
(* the upstream.                                                           *)
(***************************************************************************)

\* Invoices are only added, each unused and with a nonce nobody had; the file is
\* left alone or takes them all.
StoreGrows ==
  /\ issued' \in Seq(Nat)
  /\ DOMAIN issued \subseteq DOMAIN issued'
  /\ \A n \in DOMAIN issued : issued'[n] = issued[n]
  /\ invoices \subseteq invoices'
  /\ file \subseteq file' \/ invoices \subseteq file'
  /\ \A v \in (invoices' \cup file') \ (invoices \cup file) :
       /\ InvoiceShape(v)
       /\ v.nonce \in DOMAIN issued' \ DOMAIN issued
       /\ v.expiresAt = issued'[v.nonce]
       /\ v.used = FALSE
  /\ \A n \in DOMAIN issued' \ DOMAIN issued :
       (\E v \in invoices' : v.nonce = n) /\ (\E v \in file' : v.nonce = n)

\* Requests with the upstream stay, and no other joins them.
UpstreamUntouched ==
  /\ \A r \in requests' : r \in requests \/ (RequestOK(r) /\ r.step # "proxy")
  /\ \A r \in requests : r.step = "proxy" => r \in requests'

\* A challenge adds an invoice with the next nonce, or none.
LEMMA ChallengeGrows ==
  ASSUME GInv, NEW record, Challenge(record)
  PROVE  StoreGrows
<1>1. CASE UNCHANGED <<issued, invoices, file>>
  BY <1>1 DEF GInv, LedgerOK, StoreGrows
<1>2. CASE ~UNCHANGED <<issued, invoices, file>>
  <2> DEFINE v == [nonce |-> Len(issued) + 1, id |-> record.id, quote |-> record,
                   expiresAt |-> now + InvoiceTtl, used |-> FALSE]
  <2>1. issued' = Append(issued, now + InvoiceTtl) /\ invoices' = invoices \cup {v} /\ Saved
    BY <1>2 DEF Challenge, storeVars, NotSaved
  <2>2. now + InvoiceTtl \in Nat /\ issued \in Seq(Nat)
    BY TtlAssumption DEF GInv, LedgerOK
  <2>3. /\ issued' \in Seq(Nat)
        /\ DOMAIN issued' = DOMAIN issued \cup {Len(issued) + 1}
        /\ Len(issued) + 1 \notin DOMAIN issued
        /\ \A n \in DOMAIN issued : issued'[n] = issued[n]
        /\ issued'[Len(issued) + 1] = now + InvoiceTtl
    BY <2>1, <2>2
  <2>4. /\ InvoiceShape(v) /\ v.nonce = Len(issued) + 1
        /\ v.expiresAt = now + InvoiceTtl /\ v.used = FALSE
    BY DEF InvoiceShape
  <2> HIDE DEF v
  <2>5. v \notin invoices
    BY <2>3, <2>4 DEF GInv, InvoicesOK
  <2>6. file' = invoices'
    BY <2>1, <2>5 DEF Saved
  <2>7. QED
    BY <2>1, <2>3, <2>4, <2>6 DEF StoreGrows
<1>3. QED
  BY <1>1, <1>2

\* Leaving the store alone is a way of only adding to it.
LEMMA UnchangedGrows ==
  ASSUME GInv, UNCHANGED storeVars
  PROVE  StoreGrows
BY DEF GInv, LedgerOK, StoreGrows, storeVars

\* Such a step keeps the invariant.
LEMMA GrowthKeepsGInv ==
  ASSUME GInv, StoreGrows, UpstreamUntouched, UNCHANGED <<now, paid, served, lost>>
  PROVE  GInv'
<1> USE DEF StoreGrows
<1>1. LedgerOK'
  BY DEF GInv, LedgerOK
<1>2. InvoicesOK'
  <2>1. ASSUME NEW v \in invoices' \cup file'
        PROVE  /\ InvoiceShape(v)
               /\ v.nonce \in DOMAIN issued'
               /\ v.expiresAt = issued'[v.nonce]
               /\ v.used \in BOOLEAN
    BY <2>1 DEF GInv, InvoicesOK
  <2>2. ASSUME NEW n \in DOMAIN issued'
        PROVE  \/ (\E v \in invoices' : v.nonce = n) /\ (\E v \in file' : v.nonce = n)
               \/ issued'[n] < now' - RedemptionWindow
    BY <2>2 DEF GInv, InvoicesOK
  <2>3. QED
    BY <2>1, <2>2 DEF InvoicesOK, InvoiceShape
<1>3. \A r \in requests' : RequestOK(r)'
  BY DEF GInv, UpstreamUntouched, RequestOK, RequestShape
<1>4. ServedOK'
  BY DEF GInv, ServedOK
<1>5. \A n : Calling(n)' <=> Calling(n)
  BY DEF UpstreamUntouched, Calling
<1>6. \A n : Answered(n)' <=> Answered(n)
  BY DEF Answered
<1>7. SpentOnce'
  BY <1>6 DEF GInv, SpentOnce, UpstreamUntouched
<1>8. UsedMeansSpent'
  <2>1. ASSUME NEW v \in (invoices' \cup file') \ (invoices \cup file)
        PROVE  ~v.used /\ ~Calling(v.nonce) /\ ~Answered(v.nonce)
    BY <2>1 DEF GInv, Calling, Answered, RequestOK, ServedOK
  <2>2. QED
    BY <1>5, <1>6, <2>1 DEF GInv, UsedMeansSpent, SpentFits
<1>9. QED
  BY <1>1, <1>2, <1>3, <1>4, <1>7, <1>8 DEF GInv

\* A request that is refused leaves, with a challenge behind it.
LEMMA RefuseKeepsGInv ==
  ASSUME GInv, NEW request \in requests, request.step # "proxy", Refuse(request),
         UNCHANGED <<now, paid, served, lost>>
  PROVE  GInv'
<1>1. StoreGrows
  BY ChallengeGrows DEF Refuse
<1>2. UpstreamUntouched
  BY DEF UpstreamUntouched, Refuse
<1>3. QED
  BY <1>1, <1>2, GrowthKeepsGInv

-----------------------------------------------------------------------------
(***************************************************************************)
(* One lemma per handler.                                                  *)
(***************************************************************************)

\* A request without a proof.
LEMMA AskKeepsGInv ==
  ASSUME GInv, NEW id, Ask(id)
  PROVE  GInv'
<1>1. PICK record : Challenge(record)
  BY DEF Ask
<1>2. StoreGrows
  BY <1>1, ChallengeGrows
<1>3. UpstreamUntouched /\ UNCHANGED <<now, paid, served, lost>>
  BY DEF Ask, UpstreamUntouched, termsVars
<1>4. QED
  BY <1>2, <1>3, GrowthKeepsGInv

\* A proof that is let in waits for the chain with the deadline its invoice was
\* issued with.
LEMMA PresentKeepsGInv ==
  ASSUME GInv, NEW presenter, NEW id, NEW nonce, NEW payment \in paid,
         Present(presenter, id, nonce, payment)
  PROVE  GInv'
<1> DEFINE usable == {invoice \in InvoiceOf(nonce) : invoice.id = id /\ ~invoice.used}
<1>1. UNCHANGED <<now, paid, served, lost>>
  BY DEF Present, termsVars
<1>2. PICK record :
        IF usable = {}
          THEN Challenge(record) /\ UNCHANGED requests
          ELSE /\ requests' = requests \cup
                     {[ presenter |-> presenter, nonce |-> nonce, payment |-> payment,
                        record |-> record, step |-> "verify",
                        expiresAt |-> (CHOOSE invoice \in usable : TRUE).expiresAt ]}
               /\ UNCHANGED storeVars
  BY DEF Present
<1>3. CASE usable = {}
  <2>1. StoreGrows /\ UpstreamUntouched
    BY <1>2, <1>3, ChallengeGrows DEF UpstreamUntouched
  <2>2. QED
    BY <1>1, <2>1, GrowthKeepsGInv
<1>4. CASE usable # {}
  <2> DEFINE r == [ presenter |-> presenter, nonce |-> nonce, payment |-> payment,
                    record |-> record, step |-> "verify",
                    expiresAt |-> (CHOOSE invoice \in usable : TRUE).expiresAt ]
  <2>1. nonce \in DOMAIN issued
    BY <1>4 DEF GInv, InvoicesOK, InvoiceOf
  <2>2. RequestOK(r) /\ r.step = "verify"
    BY <2>1 DEF RequestOK, RequestShape
  <2>3. requests' = requests \cup {r} /\ UNCHANGED storeVars
    BY <1>2, <1>4
  <2> HIDE DEF r
  <2>4. StoreGrows /\ UpstreamUntouched
    BY <2>2, <2>3, UnchangedGrows DEF UpstreamUntouched
  <2>5. QED
    BY <1>1, <2>4, GrowthKeepsGInv
<1>5. QED
  BY <1>3, <1>4

\* The chain's verdict.
LEMMA VerifyKeepsGInv ==
  ASSUME GInv, NEW request \in requests, Verify(request)
  PROVE  GInv'
<1>1. UNCHANGED <<now, paid, served, lost>> /\ request.step = "verify"
  BY DEF Verify, termsVars
<1>2. CASE Refuse(request)
  BY <1>1, <1>2, RefuseKeepsGInv
<1>3. CASE /\ MovesTo(request, "sign") /\ UNCHANGED storeVars
           /\ request.payment.timestamp <= request.expiresAt
  <2> DEFINE r == [request EXCEPT !.step = "sign"]
  <2>1. RequestOK(request)
    BY DEF GInv
  <2>2. RequestOK(r) /\ r.step = "sign"
    BY <1>3, <2>1 DEF RequestOK, RequestShape
  <2>3. requests' = (requests \ {request}) \cup {r}
    BY <1>3 DEF MovesTo
  <2> HIDE DEF r
  <2>4. StoreGrows /\ UpstreamUntouched
    BY <1>1, <1>3, <2>2, <2>3, UnchangedGrows DEF UpstreamUntouched
  <2>5. QED
    BY <1>1, <2>4, GrowthKeepsGInv
<1>4. QED
  BY <1>2, <1>3 DEF Verify

\* A payment that is not final yet lets its request go.
LEMMA VerifyPendingKeepsGInv ==
  ASSUME GInv, NEW request \in requests, VerifyPending(request)
  PROVE  GInv'
<1>1. UNCHANGED <<now, paid, served, lost>> /\ UNCHANGED storeVars
  BY DEF VerifyPending, termsVars
<1>2. StoreGrows /\ UpstreamUntouched
  BY <1>1, UnchangedGrows DEF VerifyPending, UpstreamUntouched
<1>3. QED
  BY <1>1, <1>2, GrowthKeepsGInv

\* Marking the invoices of one nonce changes nothing else about them, whether the
\* file takes it or not.
LEMMA SetUsedOK ==
  ASSUME InvoicesOK, LedgerOK, NEW nonce, NEW used \in BOOLEAN, SetUsed(nonce, used),
         file' = file \/ file' = invoices', UNCHANGED <<now, issued>>
  PROVE  /\ InvoicesOK'
         /\ \A v \in invoices' : \E w \in invoices :
              /\ v.nonce = w.nonce /\ v.expiresAt = w.expiresAt
              /\ v.used = IF w.nonce = nonce THEN used ELSE w.used
<1> DEFINE Set(w) == [w EXCEPT !.used = IF w.nonce = nonce THEN used ELSE @]
<1>1. invoices' = {Set(w) : w \in invoices}
  BY DEF SetUsed
<1>2. ASSUME NEW w \in invoices
      PROVE  /\ InvoiceShape(Set(w))
             /\ Set(w).nonce = w.nonce
             /\ Set(w).expiresAt = w.expiresAt
             /\ Set(w).used = IF w.nonce = nonce THEN used ELSE w.used
             /\ Set(w).used \in BOOLEAN
  BY DEF InvoicesOK, InvoiceShape
<1> HIDE DEF Set
<1>3. ASSUME NEW v \in invoices'
      PROVE  \E w \in invoices : v = Set(w)
  BY <1>1, <1>3
<1>4. ASSUME NEW v \in invoices' \cup file'
      PROVE  /\ InvoiceShape(v)
             /\ v.nonce \in DOMAIN issued
             /\ v.expiresAt = issued[v.nonce]
             /\ v.used \in BOOLEAN
  <2>1. CASE v \in invoices'
    BY <1>2, <1>3, <2>1 DEF InvoicesOK
  <2>2. CASE v \in file
    BY <2>2 DEF InvoicesOK
  <2>3. QED
    BY <1>4, <2>1, <2>2
<1>5. ASSUME NEW n \in DOMAIN issued, ~(issued[n] < now - RedemptionWindow)
      PROVE  (\E v \in invoices' : v.nonce = n) /\ (\E v \in file' : v.nonce = n)
  <2>1. PICK w \in invoices : w.nonce = n
    BY <1>5 DEF InvoicesOK
  <2>2. Set(w) \in invoices' /\ Set(w).nonce = n
    BY <1>1, <1>2, <2>1
  <2>3. \E v \in file : v.nonce = n
    BY <1>5 DEF InvoicesOK
  <2>4. QED
    BY <2>2, <2>3
<1>6. InvoicesOK'
  BY <1>4, <1>5 DEF InvoicesOK, InvoiceShape
<1>7. QED
  BY <1>2, <1>3, <1>6

\* Burning takes a nonce that is not spent, so it is spent once.
LEMMA BurnKeepsGInv ==
  ASSUME GInv, NEW request \in requests, Burn(request)
  PROVE  GInv'
<1>1. UNCHANGED <<now, paid, served, lost>> /\ request.step = "sign"
  BY DEF Burn, termsVars
<1>2. CASE Refuse(request)
  BY <1>1, <1>2, RefuseKeepsGInv
<1>3. CASE /\ MayBurn(request)
           /\ SetUsed(request.nonce, TRUE) /\ Saved /\ MovesTo(request, "proxy")
           /\ UNCHANGED issued
  <2> DEFINE r == [request EXCEPT !.step = "proxy"]
  <2>1. RequestOK(request)
    BY DEF GInv
  <2>2. RequestOK(r) /\ r.step = "proxy" /\ r.nonce = request.nonce
    BY <1>1, <1>3, <2>1 DEF RequestOK, RequestShape, MayBurn
  <2>3. requests' = (requests \ {request}) \cup {r}
    BY <1>3 DEF MovesTo
  <2> HIDE DEF r
  <2>4. ~Calling(request.nonce) /\ ~Answered(request.nonce)
    BY <1>3 DEF GInv, UsedMeansSpent, SpentFits, InvoiceOf, MayBurn
  <2>5. \A n : Calling(n)' <=> Calling(n) \/ n = request.nonce
    BY <1>1, <2>2, <2>3 DEF Calling
  <2>6. \A n : Answered(n)' <=> Answered(n)
    BY <1>1 DEF Answered
  <2>7. /\ InvoicesOK'
        /\ \A v \in invoices' : \E w \in invoices :
              /\ v.nonce = w.nonce /\ v.expiresAt = w.expiresAt
              /\ v.used = IF w.nonce = request.nonce THEN TRUE ELSE w.used
        /\ file' = invoices'
    <3>1. file' = file \/ file' = invoices'
      BY <1>3 DEF Saved
    <3>2. /\ InvoicesOK'
          /\ \A v \in invoices' : \E w \in invoices :
               /\ v.nonce = w.nonce /\ v.expiresAt = w.expiresAt
               /\ v.used = IF w.nonce = request.nonce THEN TRUE ELSE w.used
      BY <1>1, <1>3, <3>1, SetUsedOK DEF GInv
    <3>3. invoices' # invoices
      <4>1. PICK w \in invoices : w.nonce = request.nonce /\ ~w.used
        BY <1>3 DEF MayBurn, InvoiceOf
      <4>2. \A v \in invoices' : v.nonce = request.nonce => v.used
        BY <3>2
      <4>3. QED
        BY <4>1, <4>2
    <3>4. QED
      BY <1>3, <3>2, <3>3 DEF Saved
  <2>8. LedgerOK' /\ ServedOK'
    BY <1>1, <1>3 DEF GInv, LedgerOK, ServedOK
  <2>9. \A q \in requests' : RequestOK(q)'
    BY <1>1, <1>3, <2>2, <2>3 DEF GInv, RequestOK, RequestShape
  <2>10. SpentOnce'
    <3>1. ASSUME NEW p \in requests', NEW q \in requests',
                 p.step = "proxy", q.step = "proxy", p.nonce = q.nonce
          PROVE  p = q
      BY <2>2, <2>3, <2>4, <3>1 DEF GInv, SpentOnce, Calling
    <3>2. \A q \in requests' : q.step = "proxy" => ~Answered(q.nonce)
      BY <2>2, <2>3, <2>4 DEF GInv, SpentOnce
    <3>3. QED
      BY <1>1, <1>3, <2>6, <3>1, <3>2 DEF GInv, SpentOnce
  <2>11. UsedMeansSpent'
    <3>1. ASSUME NEW v \in invoices' PROVE SpentFits(v)'
      <4>1. PICK w \in invoices :
              /\ v.nonce = w.nonce /\ v.expiresAt = w.expiresAt
              /\ v.used = IF w.nonce = request.nonce THEN TRUE ELSE w.used
        BY <2>7
      <4>2. CASE w.nonce = request.nonce
        BY <2>5, <4>1, <4>2 DEF SpentFits
      <4>3. CASE w.nonce # request.nonce
        <5>1. SpentFits(w)
          BY DEF GInv, UsedMeansSpent
        <5>2. v.used = w.used
          BY <4>1, <4>3
        <5>3. QED
          BY <1>1, <2>5, <2>6, <4>1, <4>3, <5>1, <5>2 DEF SpentFits
      <4>4. QED
        BY <4>2, <4>3
    <3>2. QED
      BY <2>7, <3>1 DEF UsedMeansSpent
  <2>12. QED
    BY <2>7, <2>8, <2>9, <2>10, <2>11 DEF GInv
<1>4. QED
  BY <1>2, <1>3 DEF Burn

\* A burn that was not written leaves a nonce that is not spent, and lost.
LEMMA BurnFailsKeepsGInv ==
  ASSUME GInv, NEW request \in requests, BurnFails(request)
  PROVE  GInv'
<1>1. /\ UNCHANGED <<now, paid, issued, served, file>> /\ request.step = "sign"
      /\ requests' = requests \ {request} /\ SetUsed(request.nonce, TRUE)
      /\ lost' = lost \cup {request.nonce}
  BY DEF BurnFails, NotSaved, termsVars
<1>2. InvoicesOK' /\ \A v \in invoices' : \E w \in invoices :
          /\ v.nonce = w.nonce /\ v.expiresAt = w.expiresAt
          /\ v.used = IF w.nonce = request.nonce THEN TRUE ELSE w.used
  BY <1>1, SetUsedOK DEF GInv
<1>3. \A n : (Calling(n)' <=> Calling(n)) /\ (Answered(n)' <=> Answered(n))
  BY <1>1 DEF Calling, Answered
<1>4. request.nonce \in DOMAIN issued
  BY DEF GInv, RequestOK
<1>5. SpentOnce'
  BY <1>1, <1>3, <1>4 DEF GInv, SpentOnce
<1>6. UsedMeansSpent'
  <2>1. ASSUME NEW v \in invoices' PROVE SpentFits(v)'
    <3>1. PICK w \in invoices :
            /\ v.nonce = w.nonce /\ v.expiresAt = w.expiresAt
            /\ v.used = IF w.nonce = request.nonce THEN TRUE ELSE w.used
      BY <1>2
    <3>2. CASE w.nonce = request.nonce
      BY <1>1, <3>1, <3>2 DEF SpentFits
    <3>3. CASE w.nonce # request.nonce
      <4>1. SpentFits(w)
        BY DEF GInv, UsedMeansSpent
      <4>2. v.used = w.used
        BY <3>1, <3>3
      <4>3. QED
        BY <1>1, <1>3, <3>1, <4>1, <4>2 DEF SpentFits
    <3>4. QED
      BY <3>2, <3>3
  <2>2. ASSUME NEW v \in file PROVE SpentFits(v)'
    BY <1>1, <1>3 DEF GInv, UsedMeansSpent, SpentFits
  <2>3. QED
    BY <1>1, <2>1, <2>2 DEF UsedMeansSpent
<1>7. LedgerOK' /\ ServedOK'
  BY <1>1 DEF GInv, LedgerOK, ServedOK
<1>8. \A r \in requests' : RequestOK(r)'
  BY <1>1 DEF GInv, RequestOK, RequestShape
<1>9. QED
  BY <1>2, <1>5, <1>6, <1>7, <1>8 DEF GInv

\* An answer moves a nonce from the upstream to the answered ones.
LEMMA UpstreamAnswersKeepsGInv ==
  ASSUME GInv, NEW request \in requests, UpstreamAnswers(request)
  PROVE  GInv'
<1>1. /\ UNCHANGED <<now, paid, lost, issued, invoices, file>> /\ request.step = "proxy"
      /\ requests' = requests \ {request} /\ served' = Append(served, request)
  BY DEF UpstreamAnswers, termsVars, storeVars
<1>2. PICK S : served \in Seq(S)
  BY DEF GInv, ServedOK
<1> DEFINE last == Len(served) + 1
<1>3. /\ served' \in Seq(S \cup {request})
      /\ DOMAIN served' = DOMAIN served \cup {last}
      /\ last \notin DOMAIN served
      /\ \A i \in DOMAIN served : served'[i] = served[i]
      /\ served'[last] = request
  BY <1>1, <1>2, AppendKeeps
<1> HIDE DEF last
<1>4. RequestOK(request)
  BY DEF GInv
<1>5. ServedOK'
  <2>1. ASSUME NEW i \in DOMAIN served'
        PROVE  /\ served'[i].nonce \in DOMAIN issued
               /\ served'[i].payment \in paid
               /\ served'[i].payment.timestamp <= served'[i].expiresAt
               /\ served'[i].payment.payer = served'[i].presenter
    BY <1>1, <1>3, <1>4, <2>1 DEF GInv, ServedOK, RequestOK
  <2>2. QED
    BY <1>1, <1>3, <2>1 DEF ServedOK
<1>6. /\ ~Answered(request.nonce)
      /\ \A r \in requests' : r.step = "proxy" => r.nonce # request.nonce
  BY <1>1 DEF GInv, SpentOnce
<1>7. \A n : Answered(n)' <=> Answered(n) \/ n = request.nonce
  BY <1>3 DEF Answered
<1>8. \A n : Calling(n) <=> Calling(n)' \/ n = request.nonce
  BY <1>1 DEF Calling
<1>9. SpentOnce'
  <2>1. ASSUME NEW i \in DOMAIN served', NEW j \in DOMAIN served',
               served'[i].nonce = served'[j].nonce
        PROVE  i = j
    BY <1>3, <1>6, <2>1 DEF GInv, SpentOnce, Answered
  <2>2. \A r \in requests' : r.step = "proxy" => ~Answered(r.nonce)'
    BY <1>1, <1>6, <1>7 DEF GInv, SpentOnce
  <2>3. QED
    BY <1>1, <2>1, <2>2 DEF GInv, SpentOnce
<1>10. UsedMeansSpent'
  BY <1>1, <1>7, <1>8 DEF GInv, UsedMeansSpent, SpentFits
<1>11. LedgerOK' /\ InvoicesOK'
  BY <1>1 DEF GInv, LedgerOK, InvoicesOK, InvoiceShape
<1>12. \A r \in requests' : RequestOK(r)'
  BY <1>1 DEF GInv, RequestOK, RequestShape
<1>13. QED
  BY <1>5, <1>9, <1>10, <1>11, <1>12 DEF GInv

\* A failed call gives back a nonce that nothing else spends.
LEMMA UpstreamFailsKeepsGInv ==
  ASSUME GInv, NEW request \in requests, UpstreamFails(request)
  PROVE  GInv'
<1>1. /\ UNCHANGED <<now, paid, lost, issued, served>> /\ request.step = "proxy"
      /\ requests' = requests \ {request} /\ SetUsed(request.nonce, FALSE)
      /\ file' = IF invoices' = invoices THEN file ELSE invoices'
  BY DEF UpstreamFails, Saved, termsVars
<1>2. InvoicesOK' /\ \A v \in invoices' : \E w \in invoices :
          /\ v.nonce = w.nonce /\ v.expiresAt = w.expiresAt
          /\ v.used = IF w.nonce = request.nonce THEN FALSE ELSE w.used
  BY <1>1, SetUsedOK DEF GInv
<1>3. /\ ~Answered(request.nonce) /\ Calling(request.nonce)
      /\ \A r \in requests' : r.step = "proxy" => r.nonce # request.nonce
  BY <1>1 DEF GInv, SpentOnce, Calling
<1>4. \A n : Calling(n)' <=> Calling(n) /\ n # request.nonce
  BY <1>1, <1>3 DEF Calling
<1>5. \A n : Answered(n)' <=> Answered(n)
  BY <1>1 DEF Answered
<1>6. SpentOnce'
  BY <1>1, <1>5 DEF GInv, SpentOnce
<1>7. UsedMeansSpent'
  <2>1. ASSUME NEW v \in invoices' PROVE SpentFits(v)'
    <3>1. PICK w \in invoices :
            /\ v.nonce = w.nonce /\ v.expiresAt = w.expiresAt
            /\ v.used = IF w.nonce = request.nonce THEN FALSE ELSE w.used
      BY <1>2
    <3>2. CASE w.nonce = request.nonce
      BY <1>3, <1>4, <1>5, <3>1, <3>2 DEF SpentFits
    <3>3. CASE w.nonce # request.nonce
      <4>1. SpentFits(w)
        BY DEF GInv, UsedMeansSpent
      <4>2. v.used = w.used
        BY <3>1, <3>3
      <4>3. QED
        BY <1>1, <1>4, <1>5, <3>1, <3>3, <4>1, <4>2 DEF SpentFits
    <3>4. QED
      BY <3>2, <3>3
  <2>2. ASSUME NEW v \in file, invoices' = invoices PROVE SpentFits(v)'
    <3>1. \A w \in invoices : w.nonce = request.nonce => ~w.used
      BY <1>2, <2>2
    <3>2. \A w \in invoices : w.nonce # request.nonce
      BY <1>3, <3>1 DEF GInv, UsedMeansSpent, SpentFits
    <3>3. v.nonce = request.nonce => v.expiresAt < now - RedemptionWindow
      BY <3>2 DEF GInv, InvoicesOK
    <3>4. SpentFits(v)
      BY DEF GInv, UsedMeansSpent
    <3>5. QED
      BY <1>1, <1>3, <1>4, <1>5, <3>3, <3>4 DEF SpentFits
  <2>3. QED
    BY <1>1, <2>1, <2>2 DEF UsedMeansSpent
<1>8. LedgerOK' /\ ServedOK'
  BY <1>1 DEF GInv, LedgerOK, ServedOK
<1>9. \A r \in requests' : RequestOK(r)'
  BY <1>1 DEF GInv, RequestOK, RequestShape
<1>10. QED
  BY <1>2, <1>6, <1>7, <1>8, <1>9 DEF GInv

\* A release that was not written leaves its nonce lost.
LEMMA ReleaseFailsKeepsGInv ==
  ASSUME GInv, NEW request \in requests, ReleaseFails(request)
  PROVE  GInv'
<1>1. /\ UNCHANGED <<now, paid, issued, served, file>> /\ request.step = "proxy"
      /\ requests' = requests \ {request} /\ SetUsed(request.nonce, FALSE)
      /\ lost' = lost \cup {request.nonce}
  BY DEF ReleaseFails, NotSaved, termsVars
<1>2. InvoicesOK' /\ \A v \in invoices' : \E w \in invoices :
          /\ v.nonce = w.nonce /\ v.expiresAt = w.expiresAt
          /\ v.used = IF w.nonce = request.nonce THEN FALSE ELSE w.used
  BY <1>1, SetUsedOK DEF GInv
<1>3. /\ ~Answered(request.nonce)
      /\ \A r \in requests' : r.step = "proxy" => r.nonce # request.nonce
  BY <1>1 DEF GInv, SpentOnce
<1>4. \A n : Calling(n)' <=> Calling(n) /\ n # request.nonce
  BY <1>1, <1>3 DEF Calling
<1>5. \A n : Answered(n)' <=> Answered(n)
  BY <1>1 DEF Answered
<1>6. request.nonce \in DOMAIN issued
  BY DEF GInv, RequestOK
<1>7. SpentOnce'
  BY <1>1, <1>5, <1>6 DEF GInv, SpentOnce
<1>8. UsedMeansSpent'
  <2>1. ASSUME NEW v \in invoices' PROVE SpentFits(v)'
    <3>1. PICK w \in invoices :
            /\ v.nonce = w.nonce /\ v.expiresAt = w.expiresAt
            /\ v.used = IF w.nonce = request.nonce THEN FALSE ELSE w.used
      BY <1>2
    <3>2. CASE w.nonce = request.nonce
      BY <1>1, <1>3, <1>4, <1>5, <3>1, <3>2 DEF SpentFits
    <3>3. CASE w.nonce # request.nonce
      <4>1. SpentFits(w)
        BY DEF GInv, UsedMeansSpent
      <4>2. v.used = w.used
        BY <3>1, <3>3
      <4>3. QED
        BY <1>1, <1>4, <1>5, <3>1, <3>3, <4>1, <4>2 DEF SpentFits
    <3>4. QED
      BY <3>2, <3>3
  <2>2. ASSUME NEW v \in file PROVE SpentFits(v)'
    <3>1. SpentFits(v)
      BY DEF GInv, UsedMeansSpent
    <3>2. QED
      BY <1>1, <1>3, <1>4, <1>5, <3>1 DEF SpentFits
  <2>3. QED
    BY <1>1, <2>1, <2>2 DEF UsedMeansSpent
<1>9. LedgerOK' /\ ServedOK'
  BY <1>1 DEF GInv, LedgerOK, ServedOK
<1>10. \A r \in requests' : RequestOK(r)'
  BY <1>1 DEF GInv, RequestOK, RequestShape
<1>11. QED
  BY <1>2, <1>7, <1>8, <1>9, <1>10 DEF GInv

\* An invoice is swept only when its window is over.
LEMMA SweepKeepsGInv ==
  ASSUME GInv, Sweep
  PROVE  GInv'
<1>1. /\ UNCHANGED <<now, paid, lost, issued, served, requests>>
      /\ invoices' = {v \in invoices : v.expiresAt >= now - RedemptionWindow}
      /\ file' = file \/ file' = invoices'
  BY DEF Sweep, Saved, NotSaved, termsVars
<1>2. InvoicesOK'
  <2>1. ASSUME NEW n \in DOMAIN issued
        PROVE  \/ (\E v \in invoices' : v.nonce = n) /\ (\E v \in file' : v.nonce = n)
               \/ issued[n] < now - RedemptionWindow
    <3>1. CASE issued[n] < now - RedemptionWindow
      BY <3>1
    <3>2. CASE ~(issued[n] < now - RedemptionWindow)
      <4>1. PICK v \in invoices : v.nonce = n /\ v.expiresAt = issued[n]
        BY <2>1, <3>2 DEF GInv, InvoicesOK
      <4>2. issued[n] \in Nat /\ now \in Nat /\ RedemptionWindow \in Nat
        BY <2>1, TtlAssumption DEF GInv, LedgerOK
      <4>3. v.expiresAt >= now - RedemptionWindow
        BY <3>2, <4>1, <4>2
      <4>4. v \in invoices' /\ \E w \in file : w.nonce = n
        BY <1>1, <2>1, <3>2, <4>1, <4>3 DEF GInv, InvoicesOK
      <4>5. QED
        BY <1>1, <4>1, <4>4
    <3>3. QED
      BY <3>1, <3>2
  <2>2. QED
    BY <1>1, <2>1 DEF GInv, InvoicesOK, InvoiceShape
<1>3. UsedMeansSpent'
  BY <1>1 DEF GInv, UsedMeansSpent, SpentFits, Calling, Answered
<1>4. LedgerOK' /\ ServedOK' /\ SpentOnce'
  BY <1>1 DEF GInv, LedgerOK, ServedOK, SpentOnce, Answered
<1>5. \A r \in requests' : RequestOK(r)'
  BY <1>1 DEF GInv, RequestOK, RequestShape
<1>6. QED
  BY <1>2, <1>3, <1>4, <1>5 DEF GInv

\* A crash turns the calls at the upstream into lost ones.
LEMMA CrashKeepsGInv ==
  ASSUME GInv, Crash
  PROVE  GInv'
<1>1. /\ UNCHANGED <<now, paid, issued, file, served>> /\ requests' = {} /\ invoices' = file
      /\ lost' = lost \cup {r.nonce : r \in {q \in requests : q.step = "proxy"}}
  BY DEF Crash, termsVars
<1>2. \A n : n \in lost' <=> n \in lost \/ Calling(n)
  BY <1>1 DEF Calling
<1>3. \A n : ~Calling(n)' /\ (Answered(n)' <=> Answered(n))
  BY <1>1 DEF Calling, Answered
<1>4. SpentOnce'
  <2>1. lost' \subseteq DOMAIN issued
    BY <1>2 DEF GInv, SpentOnce, RequestOK, Calling
  <2>2. QED
    BY <1>1, <2>1 DEF GInv, SpentOnce
<1>5. UsedMeansSpent'
  BY <1>1, <1>2, <1>3 DEF GInv, UsedMeansSpent, SpentFits
<1>6. LedgerOK' /\ InvoicesOK' /\ ServedOK'
  BY <1>1 DEF GInv, LedgerOK, InvoicesOK, ServedOK, InvoiceShape
<1>7. QED
  BY <1>1, <1>4, <1>5, <1>6 DEF GInv

\* A payment is of an invoice that has been quoted.
LEMMA PayKeepsGInv ==
  ASSUME GInv, NEW payer, NEW id, NEW nonce, NEW payTo, NEW amount,
         Pay(payer, id, nonce, payTo, amount)
  PROVE  GInv'
<1> DEFINE payment == [id |-> id, nonce |-> nonce, payer |-> payer, payTo |-> payTo,
                       amount |-> amount, timestamp |-> now]
<1>1. /\ UNCHANGED <<now, issued, invoices, file, requests, served, lost>>
      /\ nonce \in DOMAIN issued /\ paid' = paid \cup {payment}
  BY DEF Pay, termsVars, gatewayVars, storeVars
<1>2. payment.nonce \in DOMAIN issued /\ payment.timestamp \in Nat
  BY <1>1 DEF GInv, LedgerOK
<1> HIDE DEF payment
<1>3. LedgerOK' /\ ServedOK'
  BY <1>1, <1>2 DEF GInv, LedgerOK, ServedOK
<1>4. InvoicesOK' /\ SpentOnce' /\ UsedMeansSpent'
  BY <1>1 DEF GInv, InvoicesOK, SpentOnce, UsedMeansSpent, SpentFits, Answered, Calling, InvoiceShape
<1>5. \A r \in requests' : RequestOK(r)'
  BY <1>1 DEF GInv, RequestOK, RequestShape
<1>6. QED
  BY <1>3, <1>4, <1>5 DEF GInv

\* The registry's transactions leave the clock alone, or move it on.
LEMMA TermsMoveTheClock ==
  ASSUME TermsNext
  PROVE  now' = now \/ now' = now + 1
BY DEF TermsNext, RegisterService, OwnerTransaction, OwnerSets, SetActive,
       SetGatewayBaseUrl, SetAttestor, SetPaymentTarget, SetAccepts,
       TransferOwnership, AcceptOwnership, Tick

\* Time only takes invoices out of their window.
LEMMA ClockKeepsGInv ==
  ASSUME GInv, now' = now \/ now' = now + 1, UNCHANGED <<gatewayVars, paid>>
  PROVE  GInv'
<1>1. UNCHANGED <<issued, invoices, file, requests, served, lost, paid>>
  BY DEF gatewayVars, storeVars
<1>2. now \in Nat /\ now' \in Nat /\ now <= now' /\ RedemptionWindow \in Nat
  BY TtlAssumption DEF GInv, LedgerOK
<1>3. \A n \in DOMAIN issued :
        issued[n] < now - RedemptionWindow => issued[n] < now' - RedemptionWindow
  BY <1>2 DEF GInv, LedgerOK
<1>4. InvoicesOK'
  BY <1>1, <1>3 DEF GInv, InvoicesOK, InvoiceShape
<1>5. LedgerOK' /\ ServedOK' /\ SpentOnce'
  BY <1>1, <1>2 DEF GInv, LedgerOK, ServedOK, SpentOnce, Answered
<1>6. \A r \in requests' : RequestOK(r)'
  BY <1>1 DEF GInv, RequestOK, RequestShape
<1>7. UsedMeansSpent'
  <2>1. \A v \in invoices \cup file :
          v.expiresAt < now - RedemptionWindow => v.expiresAt < now' - RedemptionWindow
    BY <1>3 DEF GInv, InvoicesOK
  <2>2. QED
    BY <1>1, <2>1 DEF GInv, UsedMeansSpent, SpentFits, Answered, Calling
<1>8. QED
  BY <1>4, <1>5, <1>6, <1>7 DEF GInv

\* No step breaks the invariant.
LEMMA NextGInv == GInv /\ [Next]_vars => GInv'
<1> SUFFICES ASSUME GInv, [Next]_vars PROVE GInv'
  OBVIOUS
<1>1. CASE TermsNext /\ UNCHANGED <<gatewayVars, paid>>
  BY <1>1, TermsMoveTheClock, ClockKeepsGInv
<1>2. CASE PaywallNext(Account)
  <2>1. ASSUME NEW id \in ServiceId, Ask(id) PROVE GInv'
    BY <2>1, AskKeepsGInv
  <2>2. ASSUME NEW presenter \in Account, NEW id \in ServiceId, NEW nonce \in Nonce,
               NEW payment \in paid, Present(presenter, id, nonce, payment)
        PROVE  GInv'
    BY <2>2, PresentKeepsGInv
  <2>3. ASSUME NEW request \in requests, Verify(request) PROVE GInv'
    BY <2>3, VerifyKeepsGInv
  <2>4. ASSUME NEW request \in requests, VerifyPending(request) PROVE GInv'
    BY <2>4, VerifyPendingKeepsGInv
  <2>5. ASSUME NEW request \in requests, Burn(request) PROVE GInv'
    BY <2>5, BurnKeepsGInv
  <2>6. ASSUME NEW request \in requests, UpstreamAnswers(request) PROVE GInv'
    BY <2>6, UpstreamAnswersKeepsGInv
  <2>7. ASSUME NEW request \in requests, UpstreamFails(request) PROVE GInv'
    BY <2>7, UpstreamFailsKeepsGInv
  <2>8. ASSUME NEW request \in requests, BurnFails(request) \/ ReleaseFails(request) PROVE GInv'
    BY <2>8, BurnFailsKeepsGInv, ReleaseFailsKeepsGInv
  <2>9. CASE Sweep
    BY <2>9, SweepKeepsGInv
  <2>10. CASE Crash
    BY <2>10, CrashKeepsGInv
  <2>11. QED
    BY <1>2, <2>1, <2>2, <2>3, <2>4, <2>5, <2>6, <2>7, <2>8, <2>9, <2>10 DEF PaywallNext
<1>3. ASSUME NEW payer \in Account, NEW payTo \in Account, NEW id \in ServiceId,
             NEW nonce \in Nonce, NEW amount \in Price, Pay(payer, id, nonce, payTo, amount)
      PROVE  GInv'
  BY <1>3, PayKeepsGInv
<1>4. CASE UNCHANGED vars
  <2>1. now' = now /\ UNCHANGED <<gatewayVars, paid>>
    BY <1>4 DEF vars, termsVars
  <2>2. QED
    BY <2>1, ClockKeepsGInv
<1>5. QED
  BY <1>1, <1>2, <1>3, <1>4 DEF Next

-----------------------------------------------------------------------------
(***************************************************************************)
(* The theorems.                                                           *)
(***************************************************************************)

\* The invariant holds throughout (all of app.ts's paid path, with restarts and
\* with writes of the store that fail).
THEOREM GatewayInvariant == Spec => []GInv
<1>1. Init => GInv
  BY InitGInv
<1>2. GInv /\ [Next]_vars => GInv'
  BY NextGInv
<1>3. QED
  BY <1>1, <1>2, PTL DEF Spec

\* No interleaving of proofs, releases, sweeps and restarts serves two calls for
\* one settlement or one invoice, whatever the delays and however many requests
\* are in flight (the burn before the proxy in app.ts).
THEOREM NoServeWithoutPayment == Spec => []EveryServeHasItsOwnPayment
BY GatewayInvariant, GInvImplies, PTL

\* In the Map and in the file of the store, an invoice whose call is with the
\* upstream or was answered is burned, and one that is burned for neither had its
\* call cut off by a crash or a failed write, or is past its window, however many
\* requests, crashes and failed writes there are (markUsed, release, persist).
THEOREM BurnedWasDelivered == Spec => []BurnedMeansDelivered
BY GatewayInvariant, GInvImplies, PTL

\* A timely payment finds its invoice for the whole redemption window (the
\* sweep of the invoice store).
THEOREM PaidInvoiceStays == Spec => []PaidInvoiceIsKept
BY GatewayInvariant, GInvImplies, PTL


-----------------------------------------------------------------------------
(***************************************************************************)
(* The client's verdicts.  A nonce belongs to one call, has one request at *)
(* a time, and only while its call waits or has given up on the answer.    *)
(***************************************************************************)

CallShape(c) ==
  c.step \notin {"idle", "listed", "unquoted"} =>
    c = [step |-> c.step, listed |-> c.listed, quote |-> c.quote, nonce |-> c.nonce,
         expiresAt |-> c.expiresAt, retries |-> c.retries]

HasNonce(buyer) == calls[buyer].step \notin {"idle", "listed", "unquoted"}

\* This nonce was issued to the buyer's call, which is at one of these steps.
BelongsTo(nonce, buyer, steps) ==
  /\ buyer \in Buyer
  /\ HasNonce(buyer)
  /\ calls[buyer].nonce = nonce
  /\ calls[buyer].step \in steps

ClientTypeOK ==
  /\ now \in Nat
  /\ issued \in Seq(Nat)
  /\ \E S : served \in Seq(S)
  /\ calls = [buyer \in Buyer |-> calls[buyer]]
  /\ \A buyer \in Buyer : CallShape(calls[buyer])
  /\ \A r \in requests : RequestShape(r)

NoncesOK ==
  /\ \A buyer \in Buyer : HasNonce(buyer) => calls[buyer].nonce \in DOMAIN issued
  /\ \A b, c \in Buyer :
       HasNonce(b) /\ HasNonce(c) /\ calls[b].nonce = calls[c].nonce => b = c

AnswersOK ==
  /\ \A r \in requests : BelongsTo(r.nonce, r.presenter, {"waiting", "failed"})
  /\ \A q, r \in requests : q.nonce = r.nonce => q = r
  /\ \A i \in DOMAIN served :
       BelongsTo(served[i].nonce, served[i].presenter, {"served", "failed"})

ClientInv == ClientTypeOK /\ NoncesOK /\ AnswersOK

\* The call of one buyer is now this one.
CallBecomes(buyer, call) ==
  calls' = [b \in Buyer |-> IF b = buyer THEN call ELSE calls[b]]

\* Deadlines are only added.
IssuedGrows == issued' \in Seq(Nat) /\ DOMAIN issued \subseteq DOMAIN issued'

\* A call goes on with the fields it had.
LEMMA EndsIsBecomes ==
  ASSUME ClientTypeOK, NEW buyer \in Buyer, HasNonce(buyer),
         NEW step, step \notin {"idle", "listed", "unquoted"}, Ends(buyer, step)
  PROVE  \E call : /\ CallBecomes(buyer, call) /\ CallShape(call)
                   /\ call.step = step /\ call.nonce = calls[buyer].nonce
<1> DEFINE call == [calls[buyer] EXCEPT !.step = step]
<1>1. CallBecomes(buyer, call)
  BY DEF Ends, Goes, CallBecomes, ClientTypeOK
<1>2. CallShape(call) /\ call.step = step /\ call.nonce = calls[buyer].nonce
  <2> DEFINE c == calls[buyer]
  <2>1. c = [step |-> c.step, listed |-> c.listed, quote |-> c.quote, nonce |-> c.nonce,
             expiresAt |-> c.expiresAt, retries |-> c.retries]
    BY DEF ClientTypeOK, CallShape, HasNonce
  <2> HIDE DEF c
  <2>2. [c EXCEPT !.step = step] =
          [step |-> step, listed |-> c.listed, quote |-> c.quote, nonce |-> c.nonce,
           expiresAt |-> c.expiresAt, retries |-> c.retries]
    BY <2>1
  <2>3. QED
    BY <2>2 DEF CallShape, c
<1>3. QED
  BY <1>1, <1>2

\* A step of one call, its request or its answer keeps the invariant, if the
\* nonce keeps to one request at a time and the call's step says what became of
\* it.
LEMMA StepOfCall ==
  ASSUME ClientInv, now' \in Nat, IssuedGrows,
         NEW buyer \in Buyer, NEW call, HasNonce(buyer),
         CallBecomes(buyer, call), CallShape(call),
         call.step \notin {"idle", "listed", "unquoted"}, call.nonce = calls[buyer].nonce,
         \A r \in requests' :
           r \in requests \/ (RequestShape(r) /\ r.nonce = call.nonce /\ r.presenter = buyer),
         \A q, r \in requests' : q.nonce = call.nonce /\ r.nonce = call.nonce => q = r,
         call.step \notin {"waiting", "failed"} => \A r \in requests' : r.nonce # call.nonce,
         \/ served' = served
         \/ \E request : /\ request.nonce = call.nonce /\ request.presenter = buyer
                         /\ served' = Append(served, request),
         call.step \notin {"served", "failed"}
           => \A i \in DOMAIN served' : served'[i].nonce # call.nonce
  PROVE  ClientInv'
<1>1. \A b \in Buyer : calls'[b] = IF b = buyer THEN call ELSE calls[b]
  BY DEF CallBecomes
<1>2. /\ \E S : served' \in Seq(S)
      /\ \A i \in DOMAIN served' :
           \/ i \in DOMAIN served /\ served'[i] = served[i]
           \/ served'[i].nonce = call.nonce /\ served'[i].presenter = buyer
  <2>1. CASE served' = served
    BY <2>1 DEF ClientInv, ClientTypeOK
  <2>2. CASE \E request : /\ request.nonce = call.nonce /\ request.presenter = buyer
                          /\ served' = Append(served, request)
    <3>1. PICK request : /\ request.nonce = call.nonce /\ request.presenter = buyer
                         /\ served' = Append(served, request)
      BY <2>2
    <3>2. PICK S : served \in Seq(S)
      BY DEF ClientInv, ClientTypeOK
    <3>3. /\ served' \in Seq(S \cup {request})
          /\ DOMAIN served' = DOMAIN served \cup {Len(served) + 1}
          /\ \A i \in DOMAIN served : served'[i] = served[i]
          /\ served'[Len(served) + 1] = request
      BY <3>1, <3>2, AppendKeeps
    <3>4. QED
      BY <3>1, <3>3
  <2>3. QED
    BY <2>1, <2>2
<1>3. ClientTypeOK'
  BY <1>1, <1>2 DEF ClientInv, ClientTypeOK, CallBecomes, IssuedGrows, CallShape, RequestShape
<1>4. \A b \in Buyer : HasNonce(b)' <=> HasNonce(b)
  BY <1>1 DEF HasNonce
<1>5. \A b \in Buyer : HasNonce(b) => calls'[b].nonce = calls[b].nonce
  BY <1>1
<1>6. NoncesOK'
  BY <1>4, <1>5 DEF ClientInv, NoncesOK, IssuedGrows
<1>7. ASSUME NEW n, NEW b, NEW steps, BelongsTo(n, b, steps)
      PROVE  IF n = call.nonce THEN b = buyer
             ELSE b # buyer /\ BelongsTo(n, b, steps)'
  BY <1>1, <1>7 DEF ClientInv, NoncesOK, BelongsTo, HasNonce
<1>8. ASSUME NEW r \in requests' PROVE BelongsTo(r.nonce, r.presenter, {"waiting", "failed"})'
  <2>1. CASE r.nonce = call.nonce
    <3>1. r.presenter = buyer
      BY <1>7, <2>1 DEF ClientInv, AnswersOK
    <3>2. QED
      BY <1>1, <2>1, <3>1 DEF BelongsTo, HasNonce
  <2>2. CASE r.nonce # call.nonce
    BY <1>7, <2>2 DEF ClientInv, AnswersOK
  <2>3. QED
    BY <2>1, <2>2
<1>9. \A q, r \in requests' : q.nonce = r.nonce => q = r
  BY DEF ClientInv, AnswersOK
<1>10. ASSUME NEW i \in DOMAIN served'
       PROVE  BelongsTo(served[i].nonce, served[i].presenter, {"served", "failed"})'
  <2>1. CASE served'[i].nonce = call.nonce
    <3>1. served'[i].presenter = buyer
      BY <1>2, <1>7, <2>1 DEF ClientInv, AnswersOK
    <3>2. QED
      BY <1>1, <2>1, <3>1 DEF BelongsTo, HasNonce
  <2>2. CASE served'[i].nonce # call.nonce
    <3>1. i \in DOMAIN served /\ served'[i] = served[i]
      BY <1>2, <2>2
    <3>2. BelongsTo(served[i].nonce, served[i].presenter, {"served", "failed"})
      BY <3>1 DEF ClientInv, AnswersOK
    <3>3. QED
      BY <1>1, <2>2, <3>1, <3>2 DEF BelongsTo, HasNonce
  <2>3. QED
    BY <2>1, <2>2
<1>11. QED
  BY <1>3, <1>6, <1>8, <1>9, <1>10 DEF ClientInv, AnswersOK

\* A call that has no nonce yet takes a new one, or none.
LEMMA CallBegins ==
  ASSUME ClientInv, now' \in Nat, IssuedGrows, UNCHANGED <<requests, served>>,
         NEW buyer \in Buyer, NEW call, ~HasNonce(buyer),
         CallBecomes(buyer, call), CallShape(call),
         call.step \notin {"idle", "listed", "unquoted"} => call.nonce \in DOMAIN issued' \ DOMAIN issued
  PROVE  ClientInv'
<1>1. \A b \in Buyer : calls'[b] = IF b = buyer THEN call ELSE calls[b]
  BY DEF CallBecomes
<1>2. ClientTypeOK'
  BY <1>1 DEF ClientInv, ClientTypeOK, CallBecomes, IssuedGrows, CallShape, RequestShape
<1>3. NoncesOK'
  BY <1>1 DEF ClientInv, NoncesOK, IssuedGrows, HasNonce
<1>4. AnswersOK'
  BY <1>1 DEF ClientInv, AnswersOK, BelongsTo, HasNonce
<1>5. QED
  BY <1>2, <1>3, <1>4 DEF ClientInv

\* What happens without any call keeps the invariant.
LEMMA NoCallMoves ==
  ASSUME ClientInv, now' \in Nat, UNCHANGED <<issued, requests, served, calls>>
  PROVE  ClientInv'
BY DEF ClientInv, ClientTypeOK, CallShape, RequestShape, NoncesOK, HasNonce, AnswersOK, BelongsTo

\* A challenge only adds deadlines.
LEMMA ChallengeIssues ==
  ASSUME ClientInv, NEW record, Challenge(record)
  PROVE  IssuedGrows
<1>1. now + InvoiceTtl \in Nat /\ issued \in Seq(Nat)
  BY TtlAssumption DEF ClientInv, ClientTypeOK
<1>2. CASE issued' = issued
  BY <1>1, <1>2 DEF IssuedGrows
<1>3. CASE issued' # issued
  <2>1. issued' = Append(issued, now + InvoiceTtl)
    BY <1>3 DEF Challenge, storeVars
  <2>2. issued' \in Seq(Nat) /\ DOMAIN issued' = DOMAIN issued \cup {Len(issued) + 1}
    BY <1>1, <2>1
  <2>3. QED
    BY <2>2 DEF IssuedGrows
<1>4. QED
  BY <1>2, <1>3

\* Leaving the deadlines alone does so too.
LEMMA NothingIssued ==
  ASSUME ClientInv, issued' = issued
  PROVE  IssuedGrows
BY DEF ClientInv, ClientTypeOK, IssuedGrows

\* Only a call that waits, has given up or was served has a request or an answer.
LEMMA NoRequestYet ==
  ASSUME ClientInv, NEW buyer \in Buyer, HasNonce(buyer)
  PROVE  /\ calls[buyer].step \notin {"waiting", "failed"}
              => \A r \in requests : r.nonce # calls[buyer].nonce
         /\ calls[buyer].step \notin {"served", "failed"}
              => \A i \in DOMAIN served : served[i].nonce # calls[buyer].nonce
BY DEF ClientInv, NoncesOK, AnswersOK, BelongsTo

\* The request of a call has its call.
LEMMA RequestOfCall ==
  ASSUME ClientInv, NEW request \in requests
  PROVE  /\ request.presenter \in Buyer /\ HasNonce(request.presenter)
         /\ calls[request.presenter].nonce = request.nonce
         /\ calls[request.presenter].step \in {"waiting", "failed"}
         /\ RequestShape(request)
         /\ \A r \in requests : r.nonce = request.nonce => r = request
         /\ calls[request.presenter].step = "waiting"
              => \A i \in DOMAIN served : served[i].nonce # request.nonce
<1>1. BelongsTo(request.nonce, request.presenter, {"waiting", "failed"})
  BY DEF ClientInv, AnswersOK
<1>2. QED
  BY <1>1, NoRequestYet DEF ClientInv, ClientTypeOK, AnswersOK, BelongsTo

\* A step of the client alone.
LEMMA LocalStep ==
  ASSUME ClientInv, UNCHANGED <<now, issued, requests, served>>,
         NEW buyer \in Buyer, HasNonce(buyer),
         NEW step, step \notin {"idle", "listed", "unquoted"}, Ends(buyer, step),
         step = "failed" \/ calls[buyer].step \notin {"waiting", "failed", "served"}
  PROVE  ClientInv'
<1>1. PICK call : /\ CallBecomes(buyer, call) /\ CallShape(call)
                  /\ call.step = step /\ call.nonce = calls[buyer].nonce
  BY EndsIsBecomes DEF ClientInv
<1>2. /\ step # "failed" => \A r \in requests : r.nonce # call.nonce
      /\ step # "failed" => \A i \in DOMAIN served : served[i].nonce # call.nonce
  BY <1>1, NoRequestYet
<1>3. \A q, r \in requests : q.nonce = r.nonce => q = r
  BY DEF ClientInv, AnswersOK
<1>4. now' \in Nat /\ IssuedGrows
  BY NothingIssued DEF ClientInv, ClientTypeOK
<1>5. QED
  BY <1>1, <1>2, <1>3, <1>4, StepOfCall

\* A request leaves or moves on, and its call is told, unless it has given up.
LEMMA CallIsTold ==
  ASSUME ClientInv, now' = now, IssuedGrows, NEW request \in requests,
         NEW step, step \notin {"idle", "listed", "unquoted", "waiting"},
         requests' = requests \ {request}, Tells(request, step),
         IF step = "served" THEN served' = Append(served, request) ELSE served' = served
  PROVE  ClientInv'
<1> DEFINE buyer == request.presenter
<1>1. /\ buyer \in Buyer /\ HasNonce(buyer)
      /\ calls[buyer].nonce = request.nonce
      /\ calls[buyer].step \in {"waiting", "failed"}
      /\ \A r \in requests : r.nonce = request.nonce => r = request
      /\ calls[buyer].step = "waiting" => \A i \in DOMAIN served : served[i].nonce # request.nonce
  BY RequestOfCall
<1>2. \A r \in requests' : r \in requests /\ r.nonce # request.nonce
  BY <1>1
<1>3. \/ served' = served
      \/ \E r : /\ r.nonce = request.nonce /\ r.presenter = buyer
                /\ served' = Append(served, r)
  OBVIOUS
<1>4. now' \in Nat
  BY DEF ClientInv, ClientTypeOK
<1>5. CASE Awaits(request)
  <2>1. PICK call : /\ CallBecomes(buyer, call) /\ CallShape(call)
                    /\ call.step = step /\ call.nonce = calls[buyer].nonce
    BY <1>1, <1>5, EndsIsBecomes DEF ClientInv, Tells
  <2>2. step # "served" => \A i \in DOMAIN served' : served'[i].nonce # call.nonce
    BY <1>1, <1>5, <2>1 DEF Awaits
  <2>3. QED
    BY <1>1, <1>2, <1>3, <1>4, <2>1, <2>2, StepOfCall
<1>6. CASE ~Awaits(request)
  <2>1. calls' = calls /\ calls[buyer].step = "failed"
    BY <1>1, <1>6 DEF Awaits, Tells
  <2>2. CallBecomes(buyer, calls[buyer]) /\ CallShape(calls[buyer])
    BY <1>1, <2>1 DEF CallBecomes, ClientInv, ClientTypeOK
  <2>3. QED
    BY <1>1, <1>2, <1>3, <1>4, <2>1, <2>2, StepOfCall
<1>7. QED
  BY <1>5, <1>6

\* A request that moves on leaves its call as it is.
LEMMA RequestMovesOn ==
  ASSUME ClientInv, now' = now, UNCHANGED <<issued, served>>, NEW request \in requests,
         NEW step, MovesTo(request, step), RefusedOrOn(request)
  PROVE  ClientInv'
<1> DEFINE buyer == request.presenter
           moved == [request EXCEPT !.step = step]
<1>1. /\ buyer \in Buyer /\ HasNonce(buyer)
      /\ calls[buyer].nonce = request.nonce
      /\ calls[buyer].step \in {"waiting", "failed"}
      /\ RequestShape(request)
      /\ \A r \in requests : r.nonce = request.nonce => r = request
      /\ calls[buyer].step = "waiting" => \A i \in DOMAIN served : served[i].nonce # request.nonce
  BY RequestOfCall
<1>2. RequestShape(moved) /\ moved.nonce = request.nonce /\ moved.presenter = buyer
  <2>1. request = [presenter |-> request.presenter, nonce |-> request.nonce,
                   payment |-> request.payment, record |-> request.record,
                   step |-> request.step, expiresAt |-> request.expiresAt]
    BY <1>1 DEF RequestShape
  <2>2. moved = [presenter |-> request.presenter, nonce |-> request.nonce,
                 payment |-> request.payment, record |-> request.record,
                 step |-> step, expiresAt |-> request.expiresAt]
    BY <2>1
  <2> HIDE DEF moved
  <2>3. QED
    BY <2>2 DEF RequestShape
<1>3. requests' = (requests \ {request}) \cup {moved}
  BY DEF MovesTo
<1> HIDE DEF moved
<1>4. calls' = calls
  BY <1>2, <1>3 DEF RefusedOrOn
<1>5. CallBecomes(buyer, calls[buyer]) /\ CallShape(calls[buyer])
  BY <1>1, <1>4 DEF CallBecomes, ClientInv, ClientTypeOK
<1>6. now' \in Nat /\ IssuedGrows
  BY NothingIssued DEF ClientInv, ClientTypeOK
<1>7. /\ \A r \in requests' :
           r \in requests \/ (RequestShape(r) /\ r.nonce = request.nonce /\ r.presenter = buyer)
      /\ \A q, r \in requests' : q.nonce = request.nonce /\ r.nonce = request.nonce => q = r
  BY <1>1, <1>2, <1>3
<1>8. calls[buyer].step \notin {"served", "failed"}
        => \A i \in DOMAIN served' : served'[i].nonce # request.nonce
  BY <1>1
<1>9. calls[buyer].step \notin {"idle", "listed", "unquoted"}
  BY <1>1
<1>10. QED
  BY <1>1, <1>5, <1>6, <1>7, <1>8, <1>9, StepOfCall

\* The client's own steps.
LEMMA LookupKeeps ==
  ASSUME ClientInv, NEW buyer \in Buyer, NEW id, Lookup(buyer, id)
  PROVE  ClientInv'
<1> DEFINE call == [step |-> "listed", listed |-> Record(id)]
<1>1. CallBecomes(buyer, call)
  BY DEF Lookup, Goes, CallBecomes, ClientInv, ClientTypeOK
<1>2. call.step = "listed" /\ CallShape(call)
  BY DEF CallShape
<1> HIDE DEF call
<1>3. UNCHANGED <<now, issued, requests, served>> /\ ~HasNonce(buyer)
  BY DEF Lookup, At, HasNonce, vars, termsVars, gatewayVars, storeVars
<1>4. now' \in Nat /\ IssuedGrows
  BY <1>3, NothingIssued DEF ClientInv, ClientTypeOK
<1>5. QED
  BY <1>1, <1>2, <1>3, <1>4, CallBegins

\* The 402 gives the call a nonce nobody has had, a 500 gives it none.
LEMMA CallAsksKeeps ==
  ASSUME ClientInv, NEW buyer \in Buyer, CallAsks(buyer)
  PROVE  ClientInv'
<1>1. PICK record : Challenge(record) /\ UNCHANGED <<termsVars, requests, served>>
  BY DEF CallAsks, Ask
<1>2. now + InvoiceTtl \in Nat /\ issued \in Seq(Nat) /\ Len(issued) < MaxInvoices /\ MaxInvoices \in Nat
  BY TtlAssumption, GatewayBoundAssumption DEF ClientInv, ClientTypeOK, CallAsks
<1>3. now' \in Nat /\ IssuedGrows /\ UNCHANGED <<requests, served>>
  BY <1>1, ChallengeIssues DEF ClientInv, ClientTypeOK, termsVars
<1>4. ~HasNonce(buyer)
  BY DEF CallAsks, At, HasNonce
<1>5. CASE issued' = issued
  <2> DEFINE call == [step |-> "unquoted", listed |-> calls[buyer].listed]
  <2>1. CallBecomes(buyer, call)
    BY <1>5 DEF CallAsks, Goes, CallBecomes, ClientInv, ClientTypeOK
  <2>2. call.step = "unquoted" /\ CallShape(call)
    BY DEF CallShape
  <2> HIDE DEF call
  <2>3. QED
    BY <1>3, <1>4, <2>1, <2>2, CallBegins
<1>6. CASE issued' # issued
  <2> DEFINE invoice == CHOOSE i \in invoices' : i.nonce = Len(issued')
             call == [step |-> "quoted", listed |-> calls[buyer].listed, quote |-> invoice.quote,
                      nonce |-> invoice.nonce, expiresAt |-> invoice.expiresAt, retries |-> 0]
             v == [nonce |-> Len(issued) + 1, id |-> record.id, quote |-> record,
                   expiresAt |-> now + InvoiceTtl, used |-> FALSE]
  <2>1. issued' = Append(issued, now + InvoiceTtl) /\ invoices' = invoices \cup {v}
    BY <1>1, <1>6 DEF Challenge, storeVars
  <2>2. v.nonce = Len(issued) + 1
    OBVIOUS
  <2> HIDE DEF v
  <2>3. Len(issued') = Len(issued) + 1 /\ DOMAIN issued' = DOMAIN issued \cup {Len(issued) + 1}
        /\ Len(issued) + 1 \notin DOMAIN issued
    BY <1>2, <2>1
  <2>4. invoice.nonce = Len(issued) + 1
    BY <2>1, <2>2, <2>3
  <2>5. CallBecomes(buyer, call)
    BY <1>6 DEF CallAsks, Goes, CallBecomes, ClientInv, ClientTypeOK
  <2>6. call.step = "quoted" /\ call.nonce = invoice.nonce /\ CallShape(call)
    BY DEF CallShape
  <2> HIDE DEF call, invoice
  <2>7. QED
    BY <1>3, <1>4, <2>3, <2>4, <2>5, <2>6, CallBegins
<1>7. QED
  BY <1>5, <1>6

\* The guards of the client decide without the gateway.
LEMMA CheckQuoteKeeps ==
  ASSUME ClientInv, NEW buyer \in Buyer, CheckQuote(buyer)
  PROVE  ClientInv'
<1>1. calls[buyer].step = "quoted" /\ HasNonce(buyer)
  BY DEF CheckQuote, At, HasNonce
<1>2. PICK step \in {"paying", "declined"} : Ends(buyer, step)
  BY DEF CheckQuote
<1>3. UNCHANGED <<now, issued, requests, served>>
  BY DEF CheckQuote, vars, termsVars, gatewayVars, storeVars
<1>4. step \notin {"idle", "listed", "unquoted"}
  BY <1>2
<1>5. QED
  BY <1>1, <1>2, <1>3, <1>4, LocalStep

\* A payment, settled or not, moves the call only.
LEMMA CallPaysKeeps ==
  ASSUME ClientInv, NEW buyer \in Buyer, CallPays(buyer)
  PROVE  ClientInv'
<1>1. calls[buyer].step = "paying" /\ HasNonce(buyer)
  BY DEF CallPays, At, HasNonce
<1>2. PICK step \in {"paid", "failed"} : Ends(buyer, step)
  BY DEF CallPays
<1>3. UNCHANGED <<now, issued, requests, served>>
  BY DEF CallPays, Pay, vars, termsVars, gatewayVars, storeVars
<1>4. step \notin {"idle", "listed", "unquoted"}
  BY <1>2
<1>5. QED
  BY <1>1, <1>2, <1>3, <1>4, LocalStep

\* Giving up leaves the request with the gateway.
LEMMA CallTimesOutKeeps ==
  ASSUME ClientInv, NEW buyer \in Buyer, CallTimesOut(buyer)
  PROVE  ClientInv'
<1>1. HasNonce(buyer) /\ Ends(buyer, "failed")
  BY DEF CallTimesOut, At, HasNonce
<1>2. UNCHANGED <<now, issued, requests, served>>
  BY DEF CallTimesOut, vars, termsVars, gatewayVars, storeVars
<1>3. QED
  BY <1>1, <1>2, LocalStep

\* A proof becomes the one request of its nonce, or is refused at once.
LEMMA CallPresentsKeeps ==
  ASSUME ClientInv, NEW buyer \in Buyer, CallPresents(buyer)
  PROVE  ClientInv'
<1> DEFINE nonce == calls[buyer].nonce
           step == IF requests' = requests THEN Refusal ELSE "waiting"
<1>1. calls[buyer].step = "paid" /\ HasNonce(buyer)
  BY DEF CallPresents, At, HasNonce
<1>2. Ends(buyer, step) /\ Refusal \in {"refused", "failed"}
  BY DEF CallPresents, Ends, Refusal
<1>3. PICK call : /\ CallBecomes(buyer, call) /\ CallShape(call)
                  /\ call.step = step /\ call.nonce = nonce
  BY <1>1, <1>2, EndsIsBecomes DEF ClientInv
<1>4. /\ \A r \in requests : r.nonce # nonce
      /\ \A i \in DOMAIN served : served[i].nonce # nonce
  BY <1>1, NoRequestYet
<1> DEFINE id == calls[buyer].quote.id
           payment == PaymentOf(buyer)
           usable == {invoice \in InvoiceOf(nonce) : invoice.id = id /\ ~invoice.used}
<1>5. PICK record :
        /\ IF usable = {}
             THEN Challenge(record) /\ UNCHANGED requests
             ELSE /\ requests' = requests \cup
                       {[ presenter |-> buyer, nonce |-> nonce, payment |-> payment,
                          record |-> record, step |-> "verify",
                          expiresAt |-> (CHOOSE invoice \in usable : TRUE).expiresAt ]}
                  /\ UNCHANGED storeVars
        /\ UNCHANGED <<termsVars, served>>
  BY DEF CallPresents, Present
<1> HIDE DEF usable, payment
<1>6. now' \in Nat /\ IssuedGrows /\ served' = served
  BY <1>5, ChallengeIssues, NothingIssued DEF ClientInv, ClientTypeOK, termsVars, storeVars
<1>7. CASE requests' = requests
  <2>1. call.step \in {"refused", "failed"}
    BY <1>2, <1>3, <1>7
  <2>2. call.step \notin {"idle", "listed", "unquoted"}
    BY <2>1
  <2>3. QED
    BY <1>1, <1>3, <1>4, <1>6, <1>7, <2>2, StepOfCall
<1>8. CASE requests' # requests
  <2> DEFINE r == [ presenter |-> buyer, nonce |-> nonce, payment |-> payment,
                    record |-> record, step |-> "verify",
                    expiresAt |-> (CHOOSE invoice \in usable : TRUE).expiresAt ]
  <2>1. requests' = requests \cup {r}
    BY <1>5, <1>8
  <2>2. RequestShape(r) /\ r.nonce = nonce /\ r.presenter = buyer
    BY DEF RequestShape
  <2> HIDE DEF r
  <2>3. /\ \A q \in requests' :
             q \in requests \/ (RequestShape(q) /\ q.nonce = call.nonce /\ q.presenter = buyer)
        /\ \A p, q \in requests' : p.nonce = call.nonce /\ q.nonce = call.nonce => p = q
    BY <1>3, <1>4, <2>1, <2>2
  <2>4. call.step = "waiting"
    BY <1>3, <1>8
  <2>5. \A i \in DOMAIN served' : served'[i].nonce # call.nonce
    BY <1>3, <1>4, <1>6
  <2>6. QED
    BY <1>1, <1>3, <1>6, <2>3, <2>4, <2>5, StepOfCall
<1>9. QED
  BY <1>7, <1>8

\* The gateway's answers.
LEMMA RefusedIsTold ==
  ASSUME ClientInv, now' = now, served' = served, NEW request \in requests,
         Refuse(request), RefusedOrOn(request)
  PROVE  ClientInv'
<1>1. requests' = requests \ {request} /\ IssuedGrows
  BY ChallengeIssues DEF Refuse
<1>2. \A r \in requests : r.nonce = request.nonce => r = request
  BY RequestOfCall
<1>3. Tells(request, Refusal) /\ Refusal \in {"refused", "failed"}
  BY <1>1, <1>2 DEF RefusedOrOn, Refusal
<1>4. QED
  BY <1>1, <1>3, CallIsTold

\* A check passes and the request goes on, or the call is refused.
LEMMA VerdictKeeps ==
  ASSUME ClientInv, NEW request \in requests,
         Verify(request) \/ Burn(request), RefusedOrOn(request)
  PROVE  ClientInv'
<1>1. now' = now /\ served' = served
  BY DEF Verify, Burn, termsVars
<1>2. CASE Refuse(request)
  BY <1>1, <1>2, RefusedIsTold
<1>3. CASE ~Refuse(request)
  <2>1. PICK step : MovesTo(request, step) /\ issued' = issued
    BY <1>3 DEF Verify, Burn, storeVars
  <2>2. QED
    BY <1>1, <2>1, RequestMovesOn
<1>4. QED
  BY <1>2, <1>3

\* Pending: the call comes back with its proof, or gives up.
LEMMA AnswerPendingKeeps ==
  ASSUME ClientInv, NEW request \in requests, AnswerPending(request)
  PROVE  ClientInv'
<1> DEFINE buyer == request.presenter
           c == calls[buyer]
           again == [c EXCEPT !.step = "paid", !.retries = @ + 1]
<1>1. /\ requests' = requests \ {request}
      /\ UNCHANGED <<now, issued, served>>
  BY DEF AnswerPending, VerifyPending, termsVars, storeVars
<1>2. IssuedGrows /\ now' \in Nat
  BY <1>1, NothingIssued DEF ClientInv, ClientTypeOK
<1>3. /\ buyer \in Buyer /\ HasNonce(buyer)
      /\ c.nonce = request.nonce
      /\ \A r \in requests : r.nonce = request.nonce => r = request
      /\ c.step = "waiting" => \A i \in DOMAIN served : served[i].nonce # request.nonce
  BY RequestOfCall
<1>4. CASE Tells(request, "gaveUp")
  BY <1>1, <1>2, <1>4, CallIsTold
<1>5. CASE ~Tells(request, "gaveUp")
  <2>1. Awaits(request) /\ Goes(buyer, again)
    BY <1>5 DEF AnswerPending
  <2>2. CallBecomes(buyer, again)
    BY <2>1 DEF Goes, CallBecomes, ClientInv, ClientTypeOK
  <2>3. CallShape(again) /\ again.step = "paid" /\ again.nonce = c.nonce
    <3>1. c = [step |-> c.step, listed |-> c.listed, quote |-> c.quote, nonce |-> c.nonce,
               expiresAt |-> c.expiresAt, retries |-> c.retries]
      BY <1>3 DEF ClientInv, ClientTypeOK, CallShape, HasNonce
    <3> DEFINE more == c.retries + 1
    <3>2. again = [c EXCEPT !.step = "paid", !.retries = more]
      OBVIOUS
    <3> HIDE DEF c, again, more
    <3>3. again =
            [step |-> "paid", listed |-> c.listed, quote |-> c.quote, nonce |-> c.nonce,
             expiresAt |-> c.expiresAt, retries |-> more]
      BY <3>1, <3>2
    <3>4. QED
      BY <3>3 DEF CallShape
  <2> HIDE DEF again
  <2>4. \A i \in DOMAIN served : served[i].nonce # again.nonce
    BY <1>3, <2>1, <2>3 DEF Awaits
  <2>5. \A r \in requests' : r \in requests /\ r.nonce # again.nonce
    BY <1>1, <1>3, <2>3
  <2>6. QED
    BY <1>1, <1>2, <1>3, <2>2, <2>3, <2>4, <2>5, StepOfCall
<1>6. QED
  BY <1>4, <1>5

\* Every answer of the gateway keeps the invariant.
LEMMA AnswerKeeps ==
  ASSUME ClientInv, NEW request \in requests, Answer(request)
  PROVE  ClientInv'
<1>1. CASE (Verify(request) \/ Burn(request)) /\ RefusedOrOn(request)
  BY <1>1, VerdictKeeps
<1>2. CASE AnswerPending(request)
  BY <1>2, AnswerPendingKeeps
<1>3. CASE UpstreamAnswers(request) /\ Tells(request, "served")
  <2>1. /\ requests' = requests \ {request} /\ served' = Append(served, request)
        /\ now' = now /\ IssuedGrows
    BY <1>3, NothingIssued DEF UpstreamAnswers, termsVars, storeVars
  <2>2. QED
    BY <1>3, <2>1, CallIsTold
<1>4. CASE UpstreamFails(request) /\ Tells(request, "upstreamFailed")
  <2>1. /\ requests' = requests \ {request} /\ served' = served
        /\ now' = now /\ IssuedGrows
    BY <1>4, NothingIssued DEF UpstreamFails, termsVars
  <2>2. QED
    BY <1>4, <2>1, CallIsTold
<1>5. CASE (BurnFails(request) \/ ReleaseFails(request)) /\ Tells(request, "failed")
  <2>1. /\ requests' = requests \ {request} /\ served' = served
        /\ now' = now /\ IssuedGrows
    BY <1>5, NothingIssued DEF BurnFails, ReleaseFails, termsVars
  <2>2. QED
    BY <1>5, <2>1, CallIsTold
<1>6. QED
  BY <1>1, <1>2, <1>3, <1>4, <1>5 DEF Answer

\* A crash takes all requests and ends every call that waits.
LEMMA CrashKeeps ==
  ASSUME ClientInv, CrashDisconnects
  PROVE  ClientInv'
<1>1. UNCHANGED <<now, issued, served>> /\ requests' = {}
  BY DEF CrashDisconnects, Crash, termsVars
<1>2. calls' = [b \in Buyer |-> IF calls[b].step = "waiting"
                                  THEN [calls[b] EXCEPT !.step = "failed"] ELSE calls[b]]
  BY DEF CrashDisconnects, At
<1>3. ASSUME NEW b \in Buyer
      PROVE  /\ CallShape(calls'[b])
             /\ HasNonce(b)' <=> HasNonce(b)
             /\ HasNonce(b) => calls'[b].nonce = calls[b].nonce
             /\ calls'[b].step = IF calls[b].step = "waiting" THEN "failed" ELSE calls[b].step
  <2>1. CASE calls[b].step = "waiting"
    <3> DEFINE c == calls[b]
    <3>1. c = [step |-> c.step, listed |-> c.listed, quote |-> c.quote, nonce |-> c.nonce,
               expiresAt |-> c.expiresAt, retries |-> c.retries]
      BY <2>1 DEF ClientInv, ClientTypeOK, CallShape
    <3>2. calls'[b] = [c EXCEPT !.step = "failed"]
      BY <1>2, <2>1
    <3> HIDE DEF c
    <3>3. calls'[b] =
            [step |-> "failed", listed |-> c.listed, quote |-> c.quote, nonce |-> c.nonce,
             expiresAt |-> c.expiresAt, retries |-> c.retries]
      BY <3>1, <3>2
    <3>4. calls'[b].step = "failed" /\ calls'[b].nonce = c.nonce /\ CallShape(calls'[b])
      BY <3>3 DEF CallShape
    <3>5. QED
      BY <2>1, <3>4 DEF HasNonce, c
  <2>2. CASE calls[b].step # "waiting"
    <3>1. calls'[b] = calls[b]
      BY <1>2, <2>2
    <3>2. QED
      BY <2>2, <3>1 DEF HasNonce, ClientInv, ClientTypeOK
  <2>3. QED
    BY <2>1, <2>2
<1>4. ClientTypeOK'
  <2>1. calls' = [b \in Buyer |-> calls'[b]]
    BY <1>2
  <2>2. QED
    BY <1>1, <1>3, <2>1 DEF ClientInv, ClientTypeOK
<1>5. NoncesOK'
  BY <1>1, <1>3 DEF ClientInv, NoncesOK
<1>6. AnswersOK'
  BY <1>1, <1>3 DEF ClientInv, AnswersOK, BelongsTo
<1>7. QED
  BY <1>4, <1>5, <1>6 DEF ClientInv

\* So does every step of the buyers, the gateway and the chain.
LEMMA ClientNextInv ==
  ASSUME ClientInv, [ClientNext]_<<vars, calls>>
  PROVE  ClientInv'
<1>1. ASSUME NEW buyer \in Buyer,
             \/ \E id \in ServiceId : Lookup(buyer, id)
             \/ CallAsks(buyer) \/ CheckQuote(buyer) \/ CallPays(buyer)
             \/ CallPresents(buyer) \/ CallTimesOut(buyer)
      PROVE  ClientInv'
  BY <1>1, LookupKeeps, CallAsksKeeps, CheckQuoteKeeps, CallPaysKeeps, CallPresentsKeeps,
     CallTimesOutKeeps
<1>2. CASE \E request \in requests : Answer(request)
  BY <1>2, AnswerKeeps
<1>3. CASE CrashDisconnects
  BY <1>3, CrashKeeps
<1>4. CASE Sweep /\ UNCHANGED calls
  BY <1>4, NoCallMoves DEF Sweep, termsVars, ClientInv, ClientTypeOK
<1>5. CASE TermsNext /\ UNCHANGED <<gatewayVars, paid, calls>>
  <2>1. now' \in Nat
    <3>1. CASE Tick
      BY <3>1 DEF Tick, ClientInv, ClientTypeOK
    <3>2. CASE \E sender \in Account, id \in ServiceId :
                 OwnerTransaction(sender, id) \/ AcceptOwnership(sender, id)
      <4>1. now' = now
        BY <3>2 DEF OwnerTransaction, SetActive, SetGatewayBaseUrl, SetAttestor,
           SetPaymentTarget, SetAccepts, TransferOwnership, OwnerSets, AcceptOwnership
      <4>2. QED
        BY <4>1 DEF ClientInv, ClientTypeOK
    <3>3. CASE \E sender, target, witness \in Account, url \in Url, price \in Price :
                 RegisterService(sender, url, price, target, witness)
      BY <3>3 DEF RegisterService, ClientInv, ClientTypeOK
    <3>4. QED
      BY <1>5, <3>1, <3>2, <3>3 DEF TermsNext
  <2>2. QED
    BY <1>5, <2>1, NoCallMoves DEF gatewayVars, storeVars
<1>6. CASE UNCHANGED <<vars, calls>>
  BY <1>6, NoCallMoves DEF vars, termsVars, gatewayVars, storeVars, ClientInv, ClientTypeOK
<1>7. QED
  BY <1>1, <1>2, <1>3, <1>4, <1>5, <1>6 DEF ClientNext, CallNext

\* Nothing has been asked at first.
LEMMA ClientInitInv == ASSUME ClientInit PROVE ClientInv
<1>1. /\ now = 0 /\ issued = <<>> /\ requests = {} /\ served = <<>>
      /\ calls = [buyer \in Buyer |-> NoCall]
  BY DEF ClientInit, Init, TermsInit, CallsInit
<1>2. \A buyer \in Buyer : calls[buyer].step = "idle"
  BY <1>1 DEF NoCall
<1>3. ClientTypeOK
  <2>1. <<>> \in Seq(Nat)
    OBVIOUS
  <2>2. QED
    BY <1>1, <1>2, <2>1 DEF ClientTypeOK, CallShape
<1>4. NoncesOK /\ AnswersOK
  BY <1>1, <1>2 DEF NoncesOK, AnswersOK, HasNonce
<1>5. QED
  BY <1>3, <1>4 DEF ClientInv

\* A call that was told it is refused, or that the upstream failed, was not
\* answered and never will be: no time-out, retry, crash or change of terms
\* between its proofs and their verdicts undoes one (fetchPaid against app.ts).
THEOREM VerdictsAreFinal == ClientSpec => []RefusedMeansNotServed
<1>1. ClientInit => ClientInv
  BY ClientInitInv
<1>2. ClientInv /\ [ClientNext]_<<vars, calls>> => ClientInv'
  BY ClientNextInv
<1>3. ClientInv => RefusedMeansNotServed
  <2> SUFFICES ASSUME ClientInv, NEW buyer \in Buyer,
                      calls[buyer].step \in {"refused", "gaveUp", "upstreamFailed"}
               PROVE  /\ \A i \in DOMAIN served : served[i].nonce # calls[buyer].nonce
                      /\ \A request \in requests : request.nonce # calls[buyer].nonce
    BY DEF RefusedMeansNotServed
  <2>1. HasNonce(buyer)
    BY DEF HasNonce
  <2>2. QED
    BY <2>1, NoRequestYet
<1>4. QED
  BY <1>1, <1>2, <1>3, PTL DEF ClientSpec

-----------------------------------------------------------------------------
(***************************************************************************)
(* Paid calls.  Each buyer has settled one payment at most, at the quote   *)
(* of the call it made it for, and every proof under way carries its own   *)
(* presenter's.  From the moment the chain's terms stand still, whoever    *)
(* then has yet to ask is quoted and judged by records that agree wherever *)
(* the quote agrees with the chain.                                        *)
(***************************************************************************)

\* Steps of a call that has sent its payment, and of one whose payment settled.
AfterPaying == {"paid", "waiting", "failed", "served", "refused", "gaveUp", "upstreamFailed"}
Settled == AfterPaying \ {"failed"}

\* The cache keeps one record of a service, under its id.
CacheOK ==
  /\ cache = [id \in ServiceId |-> cache[id]]
  /\ \A id \in ServiceId : \A e, f \in cache[id] : e.record.id = id /\ e = f

\* A payment is of the call its payer makes, at what it was quoted.
PaymentFits(p) ==
  LET call == calls[p.payer]
  IN  /\ p.payer \in Buyer
      /\ call.step \in AfterPaying
      /\ p.id = call.quote.id /\ p.nonce = call.nonce
      /\ p.payTo = call.quote.payTo /\ p.amount = call.quote.amount

PaymentsOK ==
  /\ \A p \in paid : PaymentFits(p)
  /\ \A p, q \in paid : p.payer = q.payer => p = q
  /\ \A b \in Buyer : calls[b].step \in Settled => \E p \in paid : p.payer = b

\* A call asks for a service that exists, its invoice is of that service, and
\* its nonce is lost only with the answer it waited for.
CallFits(b) ==
  /\ calls[b].step # "idle" => calls[b].listed.id \in ServiceId
  /\ HasNonce(b) =>
       /\ calls[b].quote.id \in ServiceId
       /\ \A v \in invoices \cup file : v.nonce = calls[b].nonce => v.id = calls[b].quote.id
       /\ calls[b].nonce \in lost => calls[b].step = "failed"

\* A proof carries its presenter's payment and the deadline of its invoice.
ProofFits(r) ==
  /\ r.payment.payer = r.presenter
  /\ r.expiresAt = issued[r.nonce]

PaidCallsInv ==
  /\ IInv
  /\ GInv
  /\ ClientInv
  /\ CacheOK
  /\ PaymentsOK
  /\ \A b \in Buyer : CallFits(b)
  /\ \A r \in requests : ProofFits(r)

\* The chain lists these terms.
Lists(terms) == \A id \in ServiceId : Record(id) = terms[id]

\* A call at these terms: every record the gateway works with agrees, and it is
\* refused only when its payment is not collectable.
Agrees(b, terms) ==
  HasNonce(b) /\ calls[b].quote = terms[calls[b].quote.id] =>
    /\ \A e \in cache[calls[b].quote.id] : e.record = calls[b].quote
    /\ \A r \in requests : r.nonce = calls[b].nonce => r.record = calls[b].quote
    /\ calls[b].step = "refused" => \A p \in paid : p.payer = b => ~Collectable(p)

\* The call goes on, with what it was quoted.
Advances(b) ==
  /\ HasNonce(b)
  /\ calls'[b].listed = calls[b].listed
  /\ calls'[b].quote = calls[b].quote
  /\ calls'[b].nonce = calls[b].nonce
  /\ \/ calls[b].step = "quoted" /\ calls'[b].step \in {"paying", "declined"}
     \/ calls[b].step \in {"paid", "waiting"} /\ calls'[b].step \in AfterPaying

\* Invoices stay of the service they were issued for.
InvoicesFollow ==
  \A v \in invoices' \cup file' :
    \/ v.nonce \notin DOMAIN issued
    \/ \E w \in invoices \cup file : w.nonce = v.nonce /\ w.id = v.id

\* A call whose nonce is lost ends there.
LossIsTold(b) ==
  HasNonce(b) /\ calls[b].nonce \in lost'
    => calls[b].nonce \in lost \/ calls'[b].step = "failed"

IssuedStays == \A n \in DOMAIN issued : n \in DOMAIN issued' /\ issued'[n] = issued[n]

\* Two moments of one proof.
SameProof(q, r) ==
  /\ r.presenter = q.presenter /\ r.nonce = q.nonce /\ r.payment = q.payment
  /\ r.record = q.record /\ r.expiresAt = q.expiresAt

ProofsFollow == \A r \in requests' : \E q \in requests : SameProof(q, r)

-----------------------------------------------------------------------------

\* Ending a call keeps what it has learnt.
LEMMA EndsAdvances ==
  ASSUME ClientInv, NEW buyer \in Buyer, HasNonce(buyer), NEW step, Ends(buyer, step)
  PROVE  /\ \A b \in Buyer : b # buyer => calls'[b] = calls[b]
         /\ calls'[buyer].step = step
         /\ calls'[buyer].listed = calls[buyer].listed
         /\ calls'[buyer].quote = calls[buyer].quote
         /\ calls'[buyer].nonce = calls[buyer].nonce
<1> DEFINE c == calls[buyer]
           d == [c EXCEPT !.step = step]
<1>1. c = [step |-> c.step, listed |-> c.listed, quote |-> c.quote, nonce |-> c.nonce,
           expiresAt |-> c.expiresAt, retries |-> c.retries]
  BY DEF ClientInv, ClientTypeOK, CallShape, HasNonce
<1>2. /\ \A b \in Buyer : b # buyer => calls'[b] = calls[b]
      /\ calls'[buyer] = d
  BY DEF Ends, Goes, ClientInv, ClientTypeOK
<1>3. d.step = step /\ d.listed = c.listed /\ d.quote = c.quote /\ d.nonce = c.nonce
  <2> HIDE DEF c
  <2>1. QED
    BY <1>1
<1>4. QED
  BY <1>2, <1>3

\* Payments fit as long as no call changes its quote, and nobody pays.
LEMMA PaymentsStay ==
  ASSUME PaymentsOK, paid' = paid,
         \A b \in Buyer : \/ calls'[b] = calls[b]
                          \/ Advances(b)
                          \/ ~HasNonce(b) /\ calls'[b].step \in {"listed", "quoted", "unquoted"}
  PROVE  PaymentsOK'
<1>1. ASSUME NEW p \in paid PROVE PaymentFits(p)'
  BY <1>1 DEF PaymentsOK, PaymentFits, Advances, AfterPaying, HasNonce
<1>2. ASSUME NEW b \in Buyer, calls'[b].step \in Settled PROVE \E p \in paid : p.payer = b
  BY <1>2 DEF PaymentsOK, Advances, AfterPaying, Settled
<1>3. QED
  BY <1>1, <1>2 DEF PaymentsOK

\* Calls fit as long as none changes its quote, and those that are lost end.
LEMMA CallsStillFit ==
  ASSUME ClientInv, InvoicesFollow,
         NEW b \in Buyer, LossIsTold(b), CallFits(b), calls'[b] = calls[b] \/ Advances(b)
  PROVE  CallFits(b)'
<1>1. HasNonce(b)' <=> HasNonce(b)
  BY DEF HasNonce, Advances, AfterPaying
<1>2. HasNonce(b) => calls[b].nonce \in DOMAIN issued
  BY DEF ClientInv, NoncesOK
<1>3. calls'[b].step # "idle" => calls[b].step # "idle" /\ calls'[b].listed = calls[b].listed
  BY DEF Advances, HasNonce
<1>4. HasNonce(b) => /\ calls'[b].quote = calls[b].quote /\ calls'[b].nonce = calls[b].nonce
                     /\ calls[b].step = "failed" => calls'[b].step = "failed"
  BY DEF Advances
<1>5. QED
  BY <1>1, <1>2, <1>3, <1>4 DEF CallFits, InvoicesFollow, LossIsTold

\* Proofs fit as long as no deadline moves.
LEMMA ProofsStillFit ==
  ASSUME \A r \in requests : RequestOK(r) /\ ProofFits(r), ProofsFollow, IssuedStays
  PROVE  \A r \in requests' : ProofFits(r)'
BY DEF ProofsFollow, SameProof, IssuedStays, ProofFits, RequestOK

\* A step in which calls only go on, and nobody pays, presents or crashes.
QuietStep ==
  /\ paid' = paid /\ \A b \in Buyer : LossIsTold(b)
  /\ InvoicesFollow /\ IssuedStays /\ ProofsFollow
  /\ \A b \in Buyer : calls'[b] = calls[b] \/ Advances(b)

\* Such a step keeps the ledger of paid calls.
LEMMA QuietStepKeeps ==
  ASSUME PaidCallsInv, QuietStep, IInv', GInv', ClientInv', CacheOK'
  PROVE  PaidCallsInv'
<1>1. PaymentsOK'
  BY PaymentsStay DEF QuietStep, PaidCallsInv
<1>2. \A b \in Buyer : CallFits(b)'
  BY CallsStillFit DEF QuietStep, PaidCallsInv
<1>3. \A r \in requests' : ProofFits(r)'
  BY ProofsStillFit DEF QuietStep, PaidCallsInv, GInv
<1>4. QED
  BY <1>1, <1>2, <1>3 DEF PaidCallsInv

\* A lapsed or late payment stays so.
LEMMA StaysUncollectable ==
  ASSUME GInv, IssuedStays, NEW p \in paid, ~Collectable(p), now' \in Nat, now <= now'
  PROVE  ~Collectable(p)'
<1>1. /\ p.nonce \in DOMAIN issued /\ p.timestamp \in Nat /\ issued[p.nonce] \in Nat
      /\ now \in Nat /\ RedemptionWindow \in Nat /\ issued'[p.nonce] = issued[p.nonce]
  BY TtlAssumption DEF GInv, LedgerOK, IssuedStays
<1>2. QED
  BY <1>1 DEF Collectable

\* What a quiet step does to a call at the chain's terms: it is refused in it
\* only for its payment's sake.
LEMMA QuietStepAgrees ==
  ASSUME PaidCallsInv, QuietStep, NEW b \in Buyer, NEW terms, Agrees(b, terms),
         now' \in Nat, now <= now',
         \A id \in ServiceId : \A e \in cache'[id] : e \in cache[id] \/ e.record = terms[id],
         calls[b].step # "refused" /\ calls'[b].step = "refused"
              /\ calls[b].quote = terms[calls[b].quote.id]
           => \A p \in paid : p.payer = b => ~Collectable(p)
  PROVE  Agrees(b, terms)'
<1> SUFFICES ASSUME HasNonce(b)', calls'[b].quote = terms[calls'[b].quote.id]
             PROVE  /\ \A e \in cache'[calls'[b].quote.id] : e.record = calls'[b].quote
                    /\ \A r \in requests' : r.nonce = calls'[b].nonce => r.record = calls'[b].quote
                    /\ calls'[b].step = "refused"
                         => \A p \in paid' : p.payer = b => ~Collectable(p)'
  BY DEF Agrees
<1>1. /\ HasNonce(b)
      /\ calls'[b].quote = calls[b].quote /\ calls'[b].nonce = calls[b].nonce
  BY DEF QuietStep, Advances, HasNonce
<1>2. calls[b].quote.id \in ServiceId
  BY <1>1 DEF PaidCallsInv, CallFits
<1>3. \A e \in cache'[calls'[b].quote.id] : e.record = calls'[b].quote
  BY <1>1, <1>2 DEF Agrees
<1>4. \A r \in requests' : r.nonce = calls'[b].nonce => r.record = calls'[b].quote
  BY <1>1 DEF Agrees, QuietStep, ProofsFollow, SameProof
<1>5. ASSUME calls'[b].step = "refused", NEW p \in paid', p.payer = b
      PROVE  ~Collectable(p)'
  <2>1. p \in paid /\ ~Collectable(p)
    BY <1>1, <1>5 DEF Agrees, QuietStep
  <2>2. QED
    BY <2>1, StaysUncollectable DEF PaidCallsInv, QuietStep
<1>6. QED
  BY <1>3, <1>4, <1>5

-----------------------------------------------------------------------------
(***************************************************************************)
(* What the steps are made of.                                             *)
(***************************************************************************)

\* A record is resolved from the one entry of its service, or from the chain.
LEMMA ResolvesKeepsCache ==
  ASSUME CacheOK, NEW id \in ServiceId, NEW record, Resolves(id, record)
  PROVE  /\ CacheOK'
         /\ record.id = id
         /\ \A e \in cache'[id] : e.record = record
         /\ record = Record(id) \/ \E e \in cache[id] : record = e.record
         /\ \A k \in ServiceId : \A e \in cache'[k] : e \in cache[k] \/ e.record = Record(k)
<1> DEFINE fresh == {entry \in cache[id] : now - entry.fetchedAt < CacheTtl}
           entry == [record |-> record, fetchedAt |-> now]
<1>1. Record(id).id = id
  BY DEF Record
<1>2. CASE fresh # {}
  <2>1. PICK e \in fresh : record = e.record /\ cache' = cache
    BY <1>2 DEF Resolves
  <2>2. QED
    BY <2>1 DEF CacheOK
<1>3. CASE fresh = {}
  <2>1. record = Record(id) /\ cache' = [cache EXCEPT ![id] = {entry}]
    BY <1>3 DEF Resolves
  <2>2. \A k \in ServiceId : cache'[k] = IF k = id THEN {entry} ELSE cache[k]
    BY <2>1 DEF CacheOK
  <2>3. cache' = [k \in ServiceId |-> cache'[k]]
    BY <2>1 DEF CacheOK
  <2>4. entry.record = record
    OBVIOUS
  <2> HIDE DEF entry
  <2>5. QED
    BY <1>1, <2>1, <2>2, <2>3, <2>4 DEF CacheOK
<1>4. QED
  BY <1>2, <1>3

\* A store that only grows keeps its invoices and deadlines.
LEMMA GrowthFollows ==
  ASSUME StoreGrows
  PROVE  InvoicesFollow /\ IssuedStays
BY DEF StoreGrows, InvoicesFollow, IssuedStays

\* So does one that is left alone,
LEMMA NothingFollows ==
  ASSUME UNCHANGED <<issued, invoices, file>>
  PROVE  InvoicesFollow /\ IssuedStays
BY DEF InvoicesFollow, IssuedStays

\* or marked.
LEMMA MarkingFollows ==
  ASSUME GInv, NEW nonce, NEW used \in BOOLEAN, SetUsed(nonce, used), issued' = issued,
         file' = file \/ file' = invoices'
  PROVE  InvoicesFollow /\ IssuedStays
<1> DEFINE Set(w) == [w EXCEPT !.used = IF w.nonce = nonce THEN used ELSE @]
<1>1. invoices' = {Set(w) : w \in invoices}
  BY DEF SetUsed
<1>2. ASSUME NEW w \in invoices
      PROVE  Set(w).nonce = w.nonce /\ Set(w).id = w.id
  BY DEF GInv, InvoicesOK, InvoiceShape
<1> HIDE DEF Set
<1>3. QED
  BY <1>1, <1>2 DEF InvoicesFollow, IssuedStays

\* A proof that moves on is the same proof.
LEMMA MovingFollows ==
  ASSUME NEW request \in requests, RequestShape(request), NEW step, MovesTo(request, step)
  PROVE  /\ ProofsFollow
         /\ \E r \in requests' : r.presenter = request.presenter /\ r.nonce = request.nonce
<1> DEFINE moved == [request EXCEPT !.step = step]
<1>1. SameProof(request, moved)
  BY DEF SameProof, RequestShape
<1>2. requests' = (requests \ {request}) \cup {moved}
  BY DEF MovesTo
<1> HIDE DEF moved
<1>3. \A r \in requests : SameProof(r, r)
  BY DEF SameProof
<1>4. QED
  BY <1>1, <1>2, <1>3 DEF ProofsFollow, SameProof

\* A proof that leaves takes nothing with it.
LEMMA LeavingFollows ==
  ASSUME requests' \subseteq requests
  PROVE  ProofsFollow
BY DEF ProofsFollow, SameProof

\* A call that is told a verdict goes on, and no other call moves.
LEMMA TellingAdvances ==
  ASSUME PaidCallsInv, NEW request \in requests, NEW step \in AfterPaying, Tells(request, step)
  PROVE  \A b \in Buyer : \/ calls'[b] = calls[b]
                          \/ b = request.presenter /\ Advances(b) /\ calls'[b].step = step
<1>1. CASE Awaits(request)
  <2>1. /\ request.presenter \in Buyer /\ HasNonce(request.presenter)
        /\ calls[request.presenter].step = "waiting"
    BY <1>1, RequestOfCall DEF PaidCallsInv, Awaits
  <2>2. Ends(request.presenter, step)
    BY <1>1 DEF Tells
  <2>3. /\ \A b \in Buyer : b # request.presenter => calls'[b] = calls[b]
        /\ calls'[request.presenter].step = step
        /\ Advances(request.presenter)
    BY <2>1, <2>2, EndsAdvances DEF PaidCallsInv, Advances
  <2>4. QED
    BY <2>3
<1>2. CASE ~Awaits(request)
  BY <1>2 DEF Tells
<1>3. QED
  BY <1>1, <1>2

\* A pending verdict sends its call back to present again, or away.
LEMMA PendingAdvances ==
  ASSUME PaidCallsInv, NEW request \in requests, AnswerPending(request)
  PROVE  \A b \in Buyer : \/ calls'[b] = calls[b]
                          \/ b = request.presenter /\ Advances(b)
                             /\ calls'[b].step \in {"paid", "gaveUp"}
<1> DEFINE buyer == request.presenter
           c == calls[buyer]
           again == [c EXCEPT !.step = "paid", !.retries = @ + 1]
<1>1. CASE Tells(request, "gaveUp")
  <2>1. "gaveUp" \in AfterPaying
    BY DEF AfterPaying
  <2>2. QED
    BY <1>1, <2>1, TellingAdvances
<1>2. CASE ~Tells(request, "gaveUp")
  <2>1. Awaits(request) /\ Goes(buyer, again)
    BY <1>2 DEF AnswerPending
  <2>2. buyer \in Buyer /\ HasNonce(buyer) /\ c.step = "waiting"
    BY <2>1, RequestOfCall DEF PaidCallsInv, Awaits
  <2>3. /\ \A b \in Buyer : b # buyer => calls'[b] = calls[b]
        /\ calls'[buyer] = again
    BY <2>1, <2>2 DEF Goes, PaidCallsInv, ClientInv, ClientTypeOK
  <2>4. /\ again.step = "paid" /\ again.listed = c.listed
        /\ again.quote = c.quote /\ again.nonce = c.nonce
    <3>1. c = [step |-> c.step, listed |-> c.listed, quote |-> c.quote, nonce |-> c.nonce,
               expiresAt |-> c.expiresAt, retries |-> c.retries]
      BY <2>2 DEF PaidCallsInv, ClientInv, ClientTypeOK, CallShape, HasNonce
    <3> DEFINE more == c.retries + 1
    <3>2. again = [c EXCEPT !.step = "paid", !.retries = more]
      OBVIOUS
    <3> HIDE DEF c, again, more
    <3>3. QED
      BY <3>1, <3>2
  <2> HIDE DEF again
  <2>5. QED
    BY <2>2, <2>3, <2>4 DEF Advances, AfterPaying
<1>3. QED
  BY <1>1, <1>2

\* The check a request waits for does not pass.
Fails(request) ==
  \/ /\ request.step = "verify"
     /\ ~ /\ TransferOk(request.record, request.nonce, request.payment)
          /\ request.payment.timestamp <= request.expiresAt
  \/ /\ request.step = "sign"
     /\ ~MayBurn(request)

\* A proof that fails no check is with the gateway still, and its call waits.
LEMMA RefusedFails ==
  ASSUME PaidCallsInv, NEW request \in requests, Verify(request) \/ Burn(request),
         RefusedOrOn(request)
  PROVE  /\ QuietStep
         /\ \A b \in Buyer : calls'[b] # calls[b] => b = request.presenter /\ Fails(request)
<1>1. RequestShape(request) /\ paid' = paid /\ \A b \in Buyer : LossIsTold(b)
  BY RequestOfCall DEF PaidCallsInv, Verify, Burn, LossIsTold
<1>2. CASE Fails(request)
  <2>1. Refuse(request)
    BY <1>2 DEF Fails, Verify, Burn
  <2>2. InvoicesFollow /\ IssuedStays
    BY <2>1, ChallengeGrows, GrowthFollows DEF PaidCallsInv, Refuse
  <2>3. ProofsFollow
    BY <2>1, LeavingFollows DEF Refuse
  <2>4. Tells(request, Refusal) \/ calls' = calls
    BY DEF RefusedOrOn
  <2>5. Refusal \in AfterPaying
    BY DEF AfterPaying, Refusal
  <2>6. \A b \in Buyer : calls'[b] = calls[b] \/ (b = request.presenter /\ Advances(b))
    BY <2>4, <2>5, TellingAdvances
  <2>7. QED
    BY <1>1, <1>2, <2>2, <2>3, <2>6 DEF QuietStep
<1>3. CASE ~Fails(request)
  <2>1. \/ MovesTo(request, "sign") /\ UNCHANGED <<issued, invoices, file>>
        \/ /\ SetUsed(request.nonce, TRUE) /\ MovesTo(request, "proxy") /\ issued' = issued
           /\ file' = file \/ file' = invoices'
    BY <1>3 DEF Fails, Verify, Burn, storeVars, Saved
  <2>2. InvoicesFollow /\ IssuedStays
    BY <2>1, NothingFollows, MarkingFollows DEF PaidCallsInv
  <2>3. /\ ProofsFollow
        /\ \E r \in requests' : r.presenter = request.presenter /\ r.nonce = request.nonce
    BY <1>1, <2>1, MovingFollows
  <2>4. calls' = calls
    BY <2>3 DEF RefusedOrOn
  <2>5. QED
    BY <1>1, <2>2, <2>3, <2>4 DEF QuietStep
<1>4. QED
  BY <1>2, <1>3

\* Every answer is a quiet step, and refuses only what fails.
LEMMA AnswerIsQuiet ==
  ASSUME PaidCallsInv, NEW request \in requests, Answer(request)
  PROVE  /\ QuietStep /\ GInv' /\ UNCHANGED <<termsVars, cache>>
         /\ \A b \in Buyer : calls[b].step # "refused" /\ calls'[b].step = "refused"
              => b = request.presenter /\ Fails(request)
<1>1. CASE (Verify(request) \/ Burn(request)) /\ RefusedOrOn(request)
  <2>1. GInv' /\ UNCHANGED <<termsVars, cache>>
    BY <1>1, VerifyKeepsGInv, BurnKeepsGInv DEF PaidCallsInv, Verify, Burn
  <2>2. QED
    BY <1>1, <2>1, RefusedFails
<1>2. CASE AnswerPending(request)
  <2>1. VerifyPending(request)
    BY <1>2 DEF AnswerPending
  <2>2. GInv' /\ UNCHANGED <<termsVars, cache, issued, invoices, file, paid, lost>> /\ requests' \subseteq requests
    BY <2>1, VerifyPendingKeepsGInv DEF PaidCallsInv, VerifyPending, storeVars
  <2>3. \A b \in Buyer : \/ calls'[b] = calls[b]
                         \/ Advances(b) /\ calls'[b].step \in {"paid", "gaveUp"}
    BY <1>2, PendingAdvances
  <2>4. QED
    BY <2>2, <2>3, NothingFollows, LeavingFollows DEF QuietStep, LossIsTold
<1>3. CASE UpstreamAnswers(request) /\ Tells(request, "served")
  <2>1. GInv' /\ UNCHANGED <<termsVars, cache, issued, invoices, file, paid, lost>> /\ requests' \subseteq requests
    BY <1>3, UpstreamAnswersKeepsGInv DEF PaidCallsInv, UpstreamAnswers, storeVars
  <2>2. "served" \in AfterPaying
    BY DEF AfterPaying
  <2>3. \A b \in Buyer : \/ calls'[b] = calls[b]
                         \/ Advances(b) /\ calls'[b].step = "served"
    BY <1>3, <2>2, TellingAdvances
  <2>4. QED
    BY <2>1, <2>3, NothingFollows, LeavingFollows DEF QuietStep, LossIsTold
<1>4. CASE UpstreamFails(request) /\ Tells(request, "upstreamFailed")
  <2>1. /\ GInv' /\ UNCHANGED <<termsVars, cache, issued, paid, lost>> /\ requests' \subseteq requests
        /\ SetUsed(request.nonce, FALSE) /\ (file' = file \/ file' = invoices')
    BY <1>4, UpstreamFailsKeepsGInv DEF PaidCallsInv, UpstreamFails, Saved
  <2>2. "upstreamFailed" \in AfterPaying
    BY DEF AfterPaying
  <2>3. \A b \in Buyer : \/ calls'[b] = calls[b]
                         \/ Advances(b) /\ calls'[b].step = "upstreamFailed"
    BY <1>4, <2>2, TellingAdvances
  <2>4. QED
    BY <2>1, <2>3, MarkingFollows, LeavingFollows DEF QuietStep, LossIsTold, PaidCallsInv
<1>5. CASE (BurnFails(request) \/ ReleaseFails(request)) /\ Tells(request, "failed")
  <2>1. /\ GInv' /\ UNCHANGED <<termsVars, cache, issued, file, paid>> /\ requests' \subseteq requests
        /\ lost' = lost \cup {request.nonce}
        /\ SetUsed(request.nonce, TRUE) \/ SetUsed(request.nonce, FALSE)
    BY <1>5, BurnFailsKeepsGInv, ReleaseFailsKeepsGInv DEF PaidCallsInv, BurnFails, ReleaseFails, NotSaved
  <2>2. "failed" \in AfterPaying
    BY DEF AfterPaying
  <2>3. \A b \in Buyer : \/ calls'[b] = calls[b]
                         \/ Advances(b) /\ calls'[b].step = "failed"
    BY <1>5, <2>2, TellingAdvances
  <2>4. ASSUME NEW b \in Buyer, HasNonce(b), calls[b].nonce = request.nonce
        PROVE  calls'[b].step = "failed"
    <3>1. b = request.presenter /\ calls[b].step \in {"waiting", "failed"}
      BY <2>4, RequestOfCall DEF PaidCallsInv, ClientInv, NoncesOK
    <3>2. CASE Awaits(request)
      BY <1>5, <3>1, <3>2, <2>4, EndsAdvances DEF Tells, PaidCallsInv
    <3>3. CASE ~Awaits(request)
      BY <1>5, <2>4, <3>1, <3>3 DEF Tells, Awaits
    <3>4. QED
      BY <3>2, <3>3
  <2>5. \A b \in Buyer : LossIsTold(b)
    BY <2>1, <2>4 DEF LossIsTold
  <2>6. InvoicesFollow /\ IssuedStays
    BY <2>1, MarkingFollows DEF PaidCallsInv
  <2>7. QED
    BY <2>1, <2>3, <2>5, <2>6, LeavingFollows DEF QuietStep
<1>6. QED
  BY <1>1, <1>2, <1>3, <1>4, <1>5 DEF Answer

-----------------------------------------------------------------------------
(***************************************************************************)
(* Why a paid call is not refused.                                         *)
(***************************************************************************)

\* A call has one payment, the one it presents.
LEMMA OnePayment ==
  ASSUME PaymentsOK, NEW p \in paid
  PROVE  PaymentOf(p.payer) = p
<1>1. p.nonce = calls[p.payer].nonce
  BY DEF PaymentsOK, PaymentFits
<1>2. \A q \in paid : q.payer = p.payer => q = p
  BY DEF PaymentsOK
<1>3. QED
  BY <1>1, <1>2 DEF PaymentOf

\* The invoice of a collectable payment is there for its call, and unused until
\* its call's request is with the upstream.
LEMMA InvoiceIsUsable ==
  ASSUME PaidCallsInv, NEW p \in paid, Collectable(p),
         calls[p.payer].step \in {"paid", "waiting"}, ~Calling(p.nonce)
  PROVE  \E v \in InvoiceOf(p.nonce) : v.id = calls[p.payer].quote.id /\ ~v.used
<1> DEFINE b == p.payer
<1>1. b \in Buyer /\ HasNonce(b) /\ p.nonce = calls[b].nonce
  BY DEF PaidCallsInv, PaymentsOK, PaymentFits, HasNonce
<1>2. InvoiceOf(p.nonce) # {}
  BY GInvImplies DEF PaidCallsInv, PaidInvoiceIsKept
<1>3. PICK v \in invoices : v.nonce = p.nonce
  BY <1>2 DEF InvoiceOf
<1>4. v.id = calls[b].quote.id /\ p.nonce \notin lost
  BY <1>1, <1>3 DEF PaidCallsInv, CallFits
<1>5. ~Answered(p.nonce)
  BY <1>1, NoRequestYet DEF PaidCallsInv, Answered
<1>6. ~(v.expiresAt < now - RedemptionWindow)
  <2>1. /\ v.expiresAt = issued[p.nonce] /\ issued[p.nonce] \in Nat
        /\ p.timestamp \in Nat /\ now \in Nat /\ RedemptionWindow \in Nat
    BY <1>3, TtlAssumption DEF PaidCallsInv, GInv, LedgerOK, InvoicesOK
  <2>2. QED
    BY <2>1 DEF Collectable
<1>7. ~v.used
  BY <1>3, <1>4, <1>5, <1>6 DEF PaidCallsInv, GInv, UsedMeansSpent, SpentFits
<1>8. QED
  BY <1>3, <1>4, <1>7 DEF InvoiceOf

\* A proof judged by the record its call was quoted fails only when its payment
\* is not collectable.
LEMMA OnlyUncollectableFails ==
  ASSUME PaidCallsInv, NEW request \in requests, Fails(request),
         calls[request.presenter].step = "waiting",
         request.record = calls[request.presenter].quote, request.record.amount \in Nat
  PROVE  \A p \in paid : p.payer = request.presenter => ~Collectable(p)
<1> SUFFICES ASSUME NEW p \in paid, p.payer = request.presenter, Collectable(p)
             PROVE  FALSE
  OBVIOUS
<1>1. request.payment = p /\ request.expiresAt = issued[request.nonce]
  BY DEF PaidCallsInv, GInv, RequestOK, ProofFits, PaymentsOK
<1>2. /\ calls[p.payer].nonce = request.nonce
      /\ \A r \in requests : r.nonce = request.nonce => r = request
  BY RequestOfCall DEF PaidCallsInv
<1>3. /\ p.payTo = request.record.payTo /\ p.nonce = request.nonce
      /\ p.id = request.record.id /\ p.amount = request.record.amount
  BY <1>2 DEF PaidCallsInv, PaymentsOK, PaymentFits
<1>4. TransferOk(request.record, request.nonce, request.payment)
  BY <1>1, <1>3 DEF TransferOk, Collectable
<1>5. request.payment.timestamp <= request.expiresAt
  BY <1>1, <1>3 DEF Collectable
<1>6. request.step = "sign" => ~Calling(p.nonce)
  BY <1>2, <1>3 DEF Calling
<1>7. request.step = "sign" => \E v \in InvoiceOf(request.nonce) : ~v.used
  BY <1>3, <1>6, InvoiceIsUsable
<1>8. request.payment.payer = request.presenter
  BY <1>1
<1>9. QED
  BY <1>4, <1>5, <1>7, <1>8 DEF Fails, MayBurn

\* The chain's prices are numbers.
LEMMA ListedPrice ==
  ASSUME IInv, NEW id \in ServiceId
  PROVE  Record(id).amount \in Nat
<1> DEFINE s == services[id]
<1>1. s \in Service
  BY DEF IInv
<1>2. Price \cup {0} \subseteq Nat
  BY PriceAssumption
<1>3. s.accepts \in Nat /\ s.pendingAccepts \in Nat
  <2> HIDE DEF s
  <2>1. s.accepts \in Price \cup {0} /\ s.pendingAccepts \in Price \cup {0}
    BY <1>1 DEF Service
  <2>2. QED
    BY <1>2, <2>1
<1>4. GetService(id).accepts = EffectiveNativePrice(s)
  BY FoldedRecord
<1>5. QED
  BY <1>3, <1>4 DEF Record, EffectiveNativePrice

-----------------------------------------------------------------------------
(***************************************************************************)
(* Every step keeps the invariant, and the agreement while the chain lists *)
(* the same terms.                                                         *)
(***************************************************************************)

AgreementLasts ==
  \A b \in Buyer : \A terms : Lists(terms) /\ Agrees(b, terms) => Agrees(b, terms)'

\* A quiet step that tells nobody of a refusal.
LEMMA UntoldSteps ==
  ASSUME PaidCallsInv, QuietStep, IInv', GInv', ClientInv', now' \in Nat, now <= now',
         cache' = cache,
         \A b \in Buyer : calls'[b].step = "refused" => calls[b].step = "refused"
  PROVE  PaidCallsInv' /\ AgreementLasts
<1>1. CacheOK'
  BY DEF PaidCallsInv, CacheOK
<1>2. AgreementLasts
  BY QuietStepAgrees DEF AgreementLasts
<1>3. QED
  BY <1>1, <1>2, QuietStepKeeps

\* What leaves the terms alone keeps their invariant and the clock.
LEMMA SameTerms ==
  ASSUME PaidCallsInv, UNCHANGED termsVars
  PROVE  IInv' /\ now' \in Nat /\ now <= now'
<1>1. now \in Nat /\ now' = now
  BY DEF PaidCallsInv, IInv, termsVars
<1>2. QED
  BY <1>1, NextIInv DEF PaidCallsInv

\* A step that leaves the gateway's books alone keeps what is said of them.
LEMMA SameBooks ==
  ASSUME GInv, UNCHANGED <<now, issued, invoices, file, paid, requests, served, lost>>
  PROVE  GInv'
BY DEF GInv, LedgerOK, InvoicesOK, InvoiceShape, RequestOK, RequestShape, ServedOK, SpentOnce,
       UsedMeansSpent, SpentFits, Calling, Answered

\* An answer refuses a call at the chain's terms for its payment's sake only.
LEMMA AnswerHonours ==
  ASSUME PaidCallsInv, NEW request \in requests, Answer(request)
  PROVE  PaidCallsInv' /\ AgreementLasts
<1>1. /\ QuietStep /\ GInv' /\ UNCHANGED <<termsVars, cache>>
      /\ \A b \in Buyer : calls[b].step # "refused" /\ calls'[b].step = "refused"
           => b = request.presenter /\ Fails(request)
  BY AnswerIsQuiet
<1>2. IInv' /\ now' \in Nat /\ now <= now'
  BY <1>1, SameTerms
<1>3. ClientInv'
  BY AnswerKeeps DEF PaidCallsInv
<1>4. CacheOK'
  BY <1>1 DEF PaidCallsInv, CacheOK
<1>5. PaidCallsInv'
  BY <1>1, <1>2, <1>3, <1>4, QuietStepKeeps
<1>6. ASSUME NEW b \in Buyer, NEW terms, Lists(terms), Agrees(b, terms)
      PROVE  Agrees(b, terms)'
  <2>1. ASSUME calls[b].step # "refused", calls'[b].step = "refused",
               calls[b].quote = terms[calls[b].quote.id]
        PROVE  \A p \in paid : p.payer = b => ~Collectable(p)
    <3>1. b = request.presenter /\ Fails(request)
      BY <1>1, <2>1
    <3>2. HasNonce(b) /\ calls[b].nonce = request.nonce /\ calls[b].step \in {"waiting", "failed"}
      BY <3>1, RequestOfCall DEF PaidCallsInv
    <3>3. calls[b].step = "waiting"
      BY <1>1, <2>1, <3>2 DEF QuietStep, Advances
    <3>4. request.record = calls[b].quote
      BY <1>6, <2>1, <3>2 DEF Agrees
    <3>5. calls[b].quote = Record(calls[b].quote.id) /\ calls[b].quote.id \in ServiceId
      BY <1>6, <2>1, <3>2 DEF Lists, PaidCallsInv, CallFits
    <3>6. request.record.amount \in Nat
      BY <3>4, <3>5, ListedPrice DEF PaidCallsInv
    <3>7. QED
      BY <3>1, <3>3, <3>4, <3>6, OnlyUncollectableFails
  <2>2. QED
    BY <1>1, <1>2, <1>6, <2>1, QuietStepAgrees
<1>7. QED
  BY <1>5, <1>6 DEF AgreementLasts

\* The client's own steps before it pays.
LEMMA LookupHonours ==
  ASSUME PaidCallsInv, NEW buyer \in Buyer, NEW id \in ServiceId, Lookup(buyer, id)
  PROVE  PaidCallsInv' /\ AgreementLasts
<1> DEFINE call == [step |-> "listed", listed |-> Record(id)]
<1>1. /\ UNCHANGED vars /\ calls[buyer].step = "idle"
      /\ \A b \in Buyer : calls'[b] = IF b = buyer THEN call ELSE calls[b]
  BY DEF Lookup, At, Goes, PaidCallsInv, ClientInv, ClientTypeOK
<1>2. UNCHANGED <<termsVars, cache, issued, invoices, file, paid, requests, served, lost>> /\ now' = now
  BY <1>1 DEF vars, termsVars, gatewayVars, storeVars
<1>3. IInv' /\ GInv' /\ ClientInv'
  BY <1>2, SameTerms, SameBooks, LookupKeeps DEF PaidCallsInv
<1>4. ~HasNonce(buyer) /\ ~HasNonce(buyer)' /\ call.step = "listed" /\ call.listed.id = id
  BY <1>1 DEF HasNonce, Record
<1> HIDE DEF call
<1>5. PaymentsOK'
  BY <1>1, <1>2, <1>4, PaymentsStay DEF PaidCallsInv
<1>6. \A b \in Buyer : CallFits(b)'
  BY <1>1, <1>2, <1>4 DEF PaidCallsInv, CallFits, HasNonce
<1>7. CacheOK' /\ \A r \in requests' : ProofFits(r)'
  BY <1>2 DEF PaidCallsInv, CacheOK, ProofFits
<1>8. AgreementLasts
  BY <1>1, <1>2, <1>4 DEF AgreementLasts, Agrees, HasNonce, Collectable
<1>9. QED
  BY <1>3, <1>5, <1>6, <1>7, <1>8 DEF PaidCallsInv

\* A quote is the record that is now cached, and its nonce is new.
LEMMA CallAsksHonours ==
  ASSUME PaidCallsInv, NEW buyer \in Buyer, CallAsks(buyer)
  PROVE  PaidCallsInv' /\ AgreementLasts
<1> DEFINE id == calls[buyer].listed.id
           invoice == CHOOSE i \in invoices' : i.nonce = Len(issued')
           quoted == [step |-> "quoted", listed |-> calls[buyer].listed, quote |-> invoice.quote,
                      nonce |-> invoice.nonce, expiresAt |-> invoice.expiresAt, retries |-> 0]
           unquoted == [step |-> "unquoted", listed |-> calls[buyer].listed]
           call == IF issued' = issued THEN unquoted ELSE quoted
<1>1. calls[buyer].step = "listed" /\ ~HasNonce(buyer) /\ id \in ServiceId
  BY DEF CallAsks, At, HasNonce, PaidCallsInv, CallFits
<1>2. \A b \in Buyer : calls'[b] = IF b = buyer THEN call ELSE calls[b]
  BY DEF CallAsks, Goes, PaidCallsInv, ClientInv, ClientTypeOK
<1>3. PICK record :
        /\ Resolves(id, record)
        /\ Challenge(record)
        /\ UNCHANGED <<termsVars, requests, served, lost, paid>>
  BY DEF CallAsks, Ask
<1>4. /\ CacheOK' /\ record.id = id
      /\ \A e \in cache'[id] : e.record = record
      /\ \A k \in ServiceId : \A e \in cache'[k] : e \in cache[k] \/ e.record = Record(k)
  BY <1>1, <1>3, ResolvesKeepsCache DEF PaidCallsInv
<1>5. StoreGrows /\ InvoicesFollow /\ IssuedStays
  BY <1>3, ChallengeGrows, GrowthFollows DEF PaidCallsInv
<1>6. IInv' /\ now' \in Nat /\ now <= now' /\ GInv' /\ ClientInv'
  BY <1>3, SameTerms, AskKeepsGInv, CallAsksKeeps DEF PaidCallsInv, CallAsks
<1>7. ASSUME issued' # issued
      PROVE  /\ invoice.nonce = Len(issued) + 1 /\ invoice.quote = record
             /\ Len(issued) + 1 \notin DOMAIN issued
             /\ \A v \in invoices' \cup file' : v.nonce = invoice.nonce => v.id = record.id
  <2> DEFINE v == [nonce |-> Len(issued) + 1, id |-> record.id, quote |-> record,
                   expiresAt |-> now + InvoiceTtl, used |-> FALSE]
  <2>1. issued \in Seq(Nat)
    BY DEF PaidCallsInv, GInv, LedgerOK
  <2>2. /\ issued' = Append(issued, now + InvoiceTtl) /\ invoices' = invoices \cup {v}
        /\ file' = file \/ file' = invoices'
    BY <1>3, <1>7 DEF Challenge, storeVars, Saved
  <2>3. Len(issued') = Len(issued) + 1 /\ Len(issued) + 1 \notin DOMAIN issued
    BY <2>1, <2>2
  <2>4. \A w \in invoices \cup file : w.nonce # Len(issued) + 1
    BY <2>3 DEF PaidCallsInv, GInv, InvoicesOK
  <2>5. v.nonce = Len(issued) + 1 /\ v.quote = record /\ v.id = record.id
    OBVIOUS
  <2> HIDE DEF v
  <2>6. \A w \in invoices' \cup file' : w.nonce = Len(issued) + 1 => w = v
    BY <2>2, <2>4
  <2>7. invoice = v
    BY <2>2, <2>3, <2>5, <2>6
  <2> HIDE DEF invoice
  <2>8. QED
    BY <2>3, <2>5, <2>6, <2>7
<1>8. /\ call.step \in {"quoted", "unquoted"} /\ call.listed = calls[buyer].listed
      /\ call.step = "quoted" => /\ issued' # issued
                                 /\ call.quote = record
                                 /\ call.nonce = Len(issued) + 1 /\ call.nonce = invoice.nonce
  <2>1. CASE issued' = issued
    BY <2>1
  <2>2. CASE issued' # issued
    <3>1. call = quoted
      BY <2>2
    <3>2. invoice.nonce = Len(issued) + 1 /\ invoice.quote = record
      BY <1>7, <2>2
    <3> HIDE DEF invoice, call
    <3>3. QED
      BY <2>2, <3>1, <3>2
  <2>3. QED
    BY <2>1, <2>2
<1> HIDE DEF call, invoice, quoted, unquoted
<1>9. PaymentsOK'
  BY <1>1, <1>2, <1>3, <1>8, PaymentsStay DEF PaidCallsInv
<1>10. ASSUME NEW b \in Buyer PROVE CallFits(b)'
  <2>1. CASE b = buyer
    <3>1. call.step = "quoted" => call.nonce \notin lost
      BY <1>7, <1>8 DEF PaidCallsInv, GInv, SpentOnce
    <3>2. calls'[buyer] = call
      BY <1>2
    <3>3. QED
      BY <1>1, <1>3, <1>4, <1>7, <1>8, <2>1, <3>1, <3>2 DEF CallFits, HasNonce
  <2>2. CASE b # buyer
    BY <1>2, <1>3, <1>5, <2>2, CallsStillFit DEF PaidCallsInv, LossIsTold
  <2>3. QED
    BY <2>1, <2>2
<1>11. \A r \in requests' : ProofFits(r)'
  <2>1. ProofsFollow
    BY <1>3, LeavingFollows
  <2>2. QED
    BY <1>5, <2>1, ProofsStillFit DEF PaidCallsInv, GInv
<1>12. ASSUME NEW b \in Buyer, NEW terms, Lists(terms), Agrees(b, terms)
       PROVE  Agrees(b, terms)'
  <2>1. CASE b = buyer
    <3>1. call.step = "quoted" => \A r \in requests' : r.nonce # call.nonce
      BY <1>3, <1>7, <1>8 DEF PaidCallsInv, GInv, RequestOK
    <3>2. calls'[b] = call
      BY <1>2, <2>1
    <3>3. QED
      BY <1>4, <1>8, <3>1, <3>2 DEF Agrees, HasNonce
  <2>2. CASE b # buyer
    <3>1. HasNonce(b)' <=> HasNonce(b)
      BY <1>2, <2>2 DEF HasNonce
    <3>2. calls'[b] = calls[b]
      BY <1>2, <2>2
    <3>3. HasNonce(b) => calls[b].quote.id \in ServiceId
      BY DEF PaidCallsInv, CallFits
    <3>4. \A k \in ServiceId : \A e \in cache'[k] : e \in cache[k] \/ e.record = terms[k]
      BY <1>4, <1>12 DEF Lists
    <3>5. ASSUME HasNonce(b), calls[b].quote = terms[calls[b].quote.id], calls[b].step = "refused",
                 NEW p \in paid, p.payer = b
          PROVE  ~Collectable(p)'
      BY <1>5, <1>6, <1>12, <3>5, StaysUncollectable DEF Agrees, PaidCallsInv
    <3>6. QED
      BY <1>3, <1>12, <3>1, <3>2, <3>3, <3>4, <3>5 DEF Agrees
  <2>3. QED
    BY <2>1, <2>2
<1>13. QED
  BY <1>4, <1>6, <1>9, <1>10, <1>11, <1>12 DEF PaidCallsInv, AgreementLasts

\* Checking a quote tells the gateway nothing.
LEMMA CheckQuoteHonours ==
  ASSUME PaidCallsInv, NEW buyer \in Buyer, CheckQuote(buyer)
  PROVE  PaidCallsInv' /\ AgreementLasts
<1>1. calls[buyer].step = "quoted" /\ HasNonce(buyer) /\ UNCHANGED vars
  BY DEF CheckQuote, At, HasNonce
<1>2. PICK step \in {"paying", "declined"} : Ends(buyer, step)
  BY DEF CheckQuote
<1>3. /\ UNCHANGED <<termsVars, cache, paid, lost, requests>>
      /\ UNCHANGED <<now, issued, invoices, file, served>>
  BY <1>1 DEF vars, termsVars, gatewayVars, storeVars
<1>4. \A b \in Buyer : calls'[b] = calls[b] \/ (Advances(b) /\ calls'[b].step = step)
  BY <1>1, <1>2, EndsAdvances DEF PaidCallsInv, Advances
<1>5. QuietStep
  BY <1>3, <1>4, NothingFollows, LeavingFollows DEF QuietStep, LossIsTold
<1>6. IInv' /\ now' \in Nat /\ now <= now' /\ GInv' /\ ClientInv'
  BY <1>3, SameTerms, SameBooks, CheckQuoteKeeps DEF PaidCallsInv
<1>7. QED
  BY <1>2, <1>3, <1>4, <1>5, <1>6, UntoldSteps

\* Nor does giving up on an answer.
LEMMA CallTimesOutHonours ==
  ASSUME PaidCallsInv, NEW buyer \in Buyer, CallTimesOut(buyer)
  PROVE  PaidCallsInv' /\ AgreementLasts
<1>1. calls[buyer].step = "waiting" /\ HasNonce(buyer) /\ UNCHANGED vars /\ Ends(buyer, "failed")
  BY DEF CallTimesOut, At, HasNonce
<1>2. /\ UNCHANGED <<termsVars, cache, paid, lost, requests>>
      /\ UNCHANGED <<now, issued, invoices, file, served>>
  BY <1>1 DEF vars, termsVars, gatewayVars, storeVars
<1>3. \A b \in Buyer : calls'[b] = calls[b] \/ (Advances(b) /\ calls'[b].step = "failed")
  BY <1>1, EndsAdvances DEF PaidCallsInv, Advances, AfterPaying
<1>4. QuietStep
  BY <1>2, <1>3, NothingFollows, LeavingFollows DEF QuietStep, LossIsTold
<1>5. IInv' /\ now' \in Nat /\ now <= now' /\ GInv' /\ ClientInv'
  BY <1>2, SameTerms, SameBooks, CallTimesOutKeeps DEF PaidCallsInv
<1>6. QED
  BY <1>2, <1>3, <1>4, <1>5, UntoldSteps

\* A payment settles at the call's quote, once.
LEMMA CallPaysHonours ==
  ASSUME PaidCallsInv, NEW buyer \in Buyer, CallPays(buyer)
  PROVE  PaidCallsInv' /\ AgreementLasts
<1> DEFINE call == calls[buyer]
           Settles == Pay(buyer, call.quote.id, call.nonce, call.quote.payTo, call.quote.amount)
           p == [id |-> call.quote.id, nonce |-> call.nonce, payer |-> buyer,
                 payTo |-> call.quote.payTo, amount |-> call.quote.amount, timestamp |-> now]
<1>1. call.step = "paying" /\ HasNonce(buyer)
  BY DEF CallPays, At, HasNonce
<1>2. PICK step \in {"paid", "failed"} :
        Ends(buyer, step) /\ (Settles \/ (step = "failed" /\ UNCHANGED vars))
  BY DEF CallPays
<1>3. /\ \A b \in Buyer : b # buyer => calls'[b] = calls[b]
      /\ calls'[buyer].step = step /\ calls'[buyer].listed = call.listed
      /\ calls'[buyer].quote = call.quote /\ calls'[buyer].nonce = call.nonce
  BY <1>1, <1>2, EndsAdvances DEF PaidCallsInv
<1>4. UNCHANGED <<termsVars, cache, issued, invoices, file, requests, served, lost, now>>
  BY <1>2 DEF Pay, vars, termsVars, gatewayVars, storeVars
<1>5. \/ paid' = paid /\ step = "failed"
      \/ paid' = paid \cup {p}
  BY <1>2 DEF Pay, vars
<1>6. IInv' /\ now' \in Nat /\ now <= now' /\ ClientInv'
  BY <1>4, SameTerms, CallPaysKeeps DEF PaidCallsInv
<1>7. GInv'
  <2>1. CASE Settles
    BY <2>1, PayKeepsGInv DEF PaidCallsInv
  <2>2. CASE UNCHANGED vars
    BY <1>4, <2>2, SameBooks DEF PaidCallsInv, vars
  <2>3. QED
    BY <1>2, <2>1, <2>2
<1>8. \A q \in paid : q.payer # buyer
  BY <1>1 DEF PaidCallsInv, PaymentsOK, PaymentFits, AfterPaying
<1>9. /\ p.payer = buyer /\ p.id = call.quote.id /\ p.nonce = call.nonce
      /\ p.payTo = call.quote.payTo /\ p.amount = call.quote.amount
  OBVIOUS
<1> HIDE DEF p, call
<1>10. step \in AfterPaying /\ (step \in Settled => step = "paid")
  BY DEF AfterPaying, Settled
<1>11. PaymentsOK'
  <2>1. ASSUME NEW q \in paid' PROVE PaymentFits(q)'
    <3>1. CASE q \in paid
      BY <1>3, <1>8, <3>1 DEF PaidCallsInv, PaymentsOK, PaymentFits
    <3>2. CASE q = p
      BY <1>3, <1>9, <1>10, <3>2 DEF PaymentFits
    <3>3. QED
      BY <1>5, <3>1, <3>2
  <2>2. ASSUME NEW q \in paid', NEW r \in paid', q.payer = r.payer PROVE q = r
    BY <1>5, <1>8, <1>9, <2>2 DEF PaidCallsInv, PaymentsOK
  <2>3. ASSUME NEW b \in Buyer, calls'[b].step \in Settled PROVE \E q \in paid' : q.payer = b
    <3>1. CASE b = buyer
      BY <1>3, <1>5, <1>9, <1>10, <2>3, <3>1
    <3>2. CASE b # buyer
      BY <1>3, <1>5, <2>3, <3>2 DEF PaidCallsInv, PaymentsOK
    <3>3. QED
      BY <3>1, <3>2
  <2>4. QED
    BY <2>1, <2>2, <2>3 DEF PaymentsOK
<1>12. ASSUME NEW b \in Buyer PROVE CallFits(b)'
  <2>1. CASE b = buyer
    BY <1>1, <1>3, <1>4, <2>1 DEF PaidCallsInv, CallFits, HasNonce, call
  <2>2. CASE b # buyer
    BY <1>3, <1>4, <2>2 DEF PaidCallsInv, CallFits, HasNonce
  <2>3. QED
    BY <2>1, <2>2
<1>13. CacheOK' /\ \A r \in requests' : ProofFits(r)'
  BY <1>4 DEF PaidCallsInv, CacheOK, ProofFits
<1>14. ASSUME NEW b \in Buyer, NEW terms, Lists(terms), Agrees(b, terms)
       PROVE  Agrees(b, terms)'
  <2>1. CASE b = buyer
    BY <1>1, <1>2, <1>3, <1>4, <1>14, <2>1 DEF Agrees, HasNonce, call
  <2>2. CASE b # buyer
    <3>1. calls'[b] = calls[b] /\ (HasNonce(b)' <=> HasNonce(b))
      BY <1>3, <2>2 DEF HasNonce
    <3>2. \A q \in paid' : q.payer = b => q \in paid
      BY <1>5, <1>9, <2>2
    <3>3. QED
      BY <1>4, <1>14, <3>1, <3>2 DEF Agrees, Collectable
  <2>3. QED
    BY <2>1, <2>2
<1>15. QED
  BY <1>6, <1>7, <1>11, <1>12, <1>13, <1>14 DEF PaidCallsInv, AgreementLasts

\* A proof is let in with the record of the moment, or its payment is not
\* collectable any more.
LEMMA CallPresentsHonours ==
  ASSUME PaidCallsInv, NEW buyer \in Buyer, CallPresents(buyer)
  PROVE  PaidCallsInv' /\ AgreementLasts
<1> DEFINE call == calls[buyer]
           id == call.quote.id
           payment == PaymentOf(buyer)
           usable == {v \in InvoiceOf(call.nonce) : v.id = id /\ ~v.used}
           step == IF requests' = requests THEN Refusal ELSE "waiting"
<1>1. call.step = "paid" /\ HasNonce(buyer) /\ id \in ServiceId
  BY DEF CallPresents, At, HasNonce, PaidCallsInv, CallFits
<1>2. payment \in paid /\ payment.payer = buyer /\ payment.nonce = call.nonce
  <2>1. PICK p \in paid : p.payer = buyer
    BY <1>1 DEF PaidCallsInv, PaymentsOK, Settled, AfterPaying
  <2>2. payment = p
    BY <2>1, OnePayment DEF PaidCallsInv
  <2>3. QED
    BY <2>1, <2>2 DEF PaidCallsInv, PaymentsOK, PaymentFits
<1>3. Ends(buyer, step) /\ Refusal \in {"refused", "failed"}
  BY DEF CallPresents, Ends, Refusal
<1>4. /\ \A b \in Buyer : b # buyer => calls'[b] = calls[b]
      /\ calls'[buyer].step = step
      /\ Advances(buyer)
  BY <1>1, <1>3, EndsAdvances DEF PaidCallsInv, Advances, AfterPaying
<1>5. PICK record :
        /\ Resolves(id, record)
        /\ IF usable = {}
             THEN Challenge(record) /\ UNCHANGED requests
             ELSE /\ requests' = requests \cup
                       {[ presenter |-> buyer, nonce |-> call.nonce, payment |-> payment,
                          record |-> record, step |-> "verify",
                          expiresAt |-> (CHOOSE v \in usable : TRUE).expiresAt ]}
                  /\ UNCHANGED storeVars
        /\ UNCHANGED <<termsVars, served, lost, paid>>
  BY DEF CallPresents, Present
<1>6. /\ CacheOK' /\ \A e \in cache'[id] : e.record = record
      /\ record = Record(id) \/ \E e \in cache[id] : record = e.record
      /\ \A k \in ServiceId : \A e \in cache'[k] : e \in cache[k] \/ e.record = Record(k)
  BY <1>1, <1>5, ResolvesKeepsCache DEF PaidCallsInv
<1>7. IInv' /\ now' \in Nat /\ now <= now' /\ ClientInv'
  BY <1>5, SameTerms, CallPresentsKeeps DEF PaidCallsInv
<1>8. GInv'
  BY <1>2, PresentKeepsGInv DEF PaidCallsInv, CallPresents
<1>9. \A r \in requests : r.nonce # call.nonce
  BY <1>1, NoRequestYet DEF PaidCallsInv
<1> DEFINE new == [ presenter |-> buyer, nonce |-> call.nonce, payment |-> payment,
                    record |-> record, step |-> "verify",
                    expiresAt |-> (CHOOSE v \in usable : TRUE).expiresAt ]
<1>10. CASE usable = {}
  <2>1. requests' = requests /\ Challenge(record)
    BY <1>5, <1>10
  <2>2. QuietStep
    BY <1>4, <1>5, <2>1, ChallengeGrows, GrowthFollows, LeavingFollows
    DEF QuietStep, LossIsTold, PaidCallsInv
  <2>3. PaidCallsInv'
    BY <1>6, <1>7, <1>8, <2>2, QuietStepKeeps
  <2>4. \A p \in paid : p.payer = buyer => ~Collectable(p)
    <3> SUFFICES ASSUME NEW p \in paid, p.payer = buyer, Collectable(p) PROVE FALSE
      OBVIOUS
    <3>1. p.nonce = call.nonce
      BY DEF PaidCallsInv, PaymentsOK, PaymentFits
    <3>2. ~Calling(p.nonce)
      BY <1>9, <3>1 DEF Calling
    <3>3. QED
      BY <1>1, <1>10, <3>1, <3>2, InvoiceIsUsable
  <2>5. ASSUME NEW b \in Buyer, NEW terms, Lists(terms), Agrees(b, terms)
        PROVE  Agrees(b, terms)'
    <3>1. \A k \in ServiceId : \A e \in cache'[k] : e \in cache[k] \/ e.record = terms[k]
      BY <1>6, <2>5 DEF Lists
    <3>2. calls[b].step # "refused" /\ calls'[b].step = "refused"
            => \A p \in paid : p.payer = b => ~Collectable(p)
      BY <1>4, <2>4
    <3>3. QED
      BY <1>7, <2>2, <2>5, <3>1, <3>2, QuietStepAgrees
  <2>6. QED
    BY <2>3, <2>5 DEF AgreementLasts
<1>11. CASE usable # {}
  <2>1. requests' = requests \cup {new} /\ UNCHANGED storeVars
    BY <1>5, <1>11
  <2>2. /\ new.presenter = buyer /\ new.nonce = call.nonce /\ new.payment = payment
        /\ new.record = record
    OBVIOUS
  <2>3. new.expiresAt = issued[call.nonce]
    <3>1. (CHOOSE v \in usable : TRUE) \in usable
      BY <1>11
    <3>2. \A v \in usable : v.expiresAt = issued[call.nonce]
      BY DEF InvoiceOf, PaidCallsInv, GInv, InvoicesOK
    <3> HIDE DEF usable
    <3>3. QED
      BY <3>1, <3>2
  <2> HIDE DEF new, usable
  <2>4. step = "waiting"
    BY <1>9, <2>1, <2>2
  <2>5. PaymentsOK'
    BY <1>4, <1>5, PaymentsStay DEF PaidCallsInv
  <2>6. \A b \in Buyer : CallFits(b)'
    BY <1>4, <1>5, <2>1, NothingFollows, CallsStillFit DEF PaidCallsInv, LossIsTold, storeVars
  <2>7. ASSUME NEW r \in requests' PROVE ProofFits(r)'
    BY <1>2, <2>1, <2>2, <2>3, <2>7 DEF PaidCallsInv, ProofFits, storeVars
  <2>8. ASSUME NEW b \in Buyer, NEW terms, Lists(terms), Agrees(b, terms)
        PROVE  Agrees(b, terms)'
    <3> SUFFICES ASSUME HasNonce(b)', calls'[b].quote = terms[calls'[b].quote.id]
                 PROVE  /\ \A e \in cache'[calls'[b].quote.id] : e.record = calls'[b].quote
                        /\ \A r \in requests' : r.nonce = calls'[b].nonce => r.record = calls'[b].quote
                        /\ calls'[b].step = "refused"
                             => \A p \in paid' : p.payer = b => ~Collectable(p)'
      BY DEF Agrees
    <3>1. /\ HasNonce(b) /\ calls'[b].quote = calls[b].quote /\ calls'[b].nonce = calls[b].nonce
          /\ calls'[b].step = "refused" => calls[b].step = "refused"
      BY <1>4, <2>4 DEF Advances, HasNonce
    <3>2. /\ calls[b].quote.id \in ServiceId
          /\ calls[b].quote = terms[calls[b].quote.id]
          /\ \A e \in cache[calls[b].quote.id] : e.record = calls[b].quote
      BY <2>8, <3>1 DEF PaidCallsInv, CallFits, Agrees
    <3>3. \A e \in cache'[calls'[b].quote.id] : e.record = calls'[b].quote
      BY <1>6, <2>8, <3>1, <3>2 DEF Lists
    <3>4. ASSUME NEW r \in requests', r.nonce = calls'[b].nonce
          PROVE  r.record = calls'[b].quote
      <4>1. CASE r \in requests
        BY <2>8, <3>1, <3>2, <3>4, <4>1 DEF Agrees
      <4>2. CASE r = new
        <5>1. b = buyer
          BY <1>1, <2>2, <3>1, <3>4, <4>2 DEF PaidCallsInv, ClientInv, NoncesOK
        <5>2. record = calls[b].quote
          BY <1>1, <1>6, <2>8, <3>2, <5>1 DEF Lists
        <5>3. QED
          BY <2>2, <3>1, <4>2, <5>2
      <4>3. QED
        BY <2>1, <4>1, <4>2
    <3>5. ASSUME calls'[b].step = "refused", NEW p \in paid', p.payer = b
          PROVE  ~Collectable(p)'
      <4>1. p \in paid /\ ~Collectable(p)
        BY <1>5, <2>8, <3>1, <3>2, <3>5 DEF Agrees
      <4>2. IssuedStays
        BY <2>1, NothingFollows DEF storeVars
      <4>3. QED
        BY <1>7, <4>1, <4>2, StaysUncollectable DEF PaidCallsInv
    <3>6. QED
      BY <3>3, <3>4, <3>5
  <2>9. QED
    BY <1>6, <1>7, <1>8, <2>5, <2>6, <2>7, <2>8 DEF PaidCallsInv, AgreementLasts
<1>12. QED
  BY <1>10, <1>11

\* A crash disconnects the calls whose nonces it loses.
LEMMA CrashHonours ==
  ASSUME PaidCallsInv, CrashDisconnects
  PROVE  PaidCallsInv' /\ AgreementLasts
<1>1. /\ UNCHANGED <<termsVars, issued, file, served, paid, now>>
      /\ invoices' = file /\ requests' = {} /\ cache' = [id \in ServiceId |-> {}]
      /\ lost' = lost \cup {r.nonce : r \in {q \in requests : q.step = "proxy"}}
  BY DEF CrashDisconnects, Crash, termsVars
<1>2. IInv' /\ now' \in Nat /\ now <= now' /\ GInv' /\ ClientInv'
  BY <1>1, SameTerms, CrashKeepsGInv, CrashKeeps DEF PaidCallsInv, CrashDisconnects
<1>3. ASSUME NEW b \in Buyer
      PROVE  /\ calls[b].step # "waiting" => calls'[b] = calls[b]
             /\ calls[b].step = "waiting" => calls'[b].step = "failed" /\ Advances(b)
  <2> DEFINE c == calls[b]
  <2>1. calls'[b] = IF c.step = "waiting" THEN [c EXCEPT !.step = "failed"] ELSE c
    BY DEF CrashDisconnects, At
  <2>2. CASE c.step = "waiting"
    <3>1. c = [step |-> c.step, listed |-> c.listed, quote |-> c.quote, nonce |-> c.nonce,
               expiresAt |-> c.expiresAt, retries |-> c.retries]
      BY <2>2 DEF PaidCallsInv, ClientInv, ClientTypeOK, CallShape
    <3>2. calls'[b] = [c EXCEPT !.step = "failed"] /\ HasNonce(b)
      BY <2>1, <2>2 DEF HasNonce
    <3>3. [c EXCEPT !.step = "failed"] =
            [step |-> "failed", listed |-> c.listed, quote |-> c.quote, nonce |-> c.nonce,
             expiresAt |-> c.expiresAt, retries |-> c.retries]
      <4> HIDE DEF c
      <4>1. QED
        BY <3>1
    <3>4. QED
      BY <2>2, <3>2, <3>3 DEF Advances, AfterPaying
  <2>3. QED
    BY <2>1, <2>2
<1>4. PaymentsOK'
  BY <1>1, <1>3, PaymentsStay DEF PaidCallsInv
<1>5. ASSUME NEW b \in Buyer PROVE CallFits(b)'
  <2>1. ASSUME HasNonce(b), calls[b].nonce \in lost' PROVE calls'[b].step = "failed"
    <3>1. CASE calls[b].nonce \in lost
      BY <1>3, <2>1, <3>1 DEF PaidCallsInv, CallFits
    <3>2. CASE calls[b].nonce \notin lost
      <4>1. PICK r \in requests : r.nonce = calls[b].nonce
        BY <1>1, <2>1, <3>2
      <4>2. b = r.presenter
        BY <2>1, <4>1, RequestOfCall DEF PaidCallsInv, ClientInv, NoncesOK
      <4>3. calls[b].step \in {"waiting", "failed"}
        BY <4>2, RequestOfCall DEF PaidCallsInv
      <4>4. QED
        BY <1>3, <4>3
    <3>3. QED
      BY <3>1, <3>2
  <2>2. /\ HasNonce(b)' <=> HasNonce(b)
        /\ calls'[b].step # "idle" => calls[b].step # "idle" /\ calls'[b].listed = calls[b].listed
        /\ HasNonce(b) => calls'[b].quote = calls[b].quote /\ calls'[b].nonce = calls[b].nonce
    BY <1>3 DEF HasNonce, Advances
  <2>3. QED
    BY <1>1, <2>1, <2>2 DEF PaidCallsInv, CallFits
<1>6. CacheOK' /\ \A r \in requests' : ProofFits(r)'
  BY <1>1 DEF CacheOK
<1>7. ASSUME NEW b \in Buyer, NEW terms, Lists(terms), Agrees(b, terms)
      PROVE  Agrees(b, terms)'
  <2> SUFFICES ASSUME HasNonce(b)', calls'[b].quote = terms[calls'[b].quote.id]
               PROVE  /\ \A e \in cache'[calls'[b].quote.id] : e.record = calls'[b].quote
                      /\ calls'[b].step = "refused"
                           => \A p \in paid' : p.payer = b => ~Collectable(p)'
    BY <1>1 DEF Agrees
  <2>1. /\ HasNonce(b) /\ calls'[b].quote = calls[b].quote
        /\ calls'[b].step = "refused" => calls[b].step = "refused"
    BY <1>3 DEF Advances, HasNonce
  <2>2. calls[b].quote.id \in ServiceId
    BY <2>1 DEF PaidCallsInv, CallFits
  <2>3. QED
    BY <1>1, <1>7, <2>1, <2>2 DEF Agrees, Collectable
<1>8. QED
  BY <1>2, <1>4, <1>5, <1>6, <1>7 DEF PaidCallsInv, AgreementLasts

\* The sweeper, the chain and the clock tell no call anything.
LEMMA RestHonours ==
  ASSUME PaidCallsInv, calls' = calls,
         \/ Sweep
         \/ TermsNext /\ UNCHANGED <<gatewayVars, paid>>
         \/ UNCHANGED vars
  PROVE  PaidCallsInv' /\ AgreementLasts
<1>1. /\ UNCHANGED <<cache, issued, requests, served, paid, lost>>
      /\ invoices' \cup file' \subseteq invoices \cup file
  BY DEF Sweep, Saved, NotSaved, vars, gatewayVars, storeVars
<1>2. IInv' /\ GInv'
  <2>1. CASE Sweep
    BY <2>1, SweepKeepsGInv, SameTerms DEF Sweep, PaidCallsInv
  <2>2. CASE TermsNext /\ UNCHANGED <<gatewayVars, paid>>
    BY <2>2, TermsMoveTheClock, ClockKeepsGInv, NextIInv DEF PaidCallsInv
  <2>3. CASE UNCHANGED vars
    BY <2>3, SameTerms, SameBooks DEF PaidCallsInv, vars, termsVars, gatewayVars, storeVars
  <2>4. QED
    BY <2>1, <2>2, <2>3
<1>3. now' \in Nat /\ now <= now'
  <2>1. now \in Nat /\ (now' = now \/ now' = now + 1)
    BY TermsMoveTheClock DEF Sweep, vars, termsVars, PaidCallsInv, IInv
  <2>2. QED
    BY <2>1
<1>4. ClientInv'
  BY <1>1, <1>3, NoCallMoves DEF PaidCallsInv
<1>5. QuietStep
  BY <1>1, LeavingFollows DEF QuietStep, LossIsTold, InvoicesFollow, IssuedStays
<1>6. QED
  BY <1>1, <1>2, <1>3, <1>4, <1>5, UntoldSteps

\* Every step keeps the ledger of paid calls, and the agreement of any call with
\* the terms the chain lists in it.
LEMMA NextHonours ==
  ASSUME PaidCallsInv, [ClientNext]_<<vars, calls>>
  PROVE  PaidCallsInv' /\ AgreementLasts
<1>1. ASSUME NEW buyer \in Buyer, NEW id \in ServiceId, Lookup(buyer, id)
      PROVE  PaidCallsInv' /\ AgreementLasts
  BY <1>1, LookupHonours
<1>2. ASSUME NEW buyer \in Buyer,
             \/ CallAsks(buyer) \/ CheckQuote(buyer) \/ CallPays(buyer)
             \/ CallPresents(buyer) \/ CallTimesOut(buyer)
      PROVE  PaidCallsInv' /\ AgreementLasts
  BY <1>2, CallAsksHonours, CheckQuoteHonours, CallPaysHonours, CallPresentsHonours,
     CallTimesOutHonours
<1>3. ASSUME NEW request \in requests, Answer(request)
      PROVE  PaidCallsInv' /\ AgreementLasts
  BY <1>3, AnswerHonours
<1>4. CASE CrashDisconnects
  BY <1>4, CrashHonours
<1>5. CASE /\ calls' = calls
           /\ \/ Sweep
              \/ TermsNext /\ UNCHANGED <<gatewayVars, paid>>
              \/ UNCHANGED vars
  BY <1>5, RestHonours
<1>6. QED
  BY <1>1, <1>2, <1>3, <1>4, <1>5 DEF ClientNext, CallNext

\* Nothing is cached, asked or paid at first.
LEMMA InitHonours ==
  ASSUME ClientInit
  PROVE  PaidCallsInv
<1>1. IInv /\ GInv /\ ClientInv
  BY InitIInv, InitGInv, ClientInitInv DEF ClientInit, Init
<1>2. /\ cache = [id \in ServiceId |-> {}] /\ paid = {} /\ requests = {}
      /\ \A b \in Buyer : calls[b].step = "idle"
  BY DEF ClientInit, Init, CallsInit, NoCall
<1>3. CacheOK
  BY <1>2 DEF CacheOK
<1>4. PaymentsOK /\ (\A b \in Buyer : CallFits(b)) /\ \A r \in requests : ProofFits(r)
  BY <1>2 DEF PaymentsOK, CallFits, HasNonce, Settled, AfterPaying
<1>5. QED
  BY <1>1, <1>3, <1>4 DEF PaidCallsInv

\* A call that agrees with the chain is refused rightly.
LEMMA AgreementHonours ==
  ASSUME PaidCallsInv, NEW terms, Lists(terms), NEW b \in Buyer, Agrees(b, terms)
  PROVE  At(b, "refused") => MayRefuse(b)
<1> SUFFICES ASSUME At(b, "refused"), calls[b].quote = Record(calls[b].quote.id)
             PROVE  ~Collectable(PaymentOf(b))
  BY DEF MayRefuse
<1>1. HasNonce(b) /\ calls[b].step = "refused"
  BY DEF At, HasNonce
<1>2. calls[b].quote = terms[calls[b].quote.id]
  BY <1>1 DEF PaidCallsInv, CallFits, Lists
<1>3. PICK p \in paid : p.payer = b
  BY <1>1 DEF PaidCallsInv, PaymentsOK, Settled, AfterPaying
<1>4. PaymentOf(b) = p /\ ~Collectable(p)
  BY <1>1, <1>2, <1>3, OnePayment DEF PaidCallsInv, Agrees
<1>5. QED
  BY <1>4

\* Take any set of buyers, at any moment at which none of them has begun a call,
\* whatever the gateway has cached by then and whatever other calls are under
\* way.  If the chain lists the same terms from then on, none of these buyers is
\* refused a payment that is collectable and at those terms (fetchPaid against
\* app.ts, the service cache, the sweep, the crashes).
THEOREM PaidCallsAreHonoured ==
  ASSUME NEW beginners \in SUBSET Buyer, NEW terms
  PROVE  ClientSpec =>
           []((\A b \in beginners : At(b, "idle")) /\ []Lists(terms)
                => [](\A b \in beginners : At(b, "refused") => MayRefuse(b)))
<1> DEFINE Beginning == \A b \in beginners : At(b, "idle")
           Agreeing == \A b \in beginners : Agrees(b, terms)
           Honoured == \A b \in beginners : At(b, "refused") => MayRefuse(b)
<1>1. ClientInit => PaidCallsInv
  BY InitHonours
<1>2. PaidCallsInv /\ [ClientNext]_<<vars, calls>> => PaidCallsInv'
  BY NextHonours
<1>3. Beginning => Agreeing
  BY DEF At, Agrees, HasNonce
<1>4. PaidCallsInv /\ Lists(terms) /\ Agreeing /\ [ClientNext]_<<vars, calls>> => Agreeing'
  BY NextHonours DEF AgreementLasts
<1>5. PaidCallsInv /\ Lists(terms) /\ Agreeing => Honoured
  BY AgreementHonours
<1> HIDE DEF Beginning, Agreeing, Honoured
<1>6. ClientSpec => [](Beginning /\ []Lists(terms) => []Honoured)
  BY <1>1, <1>2, <1>3, <1>4, <1>5, PTL DEF ClientSpec
<1>7. QED
  BY <1>6 DEF Beginning, Honoured

\* Once the terms stand still before any call has begun, the property the run
\* checks holds for good.
THEOREM PaidCallsAreNotRefused ==
  ASSUME NEW terms
  PROVE  ClientSpec =>
           []((\A b \in Buyer : At(b, "idle")) /\ []Lists(terms) => []PaidCallIsNotRefused)
<1> DEFINE Beginning == \A b \in Buyer : At(b, "idle")
           Agreeing == \A b \in Buyer : Agrees(b, terms)
<1>1. ClientInit => PaidCallsInv
  BY InitHonours
<1>2. PaidCallsInv /\ [ClientNext]_<<vars, calls>> => PaidCallsInv'
  BY NextHonours
<1>3. Beginning => Agreeing
  BY DEF At, Agrees, HasNonce
<1>4. PaidCallsInv /\ Lists(terms) /\ Agreeing /\ [ClientNext]_<<vars, calls>> => Agreeing'
  BY NextHonours DEF AgreementLasts
<1>5. PaidCallsInv /\ Lists(terms) /\ Agreeing => PaidCallIsNotRefused
  BY AgreementHonours DEF PaidCallIsNotRefused
<1> HIDE DEF Beginning, Agreeing
<1>6. ClientSpec => [](Beginning /\ []Lists(terms) => []PaidCallIsNotRefused)
  BY <1>1, <1>2, <1>3, <1>4, <1>5, PTL DEF ClientSpec
<1>7. QED
  BY <1>6 DEF Beginning

=============================================================================
