-------------------------- MODULE FreshnessProofs ---------------------------
(***************************************************************************)
(* Proofs about what was read a while ago: SharedRead, for any callers,    *)
(* freshness and bounds, and Quotes, for any lifetimes that meet the       *)
(* inequality of loadConfig.  The slot is the only pass a caller can join, *)
(* so each property of SharedRead follows from what it may point at.       *)
(***************************************************************************)
EXTENDS SharedRead, Quotes, ServiceTermsProofs, FiniteSetTheorems


Pass == [age : Nat, result : {"running", "read", "failed"}, after : Nat,
         waiting : Seq(Caller)]

ReadTypeOK ==
  /\ memo \in Memo
  /\ passes \in Seq(Pass)
  /\ slot \in 0 .. Len(passes)
  /\ calledAt \in [Caller -> Nat]
  /\ writes \in Nat
  /\ reported \subseteq DOMAIN passes

\* The pass callers join saw every own write; one whose failure is known is no
\* such pass; and a feed that is being refreshed is one.
SlotOK ==
  /\ slot # 0 => passes[slot].after = writes
  /\ slot \notin reported
  /\ memo = "feed" => \A p \in DOMAIN passes : passes[p].result = "running" => p = slot
  /\ memo # "catalog" => writes = 0

WaitersOK == \A p \in DOMAIN passes : \A i \in DOMAIN passes[p].waiting :
               passes[p].after >= calledAt[passes[p].waiting[i]]

ReadInv == ReadTypeOK /\ SlotOK /\ WaitersOK

-----------------------------------------------------------------------------

\* The invariant gives the three properties.
LEMMA ReadInvImplies ==
  ReadInv => OwnWriteIsRead /\ FailureIsNotKept /\ OneRefreshAtATime
<1> SUFFICES ASSUME ReadInv
             PROVE  OwnWriteIsRead /\ FailureIsNotKept /\ OneRefreshAtATime
  OBVIOUS
<1>1. OwnWriteIsRead /\ FailureIsNotKept
  BY DEF ReadInv, WaitersOK, SlotOK, OwnWriteIsRead, FailureIsNotKept
<1>2. ASSUME memo = "feed"
      PROVE  Cardinality({p \in DOMAIN passes : passes[p].result = "running"}) <= 1
  <2> DEFINE Running == {p \in DOMAIN passes : passes[p].result = "running"}
  <2>1. Running = {} \/ Running = {slot}
    BY <1>2 DEF ReadInv, SlotOK
  <2> HIDE DEF Running
  <2>2. Cardinality(Running) \in {0, 1}
    <3>1. CASE Running = {}
      BY <3>1, FS_EmptySet
    <3>2. CASE Running = {slot}
      BY <3>2, FS_Singleton
    <3>3. QED
      BY <2>1, <3>1, <3>2
  <2>3. Cardinality(Running) <= 1
    BY <2>2
  <2>4. QED
    BY <2>3 DEF Running
<1>3. QED
  BY <1>1, <1>2 DEF OneRefreshAtATime

\* Nothing is kept at first.
LEMMA InitReadInv == ReadInit => ReadInv
BY DEF ReadInit, ReadInv, ReadTypeOK, SlotOK, WaitersOK, Pass

\* The passes and those who wait for them have their types.
LEMMA PassTyped ==
  ASSUME ReadTypeOK, NEW p \in DOMAIN passes
  PROVE  /\ passes[p] \in Pass
         /\ passes[p].waiting \in Seq(Caller)
         /\ \A i \in DOMAIN passes[p].waiting : passes[p].waiting[i] \in Caller
<1>1. passes[p] \in Pass
  BY DEF ReadTypeOK
<1>2. passes[p].waiting \in Seq(Caller)
  BY <1>1 DEF Pass
<1>3. QED
  BY <1>1, <1>2

\* A pass that saw every own write has seen those of a caller that joins it.
LEMMA JoinKeepsReadInv ==
  ASSUME ReadInv, NEW k \in Caller, Join(k)
  PROVE  ReadInv'
<1> DEFINE waiting == Append(passes[slot].waiting, k)
           joined == [passes[slot] EXCEPT !.waiting = waiting]
<1>0. slot # 0 /\ passes \in Seq(Pass) /\ slot \in 0 .. Len(passes)
  BY DEF ReadInv, ReadTypeOK, Join, Kept
<1>1. /\ slot \in DOMAIN passes /\ passes[slot] \in Pass /\ passes[slot].after = writes
      /\ UNCHANGED <<memo, slot, writes, reported>>
      /\ calledAt' = [calledAt EXCEPT ![k] = writes]
      /\ passes' = [passes EXCEPT ![slot] = joined]
  BY <1>0 DEF ReadInv, SlotOK, Join
<1>2. waiting \in Seq(Caller)
  BY <1>1, PassTyped DEF ReadInv
<1> HIDE DEF waiting
<1>3. joined \in Pass /\ joined.after = writes /\ joined.waiting = waiting
      /\ joined.result = passes[slot].result
  BY <1>1, <1>2 DEF Pass
<1> HIDE DEF joined
<1>4. ReadTypeOK'
  BY <1>1, <1>3 DEF ReadInv, ReadTypeOK
<1>5. SlotOK'
  BY <1>1, <1>3 DEF ReadInv, ReadTypeOK, SlotOK
<1>6. WaitersOK'
  <2>1. ASSUME NEW p \in DOMAIN passes', NEW i \in DOMAIN passes'[p].waiting
        PROVE  passes'[p].after >= calledAt'[passes'[p].waiting[i]]
    <3>1. CASE p # slot
      <4>1. p \in DOMAIN passes /\ passes'[p] = passes[p]
        BY <1>1, <2>1, <3>1
      <4>2. passes[p].waiting[i] # k
        BY <2>1, <4>1 DEF Join, Waits
      <4>3. passes[p].waiting[i] \in Caller
        BY <2>1, <4>1, PassTyped DEF ReadInv
      <4>4. QED
        BY <1>1, <2>1, <4>1, <4>2, <4>3 DEF ReadInv, ReadTypeOK, WaitersOK
    <3>2. CASE p = slot
      <4>1. passes'[p] = joined
        BY <1>1, <3>2
      <4>2. passes[slot].waiting \in Seq(Caller) /\ writes \in Nat
        BY <1>1, PassTyped DEF ReadInv, ReadTypeOK
      <4>3. \/ passes'[p].waiting[i] = k
            \/ i \in DOMAIN passes[slot].waiting
               /\ passes'[p].waiting[i] = passes[slot].waiting[i]
        BY <1>3, <2>1, <4>1, <4>2 DEF waiting
      <4>4. \A j \in DOMAIN passes[slot].waiting :
              /\ passes[slot].waiting[j] # k /\ passes[slot].waiting[j] \in Caller
              /\ writes >= calledAt[passes[slot].waiting[j]]
        BY <1>1, PassTyped DEF Join, Waits, ReadInv, WaitersOK
      <4>5. QED
        BY <1>1, <1>3, <4>1, <4>2, <4>3, <4>4 DEF ReadInv, ReadTypeOK
    <3>3. QED
      BY <3>1, <3>2
  <2>2. QED
    BY <2>1 DEF WaitersOK
<1>7. QED
  BY <1>4, <1>5, <1>6 DEF ReadInv

\* A new pass begins after every own write there is.
LEMMA StartPassKeepsReadInv ==
  ASSUME ReadInv, NEW k \in Caller, StartPass(k)
  PROVE  ReadInv'
<1> DEFINE new == [age |-> 0, result |-> "running", after |-> writes, waiting |-> <<k>>]
           last == Len(passes) + 1
<1>1. /\ UNCHANGED <<memo, writes, reported>> /\ slot' = last
      /\ calledAt' = [calledAt EXCEPT ![k] = writes]
      /\ passes' = Append(passes, new)
  BY DEF StartPass
<1>2. new \in Pass /\ new.after = writes /\ new.waiting = <<k>> /\ writes \in Nat
  BY DEF ReadInv, ReadTypeOK, Pass
<1> HIDE DEF new
<1>3. /\ passes' \in Seq(Pass) /\ Len(passes') = last /\ passes'[last] = new
      /\ DOMAIN passes' = DOMAIN passes \cup {last} /\ last \notin DOMAIN passes
      /\ \A p \in DOMAIN passes : passes'[p] = passes[p]
      /\ last \in Nat /\ last # 0
  BY <1>1, <1>2 DEF ReadInv, ReadTypeOK
<1> HIDE DEF last
<1>4. ReadTypeOK'
  BY <1>1, <1>3 DEF ReadInv, ReadTypeOK
<1>5. memo = "feed" => \A p \in DOMAIN passes : passes[p].result # "running"
  BY DEF StartPass, Kept, FeedFresh, ReadInv, ReadTypeOK, SlotOK
<1>6. SlotOK'
  BY <1>1, <1>2, <1>3, <1>5 DEF ReadInv, ReadTypeOK, SlotOK
<1>7. WaitersOK'
  <2>1. ASSUME NEW p \in DOMAIN passes, NEW i \in DOMAIN passes[p].waiting
        PROVE  passes[p].after >= calledAt'[passes[p].waiting[i]]
    <3>1. passes[p].waiting[i] # k /\ passes[p].waiting[i] \in Caller
      BY <2>1, PassTyped DEF StartPass, Waits, ReadInv
    <3>2. QED
      BY <1>1, <2>1, <3>1 DEF ReadInv, ReadTypeOK, WaitersOK
  <2>2. \A i \in DOMAIN new.waiting : new.after >= calledAt'[new.waiting[i]]
    BY <1>1, <1>2 DEF ReadInv, ReadTypeOK
  <2>3. QED
    BY <1>3, <2>1, <2>2 DEF WaitersOK
<1>8. QED
  BY <1>4, <1>6, <1>7 DEF ReadInv

\* Callers keep the pass they wait for; passes end, age and answer.
LEMMA WaitersStay ==
  ASSUME ReadInv, UNCHANGED calledAt, DOMAIN passes' = DOMAIN passes,
         \A p \in DOMAIN passes :
           /\ passes'[p].after = passes[p].after
           /\ \A i \in DOMAIN passes'[p].waiting : \E j \in DOMAIN passes[p].waiting :
                passes'[p].waiting[i] = passes[p].waiting[j]
  PROVE  WaitersOK'
<1>1. ASSUME NEW p \in DOMAIN passes, NEW i \in DOMAIN passes'[p].waiting
      PROVE  passes'[p].after >= calledAt[passes'[p].waiting[i]]
  <2>1. PICK j \in DOMAIN passes[p].waiting :
          passes'[p].waiting[i] = passes[p].waiting[j]
    BY <1>1
  <2>2. passes[p].after >= calledAt[passes[p].waiting[j]]
    BY DEF ReadInv, WaitersOK
  <2>3. QED
    BY <2>1, <2>2
<1>2. QED
  BY <1>1 DEF WaitersOK

\* A pass ends with what it read, or without.
LEMMA EndPassKeepsReadInv ==
  ASSUME ReadInv, NEW p \in DOMAIN passes, NEW result \in {"read", "failed"},
         NEW age \in Nat, EndPass(p, result, age)
  PROVE  ReadInv'
<1> DEFINE ended == [passes[p] EXCEPT !.result = result, !.age = age]
<1>1. UNCHANGED <<memo, slot, calledAt, writes, reported>>
  BY DEF EndPass
<1>2. passes' = [passes EXCEPT ![p] = ended]
  BY PassTyped DEF EndPass, ReadInv, Pass
<1>3. /\ ended \in Pass /\ ended.after = passes[p].after
      /\ ended.waiting = passes[p].waiting /\ ended.result = result
  BY PassTyped DEF ReadInv, Pass
<1> HIDE DEF ended
<1>4. ReadTypeOK'
  BY <1>1, <1>2, <1>3 DEF ReadInv, ReadTypeOK
<1>5. SlotOK'
  BY <1>1, <1>2, <1>3 DEF ReadInv, ReadTypeOK, SlotOK
<1>6. WaitersOK'
  <2>1. DOMAIN passes' = DOMAIN passes
    BY <1>2
  <2>2. ASSUME NEW q \in DOMAIN passes
        PROVE  /\ passes'[q].after = passes[q].after
               /\ passes'[q].waiting = passes[q].waiting
    BY <1>2, <1>3, <2>2 DEF ReadInv, ReadTypeOK
  <2>3. QED
    BY <1>1, <2>1, <2>2, WaitersStay
<1>7. QED
  BY <1>4, <1>5, <1>6 DEF ReadInv

\* The first caller of an ended pass is answered, and forgets a failed one.
LEMMA ResumeKeepsReadInv ==
  ASSUME ReadInv, NEW p \in DOMAIN passes, Resume(p)
  PROVE  ReadInv'
<1> DEFINE waiting == Tail(passes[p].waiting)
           resumed == [passes[p] EXCEPT !.waiting = waiting]
<1>1. /\ UNCHANGED <<memo, calledAt, writes>> /\ passes[p].result # "running"
      /\ passes' = [passes EXCEPT ![p] = resumed]
  BY DEF Resume
<1>2. /\ waiting \in Seq(Caller)
      /\ \A i \in DOMAIN waiting : \E j \in DOMAIN passes[p].waiting :
           waiting[i] = passes[p].waiting[j]
  <2>1. passes[p].waiting \in Seq(Caller) /\ passes[p].waiting # <<>>
    BY PassTyped DEF ReadInv, Resume
  <2>2. waiting \in Seq(Caller)
    BY <2>1
  <2>3. ASSUME NEW i \in DOMAIN waiting
        PROVE  \E j \in DOMAIN passes[p].waiting : waiting[i] = passes[p].waiting[j]
    <3>1. i + 1 \in DOMAIN passes[p].waiting /\ waiting[i] = passes[p].waiting[i + 1]
      BY <2>1, <2>3
    <3>2. QED
      BY <3>1
  <2>4. QED
    BY <2>2, <2>3
<1> HIDE DEF waiting
<1>3. /\ resumed \in Pass /\ resumed.after = passes[p].after
      /\ resumed.waiting = waiting /\ resumed.result = passes[p].result
  BY <1>2, PassTyped DEF ReadInv, Pass
<1> HIDE DEF resumed
<1>4. /\ reported' \subseteq reported \cup {p}
      /\ \/ slot' = slot /\ (slot = p => reported' = reported)
         \/ slot' = 0 /\ (memo = "identity" \/ slot = p)
  BY DEF Resume, Forgets
<1>5. slot' \notin reported'
  BY <1>4 DEF ReadInv, ReadTypeOK, SlotOK
<1>6. ReadTypeOK'
  BY <1>1, <1>3, <1>4 DEF ReadInv, ReadTypeOK
<1>7. ASSUME NEW q \in DOMAIN passes
      PROVE  /\ passes'[q].after = passes[q].after
             /\ passes'[q].result = passes[q].result
             /\ \A i \in DOMAIN passes'[q].waiting : \E j \in DOMAIN passes[q].waiting :
                  passes'[q].waiting[i] = passes[q].waiting[j]
  <2>1. CASE q = p
    BY <1>1, <1>2, <1>3, <2>1 DEF ReadInv, ReadTypeOK
  <2>2. CASE q # p
    BY <1>1, <1>7, <2>2 DEF ReadInv, ReadTypeOK
  <2>3. QED
    BY <2>1, <2>2
<1>8. DOMAIN passes' = DOMAIN passes
  BY <1>1
<1>9. SlotOK'
  <2>1. slot' # 0 => passes'[slot'].after = writes'
    BY <1>1, <1>4, <1>7 DEF ReadInv, ReadTypeOK, SlotOK
  <2>2. memo = "feed" => \A q \in DOMAIN passes' : passes'[q].result = "running" => q = slot'
    BY <1>1, <1>4, <1>7, <1>8 DEF ReadInv, SlotOK
  <2>3. QED
    BY <1>1, <1>5, <2>1, <2>2 DEF ReadInv, SlotOK
<1>10. WaitersOK'
  BY <1>1, <1>7, <1>8, WaitersStay
<1>11. QED
  BY <1>6, <1>9, <1>10 DEF ReadInv

\* An own write leaves nothing to join.
LEMMA OwnWriteKeepsReadInv ==
  ASSUME ReadInv, OwnWrite
  PROVE  ReadInv'
<1>1. /\ memo = "catalog" /\ writes' = writes + 1 /\ slot' = 0
      /\ UNCHANGED <<memo, passes, calledAt, reported>>
  BY DEF OwnWrite
<1>2. 0 \notin DOMAIN passes
  BY DEF ReadInv, ReadTypeOK
<1>3. ReadTypeOK' /\ SlotOK'
  BY <1>1, <1>2 DEF ReadInv, ReadTypeOK, SlotOK
<1>4. WaitersOK'
  BY <1>1 DEF ReadInv, WaitersOK
<1>5. QED
  BY <1>3, <1>4 DEF ReadInv

\* Age changes nothing but freshness.
LEMMA PassesAgeKeepsReadInv ==
  ASSUME ReadInv, PassesAge
  PROVE  ReadInv'
<1> DEFINE Aged(p) == [passes[p] EXCEPT !.age = IF @ < ReadTtl THEN @ + 1 ELSE @]
<1>1. /\ UNCHANGED <<memo, slot, calledAt, writes, reported>>
      /\ passes' = [p \in DOMAIN passes |-> Aged(p)]
  BY DEF PassesAge
<1>2. ASSUME NEW p \in DOMAIN passes
      PROVE  /\ Aged(p) \in Pass /\ Aged(p).after = passes[p].after
             /\ Aged(p).result = passes[p].result /\ Aged(p).waiting = passes[p].waiting
  BY <1>2, PassTyped, SharedReadAssumption DEF ReadInv, Pass
<1> HIDE DEF Aged
<1>3. /\ passes' \in Seq(Pass) /\ Len(passes') = Len(passes)
      /\ DOMAIN passes' = DOMAIN passes
  <2>1. Len(passes) \in Nat /\ DOMAIN passes = 1 .. Len(passes)
    BY DEF ReadInv, ReadTypeOK
  <2>2. passes' = [p \in 1 .. Len(passes) |-> Aged(p)]
    BY <1>1, <2>1
  <2>3. \A p \in 1 .. Len(passes) : Aged(p) \in Pass
    BY <1>2, <2>1
  <2> HIDE DEF Pass
  <2>4. QED
    BY <2>1, <2>2, <2>3
<1>4. \A p \in DOMAIN passes : passes'[p] = Aged(p)
  BY <1>1
<1>5. ReadTypeOK'
  BY <1>1, <1>3 DEF ReadInv, ReadTypeOK
<1>6. SlotOK'
  <2>1. slot # 0 => passes'[slot].after = writes
    <3>1. slot # 0 => slot \in DOMAIN passes
      BY DEF ReadInv, ReadTypeOK
    <3>2. QED
      BY <1>2, <1>4, <3>1 DEF ReadInv, SlotOK
  <2>2. \A p \in DOMAIN passes : passes'[p].result = passes[p].result
    BY <1>2, <1>4
  <2>3. QED
    BY <1>1, <1>3, <2>1, <2>2 DEF ReadInv, SlotOK
<1>7. WaitersOK'
  BY <1>1, <1>2, <1>3, <1>4, WaitersStay
<1>8. QED
  BY <1>5, <1>6, <1>7 DEF ReadInv

\* No step breaks the invariant.
LEMMA NextReadInv == ReadInv /\ [ReadNext]_readVars => ReadInv'
<1> SUFFICES ASSUME ReadInv, [ReadNext]_readVars PROVE ReadInv'
  OBVIOUS
<1>1. ASSUME NEW k \in Caller, Join(k) \/ StartPass(k) PROVE ReadInv'
  BY <1>1, JoinKeepsReadInv, StartPassKeepsReadInv
<1>2. ASSUME NEW p \in DOMAIN passes,
             ReadServices(p) \/ CheckChainIdentity(p) \/ Refresh(p)
      PROVE  ReadInv'
  <2>1. passes[p].age \in Nat
    BY PassTyped DEF ReadInv, Pass
  <2>2. QED
    BY <1>2, <2>1, EndPassKeepsReadInv DEF ReadServices, CheckChainIdentity, Refresh
<1>3. ASSUME NEW p \in DOMAIN passes, Resume(p) PROVE ReadInv'
  BY <1>3, ResumeKeepsReadInv
<1>4. CASE OwnWrite
  BY <1>4, OwnWriteKeepsReadInv
<1>5. CASE PassesAge
  BY <1>5, PassesAgeKeepsReadInv
<1>6. CASE UNCHANGED readVars
  BY <1>6 DEF readVars, ReadInv, ReadTypeOK, SlotOK, WaitersOK
<1>7. QED
  BY <1>1, <1>2, <1>3, <1>4, <1>5, <1>6 DEF ReadNext

-----------------------------------------------------------------------------
(***************************************************************************)
(* The theorems.                                                           *)
(***************************************************************************)

\* The invariant holds throughout.
THEOREM ReadInvariant == ReadSpec => []ReadInv
<1>1. ReadInit => ReadInv
  BY InitReadInv
<1>2. ReadInv /\ [ReadNext]_readVars => ReadInv'
  BY NextReadInv
<1>3. QED
  BY <1>1, <1>2, PTL DEF ReadSpec

\* However many callers overlap, one that asks after an own write gets a pass
\* begun after it (listServices of Live0gClient).
THEOREM OwnWritesAreSeen == ReadSpec => []OwnWriteIsRead
BY ReadInvariant, ReadInvImplies, PTL

\* A failure somebody has been told of is joined by nobody (the catches of
\* listServices and assertChainIdentity).
THEOREM FailuresAreForgotten == ReadSpec => []FailureIsNotKept
BY ReadInvariant, ReadInvImplies, PTL

\* The oracle has at most one refresh under way (FeedProvider.feed).
THEOREM RefreshesDoNotOverlap == ReadSpec => []OneRefreshAtATime
BY ReadInvariant, ReadInvImplies, PTL

-----------------------------------------------------------------------------
(***************************************************************************)
(* The calm quote.  What was read with no change queued is live until a    *)
(* change queued since matures, which takes a whole delay from the read.   *)
(* A read, an entry and a quote each carry a moment no later than that.    *)
(***************************************************************************)

\* The change in this queue slot, if it is still to come, comes after `until`.
ComesAfter(effectiveAt, until) ==
  effectiveAt = 0 \/ Matured(effectiveAt) \/ effectiveAt >= until

\* Until then the offer is the live terms of the service, if it was calm.
OfferStands(id, offer, until) ==
  offer.calm /\ now < until =>
    /\ offer.payTo = EffectivePaymentTarget(services[id])
    /\ offer.amount = EffectiveNativePrice(services[id])
    /\ ComesAfter(services[id].paymentTargetEffectiveAt, until)
    /\ ComesAfter(services[id].acceptsEffectiveAt, until)

ReadOK(read) ==
  /\ read.id \in ServiceId /\ Registered(read.id)
  /\ read.readAt \in Nat /\ read.readAt <= now /\ now <= read.readAt + FetchLatency
  /\ OfferStands(read.id, read.offer, read.readAt + TermsDelay)

EntryOK(id, entry) ==
  /\ Registered(id)
  /\ entry.fetchedAt \in Nat /\ entry.fetchedAt <= now
  /\ OfferStands(id, entry.offer, entry.fetchedAt + TermsDelay - FetchLatency)

QuoteOK(q) ==
  /\ q.id \in ServiceId /\ Registered(q.id)
  /\ q.expiresAt \in Nat /\ q.expiresAt <= now + InvoiceTtl
  /\ OfferStands(q.id, q.offer, q.expiresAt + 1)

QuotesInv ==
  /\ IInv
  /\ \A read \in reads : ReadOK(read)
  /\ cache = [id \in ServiceId |-> cache[id]]
  /\ \A id \in ServiceId : \A entry \in cache[id] : EntryOK(id, entry)
  /\ \A q \in quote : QuoteOK(q)

\* The numbers of loadConfig, with every latency a natural number.
LEMMA Numbers ==
  /\ CacheTtl \in Nat \ {0} /\ InvoiceTtl \in Nat \ {0} /\ FetchLatency \in Nat
  /\ TermsDelay \in Nat \ {0}
  /\ CacheTtl + FetchLatency + InvoiceTtl <= TermsDelay
BY StalenessAssumption, DelayAssumption

\* What stands until a moment stands until any earlier one.
LEMMA StandsEarlier ==
  ASSUME IInv, NEW id \in ServiceId, NEW offer, NEW until \in Int, NEW earlier \in Int,
         earlier <= until, OfferStands(id, offer, until)
  PROVE  OfferStands(id, offer, earlier)
<1>1. /\ now \in Nat /\ services[id].paymentTargetEffectiveAt \in Nat
      /\ services[id].acceptsEffectiveAt \in Nat
  BY DEF IInv, Service
<1>2. QED
  BY <1>1 DEF OfferStands, ComesAfter

\* No transaction strikes a service off the registry.
LEMMA TermsStayRegistered ==
  ASSUME IInv, TermsNext, NEW id \in ServiceId, Registered(id)
  PROVE  Registered(id)'
<1>1. servicesCount \in Nat /\ id <= servicesCount /\ IInv'
  BY NextIInv DEF IInv
<1>2. servicesCount' >= servicesCount
  <2>1. CASE \E sender, target, witness \in Account, url \in Url, price \in Price :
               RegisterService(sender, url, price, target, witness)
    BY <1>1, <2>1 DEF RegisterService
  <2>2. CASE \E sender \in Account, k \in ServiceId :
               OwnerTransaction(sender, k) \/ AcceptOwnership(sender, k)
    <3>1. servicesCount' = servicesCount
      BY <2>2 DEF OwnerTransaction, OwnerSets, SetActive, SetGatewayBaseUrl, SetAttestor,
                  SetPaymentTarget, SetAccepts, TransferOwnership, AcceptOwnership
    <3>2. QED
      BY <1>1, <3>1
  <2>3. CASE Tick
    BY <1>1, <2>3 DEF Tick
  <2>4. QED
    BY <2>1, <2>2, <2>3 DEF TermsNext
<1>3. QED
  BY <1>1, <1>2 DEF IInv, ServiceId

\* A transaction leaves a calm offer standing, provided it stands no longer than
\* a delay from now: what is queued comes later.
LEMMA TransactionsLeaveOffers ==
  ASSUME IInv, TermsNext, now' = now, NEW id \in ServiceId, Registered(id),
         NEW offer, NEW until \in Int, until <= now + TermsDelay,
         OfferStands(id, offer, until)
  PROVE  Registered(id)' /\ OfferStands(id, offer, until)'
<1> DEFINE s == services[id]
           t == Terms(s)
           payee == s.paymentTargetEffectiveAt
           price == s.acceptsEffectiveAt
<1>1. t' = t
  BY TermsStep
<1>2. /\ t.payee = EffectivePaymentTarget(s) /\ t'.payee = EffectivePaymentTarget(s)'
      /\ t.price = EffectiveNativePrice(s) /\ t'.price = EffectiveNativePrice(s)'
  BY DEF Terms
<1>3. QueuedLate(payee, payee') /\ QueuedLate(price, price')
  BY TermsAreQueuedLate
<1>4. now \in Nat /\ payee \in Nat /\ price \in Nat
  BY DEF IInv, Service
<1>5. Registered(id)'
  BY TermsStayRegistered
<1> HIDE DEF t, payee, price
<1>6. /\ ComesAfter(payee, until) => ComesAfter(payee, until)'
      /\ ComesAfter(price, until) => ComesAfter(price, until)'
  BY <1>3, <1>4, Numbers DEF ComesAfter, QueuedLate, Matured
<1>7. QED
  BY <1>1, <1>2, <1>5, <1>6 DEF OfferStands, payee, price

\* So does time.
LEMMA TimeLeavesOffers ==
  ASSUME IInv, Tick, NEW id \in ServiceId, NEW offer, NEW until \in Int,
         OfferStands(id, offer, until)
  PROVE  OfferStands(id, offer, until)'
<1> DEFINE s == services[id]
<1>1. /\ now \in Nat /\ now' = now + 1 /\ s' = s
      /\ s.paymentTargetEffectiveAt \in Nat /\ s.acceptsEffectiveAt \in Nat
  BY DEF Tick, IInv, Service
<1>2. QED
  BY <1>1 DEF OfferStands, ComesAfter, EffectivePaymentTarget, EffectiveNativePrice, Matured

\* A fresh answer is the live terms.
LEMMA OfferIsLive ==
  ASSUME IInv, NEW id \in ServiceId, NEW until \in Int
  PROVE  OfferStands(id, Offer(id), until)
<1>1. /\ GetService(id).paymentTarget = EffectivePaymentTarget(services[id])
      /\ GetService(id).accepts = EffectiveNativePrice(services[id])
  BY FoldedRecord
<1>2. QED
  BY <1>1 DEF Offer, OfferStands, Calm, ComesAfter


\* A transaction keeps what is known of reads, entries and quotes.
LEMMA TransactionsKeepQuotesInv ==
  ASSUME QuotesInv, TermsNext, now' = now, UNCHANGED <<reads, cache, quote>>
  PROVE  QuotesInv'
<1>1. IInv /\ IInv' /\ now \in Nat
  BY NextIInv DEF QuotesInv, IInv
<1>2. ASSUME NEW read \in reads PROVE ReadOK(read)'
  <2>1. ReadOK(read)
    BY DEF QuotesInv
  <2>2. /\ read.readAt + TermsDelay \in Int
        /\ read.readAt + TermsDelay <= now + TermsDelay
    BY <1>1, <2>1, Numbers DEF ReadOK
  <2>3. /\ Registered(read.id)'
        /\ OfferStands(read.id, read.offer, read.readAt + TermsDelay)'
    BY <1>1, <2>1, <2>2, TransactionsLeaveOffers DEF ReadOK
  <2>4. QED
    BY <2>1, <2>3 DEF ReadOK
<1>3. ASSUME NEW id \in ServiceId, NEW entry \in cache[id] PROVE EntryOK(id, entry)'
  <2>1. EntryOK(id, entry)
    BY DEF QuotesInv
  <2>2. /\ entry.fetchedAt + TermsDelay - FetchLatency \in Int
        /\ entry.fetchedAt + TermsDelay - FetchLatency <= now + TermsDelay
    BY <1>1, <2>1, Numbers DEF EntryOK
  <2>3. /\ Registered(id)'
        /\ OfferStands(id, entry.offer, entry.fetchedAt + TermsDelay - FetchLatency)'
    BY <1>1, <2>1, <2>2, TransactionsLeaveOffers DEF EntryOK
  <2>4. QED
    BY <2>1, <2>3 DEF EntryOK
<1>4. ASSUME NEW q \in quote PROVE QuoteOK(q)'
  <2>1. QuoteOK(q)
    BY DEF QuotesInv
  <2>2. q.expiresAt + 1 \in Int /\ q.expiresAt + 1 <= now + TermsDelay
    BY <1>1, <2>1, Numbers DEF QuoteOK
  <2>3. Registered(q.id)' /\ OfferStands(q.id, q.offer, q.expiresAt + 1)'
    BY <1>1, <2>1, <2>2, TransactionsLeaveOffers DEF QuoteOK
  <2>4. QED
    BY <2>1, <2>3 DEF QuoteOK
<1>5. QED
  BY <1>1, <1>2, <1>3, <1>4 DEF QuotesInv

\* So does a tick, which waits for the reads that would be too late.
LEMMA TicksKeepQuotesInv ==
  ASSUME QuotesInv, QuotesTick
  PROVE  QuotesInv'
<1>1. /\ IInv /\ IInv' /\ now \in Nat /\ now' = now + 1 /\ Tick
      /\ UNCHANGED <<services, reads, cache, quote>>
      /\ \A id \in ServiceId : Registered(id)' <=> Registered(id)
  BY NextIInv DEF QuotesInv, IInv, QuotesTick, Tick, TermsNext, Registered
<1>2. ASSUME NEW read \in reads PROVE ReadOK(read)'
  <2>1. ReadOK(read) /\ now < read.readAt + FetchLatency
    BY DEF QuotesInv, QuotesTick
  <2>2. read.readAt + TermsDelay \in Int
    BY <2>1, Numbers DEF ReadOK
  <2>3. OfferStands(read.id, read.offer, read.readAt + TermsDelay)'
    BY <1>1, <2>1, <2>2, TimeLeavesOffers DEF ReadOK
  <2>4. QED
    BY <1>1, <2>1, <2>3, Numbers DEF ReadOK
<1>3. ASSUME NEW id \in ServiceId, NEW entry \in cache[id] PROVE EntryOK(id, entry)'
  <2>1. EntryOK(id, entry)
    BY DEF QuotesInv
  <2>2. entry.fetchedAt + TermsDelay - FetchLatency \in Int
    BY <2>1, Numbers DEF EntryOK
  <2>3. OfferStands(id, entry.offer, entry.fetchedAt + TermsDelay - FetchLatency)'
    BY <1>1, <2>1, <2>2, TimeLeavesOffers DEF EntryOK
  <2>4. QED
    BY <1>1, <2>1, <2>3 DEF EntryOK
<1>4. ASSUME NEW q \in quote PROVE QuoteOK(q)'
  <2>1. QuoteOK(q)
    BY DEF QuotesInv
  <2>2. OfferStands(q.id, q.offer, q.expiresAt + 1)'
    BY <1>1, <2>1, TimeLeavesOffers DEF QuoteOK
  <2>3. QED
    BY <1>1, <2>1, <2>2, Numbers DEF QuoteOK
<1>5. QED
  BY <1>1, <1>2, <1>3, <1>4 DEF QuotesInv

\* The gateway's own steps hand an offer on: from the chain to a read, to the
\* cache no more than the latency later, to a quote while the entry is fresh.
LEMMA GatewayKeepsQuotesInv ==
  ASSUME QuotesInv, GatewayNext
  PROVE  QuotesInv'
<1>1. IInv /\ now \in Nat /\ UNCHANGED termsVars
  BY DEF QuotesInv, IInv, GatewayNext, FetchService, IssueQuote, FillCache
<1>2. IInv'
  BY <1>1, NextIInv
<1>3. ASSUME NEW id, NEW offer, NEW until
      PROVE  (Registered(id)' <=> Registered(id))
             /\ (OfferStands(id, offer, until)' <=> OfferStands(id, offer, until))
  BY <1>1 DEF termsVars, Registered, OfferStands, ComesAfter, EffectivePaymentTarget,
              EffectiveNativePrice, Matured
<1>4. now' = now
  BY <1>1 DEF termsVars
<1>5. /\ \A read \in reads : ReadOK(read)'
      /\ \A id \in ServiceId : \A entry \in cache[id] : EntryOK(id, entry)'
      /\ \A q \in quote : QuoteOK(q)'
  BY <1>3, <1>4 DEF QuotesInv, ReadOK, EntryOK, QuoteOK
<1>6. ASSUME NEW id \in ServiceId, FetchService(id) PROVE QuotesInv'
  <2>1. PICK new : new = [id |-> id, offer |-> Offer(id), readAt |-> now]
    OBVIOUS
  <2>2. Registered(id) /\ reads' = reads \cup {new} /\ UNCHANGED <<cache, quote>>
    BY <1>6, <2>1 DEF FetchService
  <2>3. ReadOK(new)
    <3>1. now + TermsDelay \in Int /\ now <= now + FetchLatency
      BY <1>1, Numbers
    <3>2. OfferStands(id, Offer(id), now + TermsDelay)
      BY <1>1, <3>1, OfferIsLive
    <3>3. QED
      BY <1>1, <2>1, <2>2, <3>1, <3>2 DEF ReadOK
  <2>4. ReadOK(new)'
    BY <1>3, <1>4, <2>3 DEF ReadOK
  <2>5. QED
    BY <1>2, <1>5, <2>2, <2>4 DEF QuotesInv
<1>7. ASSUME NEW read \in reads, FillCache(read) PROVE QuotesInv'
  <2>1. PICK new : new = [offer |-> read.offer, fetchedAt |-> now]
    OBVIOUS
  <2>2. /\ cache' = [cache EXCEPT ![read.id] = {new}]
        /\ reads' = reads \ {read} /\ quote' = quote
    BY <1>7, <2>1 DEF FillCache
  <2>3. ReadOK(read)
    BY DEF QuotesInv
  <2>4. EntryOK(read.id, new)
    <3>1. /\ read.readAt + TermsDelay \in Int /\ now + TermsDelay - FetchLatency \in Int
          /\ now + TermsDelay - FetchLatency <= read.readAt + TermsDelay
      BY <1>1, <2>3, Numbers DEF ReadOK
    <3>2. OfferStands(read.id, read.offer, now + TermsDelay - FetchLatency)
      BY <1>1, <2>3, <3>1, StandsEarlier DEF ReadOK
    <3>3. QED
      BY <1>1, <2>1, <2>3, <3>2 DEF EntryOK, ReadOK
  <2>5. EntryOK(read.id, new)'
    BY <1>3, <1>4, <2>4 DEF EntryOK
  <2>6. ASSUME NEW id \in ServiceId, NEW entry \in cache'[id] PROVE EntryOK(id, entry)'
    <3>1. IF id = read.id THEN entry = new ELSE entry \in cache[id]
      BY <2>2 DEF QuotesInv
    <3>2. QED
      BY <1>5, <2>5, <3>1
  <2>7. cache' = [id \in ServiceId |-> cache'[id]]
    BY <2>2 DEF QuotesInv
  <2>8. QED
    BY <1>2, <1>5, <2>2, <2>6, <2>7 DEF QuotesInv
<1>8. ASSUME NEW id \in ServiceId, IssueQuote(id) PROVE QuotesInv'
  <2>1. PICK entry \in cache[id] :
          /\ Fresh(entry)
          /\ quote' = {[id |-> id, offer |-> entry.offer, expiresAt |-> now + InvoiceTtl]}
          /\ UNCHANGED <<reads, cache>>
    BY <1>8 DEF IssueQuote
  <2>2. PICK new : new = [id |-> id, offer |-> entry.offer, expiresAt |-> now + InvoiceTtl]
    OBVIOUS
  <2>3. EntryOK(id, entry)
    BY DEF QuotesInv
  <2>4. QuoteOK(new)
    <3>1. /\ entry.fetchedAt + TermsDelay - FetchLatency \in Int
          /\ now + InvoiceTtl \in Nat /\ now + InvoiceTtl + 1 \in Int
          /\ now + InvoiceTtl + 1 <= entry.fetchedAt + TermsDelay - FetchLatency
      BY <1>1, <2>1, <2>3, Numbers DEF Fresh, EntryOK
    <3>2. OfferStands(id, entry.offer, now + InvoiceTtl + 1)
      BY <1>1, <2>3, <3>1, StandsEarlier DEF EntryOK
    <3>3. QED
      BY <2>2, <2>3, <3>1, <3>2 DEF QuoteOK, EntryOK
  <2>5. QuoteOK(new)'
    BY <1>3, <1>4, <2>4 DEF QuoteOK
  <2>6. quote' = {new}
    BY <2>2, <2>1
  <2>7. QED
    BY <1>2, <1>5, <2>1, <2>5, <2>6 DEF QuotesInv
<1>9. QED
  BY <1>6, <1>7, <1>8 DEF GatewayNext

\* What is known of a quote makes it payable while it lasts.
LEMMA QuotesInvImplies == QuotesInv => CalmQuoteStaysPayable
<1> SUFFICES ASSUME QuotesInv, NEW q \in quote, q.offer.calm, now <= q.expiresAt
             PROVE  Payable(q)
  BY DEF CalmQuoteStaysPayable
<1>1. QuoteOK(q) /\ now \in Nat
  BY DEF QuotesInv, IInv
<1>2. now < q.expiresAt + 1
  BY <1>1 DEF QuoteOK
<1>3. QED
  BY <1>1, <1>2 DEF QuoteOK, OfferStands, Payable

\* A quote priced from a calm record is payable at its payee and amount until it
\* expires, for any lifetimes that meet the inequality of loadConfig and however
\* reads overlap (MAX_INVOICE_TTL_MS against TERMS_CHANGE_DELAY_MS).
THEOREM CalmQuotesArePayable == QuotesSpec => []CalmQuoteStaysPayable
<1>1. QuotesInit => QuotesInv
  <2> SUFFICES ASSUME QuotesInit PROVE QuotesInv
    OBVIOUS
  <2>1. IInv
    BY InitIInv DEF QuotesInit
  <2>2. reads = {} /\ quote = {} /\ cache = [id \in ServiceId |-> {}]
    BY DEF QuotesInit
  <2>3. QED
    BY <2>1, <2>2 DEF QuotesInv
<1>2. QuotesInv /\ [QuotesNext]_quoteVars => QuotesInv'
  <2> SUFFICES ASSUME QuotesInv, [QuotesNext]_quoteVars PROVE QuotesInv'
    OBVIOUS
  <2>1. CASE UNCHANGED quoteVars
    <3>1. IInv'
      BY <2>1, NextIInv DEF QuotesInv, quoteVars
    <3>2. QED
      BY <2>1, <3>1 DEF QuotesInv, quoteVars, termsVars, ReadOK, EntryOK, QuoteOK,
                        OfferStands, ComesAfter, Registered, EffectivePaymentTarget,
                        EffectiveNativePrice, Matured
  <2>2. QED
    BY <2>1, TransactionsKeepQuotesInv, TicksKeepQuotesInv, GatewayKeepsQuotesInv
       DEF QuotesNext
<1>3. QED
  BY <1>1, <1>2, QuotesInvImplies, PTL DEF QuotesSpec

=============================================================================
