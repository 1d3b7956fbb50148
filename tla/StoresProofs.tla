---------------------------- MODULE StoresProofs ----------------------------
(***************************************************************************)
(* Proofs about what the gateway keeps in files: the attestation queue,    *)
(* the invoice store's lock and the upstream map, for any payments,        *)
(* services, processes and bounds.                                         *)
(***************************************************************************)
EXTENDS AttestationQueue, InvoiceLock, UpstreamMap, FiniteSetTheorems, TLAPS

-----------------------------------------------------------------------------
(***************************************************************************)
(* The queue.  A payment that is neither on chain nor in the queue file    *)
(* was an expired entry, and the entries that expire are counted before    *)
(* the file that held them is written.                                     *)
(***************************************************************************)

\* How many of the places are not after this one.
Rank(places, i) == Cardinality({h \in places : h <= i})

\* The place of the k-th entry that is kept.
Place(places, k) == CHOOSE i \in places : Rank(places, i) = k

\* The places of a queue are finitely many, and so are some of them.
LEMMA PlacesFinite ==
  ASSUME NEW n \in Nat, NEW places \in SUBSET (1 .. n)
  PROVE  IsFiniteSet(places) /\ Cardinality(places) \in Nat /\ Cardinality(places) <= n
<1>1. IsFiniteSet(1 .. n) /\ Cardinality(1 .. n) = n
  BY FS_Interval
<1>2. QED
  BY <1>1, FS_Subset, FS_CardinalityType

\* A place's rank is one of the numbers up to their count, and a later place
\* ranks higher.
LEMMA RankGrows ==
  ASSUME NEW n \in Nat, NEW places \in SUBSET (1 .. n)
  PROVE  /\ \A i \in places : Rank(places, i) \in 1 .. Cardinality(places)
         /\ \A i, j \in places : i < j => Rank(places, i) < Rank(places, j)
<1>0. IsFiniteSet(places) /\ Cardinality(places) \in Nat
  BY PlacesFinite
<1> DEFINE UpTo(i) == {h \in places : h <= i}
<1>1. \A i \in places : /\ IsFiniteSet(UpTo(i)) /\ Cardinality(UpTo(i)) \in Nat
                        /\ Cardinality(UpTo(i)) <= Cardinality(places)
  BY <1>0, FS_Subset, FS_CardinalityType
<1>2. \A i \in places : Cardinality(UpTo(i)) # 0
  <2> SUFFICES ASSUME NEW i \in places PROVE Cardinality(UpTo(i)) # 0
    OBVIOUS
  <2>1. i \in UpTo(i)
    OBVIOUS
  <2>2. QED
    BY <2>1, <1>1, FS_EmptySet
<1>3. \A i \in places : Rank(places, i) = Cardinality(UpTo(i))
  BY DEF Rank
<1>4. \A i, j \in places : i < j => Cardinality(UpTo(i)) < Cardinality(UpTo(j))
  <2> SUFFICES ASSUME NEW i \in places, NEW j \in places, i < j
               PROVE  Cardinality(UpTo(i)) < Cardinality(UpTo(j))
    OBVIOUS
  <2>0. \A h \in places : h \in Nat
    OBVIOUS
  <2>1. j \in UpTo(j) /\ j \notin UpTo(i)
    BY <2>0
  <2>2. UpTo(i) \in SUBSET UpTo(j)
    <3>1. \A h \in places : h <= i => h <= j
      BY <2>0
    <3>2. QED
      BY <3>1
  <2>3. UpTo(i) # UpTo(j)
    BY <2>1
  <2> HIDE DEF UpTo
  <2>4. QED
    BY <2>2, <2>3, <1>1, FS_Subset
<1> HIDE DEF UpTo
<1>5. \A i \in places : Rank(places, i) \in 1 .. Cardinality(places)
  BY <1>0, <1>1, <1>2, <1>3
<1>6. QED
  BY <1>3, <1>4, <1>5

\* Every number up to their count is the rank of one of them.
LEMMA PlaceOfRank ==
  ASSUME NEW n \in Nat, NEW places \in SUBSET (1 .. n)
  PROVE  /\ \A k \in 1 .. Cardinality(places) :
              Place(places, k) \in places /\ Rank(places, Place(places, k)) = k
         /\ \A i \in places : Place(places, Rank(places, i)) = i
<1>0. IsFiniteSet(places) /\ Cardinality(places) \in Nat
  BY PlacesFinite
<1> DEFINE ranks == 1 .. Cardinality(places)
           rank == [i \in places |-> Rank(places, i)]
<1>1. IsFiniteSet(ranks) /\ Cardinality(ranks) = Cardinality(places)
  BY <1>0, FS_Interval
<1>2. \A i, j \in places : i < j => Rank(places, i) < Rank(places, j)
  BY RankGrows
<1>3. \A i \in places : Rank(places, i) \in ranks
  BY RankGrows
<1>4. \A i, j \in places : Rank(places, i) = Rank(places, j) => i = j
  <2> SUFFICES ASSUME NEW i \in places, NEW j \in places, Rank(places, i) = Rank(places, j)
               PROVE  i = j
    OBVIOUS
  <2>1. Rank(places, i) \in Nat /\ i \in Nat /\ j \in Nat
    BY <1>3
  <2>2. ~(i < j) /\ ~(j < i)
    BY <1>2, <2>1
  <2>3. QED
    BY <2>1, <2>2
<1>5. rank \in Injection(places, ranks)
  BY <1>3, <1>4 DEF Injection, IsInjective
<1> HIDE DEF rank
<1>6. rank \in Surjection(places, ranks)
  BY <1>0, <1>1, <1>5, FS_Injection
<1>7. \A k \in ranks : \E i \in places : Rank(places, i) = k
  BY <1>6 DEF Surjection, rank
<1>8. \A k \in ranks : Place(places, k) \in places /\ Rank(places, Place(places, k)) = k
  BY <1>7 DEF Place
<1>9. QED
  BY <1>3, <1>4, <1>8

\* What Only keeps: as many entries as places, each of them once.
LEMMA OnlyKeeps ==
  ASSUME NEW queue \in Seq(Entry), NEW places \in SUBSET (DOMAIN queue)
  PROVE  /\ Only(queue, places) \in Seq(Entry)
         /\ Len(Only(queue, places)) = Cardinality(places)
         /\ \E pos \in [DOMAIN Only(queue, places) -> places] :
              /\ \A i \in places : \E k \in DOMAIN Only(queue, places) : pos[k] = i
              /\ \A k, l \in DOMAIN Only(queue, places) : pos[k] = pos[l] => k = l
              /\ \A k \in DOMAIN Only(queue, places) : Only(queue, places)[k] = queue[pos[k]]
<1>1. Len(queue) \in Nat /\ DOMAIN queue = 1 .. Len(queue)
  OBVIOUS
<1>2. CASE places = DOMAIN queue
  <2>1. Only(queue, places) = queue
    BY <1>2 DEF Only
  <2>2. Cardinality(places) = Len(queue)
    BY <1>1, <1>2, FS_Interval
  <2> DEFINE pos == [k \in DOMAIN queue |-> k]
  <2>3. /\ pos \in [DOMAIN queue -> places]
        /\ \A k \in DOMAIN queue : pos[k] = k
    BY <1>2
  <2> HIDE DEF pos
  <2>4. /\ \A i \in places : \E k \in DOMAIN queue : pos[k] = i
        /\ \A k, l \in DOMAIN queue : pos[k] = pos[l] => k = l
        /\ \A k \in DOMAIN queue : queue[k] = queue[pos[k]]
    BY <2>3
  <2>5. QED
    BY <2>1, <2>2, <2>3, <2>4
<1>3. CASE places # DOMAIN queue
  <2> DEFINE kept == [k \in 1 .. Cardinality(places) |-> queue[Place(places, k)]]
             pos == [k \in 1 .. Cardinality(places) |-> Place(places, k)]
  <2>1. Only(queue, places) = kept
    BY <1>3 DEF Only, Place, Rank
  <2>2. Cardinality(places) \in Nat
    BY <1>1, PlacesFinite
  <2>3. \A k \in 1 .. Cardinality(places) :
          Place(places, k) \in places /\ Rank(places, Place(places, k)) = k
    BY <1>1, PlaceOfRank
  <2>4. \A i \in places : Rank(places, i) \in 1 .. Cardinality(places) /\ Place(places, Rank(places, i)) = i
    BY <1>1, PlaceOfRank, RankGrows
  <2>5. \A k \in 1 .. Cardinality(places) : queue[Place(places, k)] \in Entry
    BY <2>3
  <2>6. kept \in Seq(Entry) /\ Len(kept) = Cardinality(places) /\ DOMAIN kept = 1 .. Cardinality(places)
    BY <2>2, <2>5
  <2>7. pos \in [DOMAIN kept -> places]
    BY <2>3, <2>6
  <2>8. \A i \in places : \E k \in DOMAIN kept : pos[k] = i
    BY <2>4, <2>6
  <2>9. \A k, l \in DOMAIN kept : pos[k] = pos[l] => k = l
    BY <2>3, <2>6
  <2>10. \A k \in DOMAIN kept : kept[k] = queue[pos[k]]
    BY <2>6
  <2> HIDE DEF kept, pos
  <2>11. QED
    BY <2>1, <2>6, <2>7, <2>8, <2>9, <2>10
<1>4. QED
  BY <1>2, <1>3

\* One entry to a payment.
Distinct(queue) ==
  \A i, j \in DOMAIN queue : queue[i].payment = queue[j].payment => i = j

\* Keeping some entries keeps their payments, one entry to each.
LEMMA OnlyPayments ==
  ASSUME NEW queue \in Seq(Entry), NEW places \in SUBSET (DOMAIN queue)
  PROVE  /\ PaymentsIn(Only(queue, places)) = {queue[i].payment : i \in places}
         /\ Distinct(queue) => Distinct(Only(queue, places))
<1>1. PICK pos \in [DOMAIN Only(queue, places) -> places] :
         /\ \A i \in places : \E k \in DOMAIN Only(queue, places) : pos[k] = i
         /\ \A k, l \in DOMAIN Only(queue, places) : pos[k] = pos[l] => k = l
         /\ \A k \in DOMAIN Only(queue, places) : Only(queue, places)[k] = queue[pos[k]]
  BY OnlyKeeps
<1>2. PaymentsIn(Only(queue, places)) = {queue[i].payment : i \in places}
  BY <1>1 DEF PaymentsIn
<1>3. Distinct(queue) => Distinct(Only(queue, places))
  BY <1>1 DEF Distinct
<1>4. QED
  BY <1>2, <1>3

\* A queue with one entry to a payment is as long as its payments are many.
LEMMA DistinctCounts ==
  ASSUME NEW queue \in Seq(Entry), Distinct(queue)
  PROVE  Len(queue) = Cardinality(PaymentsIn(queue))
<1> DEFINE f == [i \in DOMAIN queue |-> queue[i].payment]
<1>1. f \in Bijection(DOMAIN queue, PaymentsIn(queue))
  <2>1. f \in Injection(DOMAIN queue, PaymentsIn(queue))
    BY DEF Injection, IsInjective, PaymentsIn, Distinct
  <2>2. f \in Surjection(DOMAIN queue, PaymentsIn(queue))
    BY DEF Surjection, PaymentsIn
  <2>3. QED
    BY <2>1, <2>2 DEF Bijection
<1>2. DOMAIN queue = 1 .. Len(queue) /\ Len(queue) \in Nat
  OBVIOUS
<1>3. IsFiniteSet(DOMAIN queue) /\ Cardinality(DOMAIN queue) = Len(queue)
  BY <1>2, FS_Interval
<1> HIDE DEF f
<1>4. QED
  BY <1>1, <1>3, FS_Bijection DEF ExistsBijection

\* The payments at some places are finite, and no more than the places.
LEMMA PaymentsAtPlaces ==
  ASSUME NEW queue \in Seq(Entry), NEW places \in SUBSET (DOMAIN queue)
  PROVE  /\ IsFiniteSet({queue[i].payment : i \in places})
         /\ Cardinality({queue[i].payment : i \in places}) <= Cardinality(places)
<1> DEFINE f == [i \in places |-> queue[i].payment]
           T == {queue[i].payment : i \in places}
<1>1. f \in Surjection(places, T)
  BY DEF Surjection
<1>2. DOMAIN queue = 1 .. Len(queue) /\ Len(queue) \in Nat
  OBVIOUS
<1>3. IsFiniteSet(places)
  BY <1>2, PlacesFinite
<1> HIDE DEF f, T
<1>4. IsFiniteSet(T) /\ Cardinality(T) <= Cardinality(places)
  BY <1>1, <1>3, FS_Surjection
<1>5. QED
  BY <1>4 DEF T

-----------------------------------------------------------------------------
\* What Put does: the entry is there, what was there still is, and a payment
\* has one entry if it had.
LEMMA PutKeeps ==
  ASSUME NEW queue \in Seq(Entry), NEW entry \in Entry
  PROVE  /\ Put(queue, entry) \in Seq(Entry)
         /\ PaymentsIn(Put(queue, entry)) = PaymentsIn(queue) \cup {entry.payment}
         /\ Distinct(queue) => Distinct(Put(queue, entry))
<1> DEFINE same == {i \in DOMAIN queue : queue[i].payment = entry.payment}
           n == Len(queue)
<1>0. n \in Nat /\ DOMAIN queue = 1 .. n /\ \A i \in 1 .. n : queue[i] \in Entry
  OBVIOUS
<1>1. CASE same = {}
  <2> DEFINE more == Append(queue, entry)
  <2>1. Put(queue, entry) = more
    BY <1>1 DEF Put
  <2>2. /\ more \in Seq(Entry) /\ DOMAIN more = 1 .. n + 1
        /\ \A i \in 1 .. n : more[i] = queue[i]
        /\ more[n + 1] = entry
    BY <1>0
  <2>3. \A i \in 1 .. n : queue[i].payment # entry.payment
    BY <1>0, <1>1
  <2> HIDE DEF more
  <2>4. PaymentsIn(more) = PaymentsIn(queue) \cup {entry.payment}
    <3>1. \A i \in DOMAIN more : more[i].payment \in PaymentsIn(queue) \cup {entry.payment}
      BY <2>2, <1>0 DEF PaymentsIn
    <3>2. \A i \in DOMAIN queue : queue[i].payment \in PaymentsIn(more)
      BY <2>2, <1>0 DEF PaymentsIn
    <3>3. entry.payment \in PaymentsIn(more)
      BY <2>2, <1>0 DEF PaymentsIn
    <3>4. QED
      BY <3>1, <3>2, <3>3 DEF PaymentsIn
  <2>5. Distinct(queue) => Distinct(more)
    <3> SUFFICES ASSUME Distinct(queue), NEW i \in DOMAIN more, NEW j \in DOMAIN more,
                        more[i].payment = more[j].payment
                 PROVE  i = j
      BY DEF Distinct
    <3>1. i \in 1 .. n \/ i = n + 1
      BY <2>2, <1>0
    <3>2. j \in 1 .. n \/ j = n + 1
      BY <2>2, <1>0
    <3>3. QED
      BY <3>1, <3>2, <2>2, <2>3, <1>0 DEF Distinct
  <2>6. QED
    BY <2>1, <2>2, <2>4, <2>5
<1>2. CASE same # {}
  <2> DEFINE set == [i \in DOMAIN queue |-> IF i \in same THEN entry ELSE queue[i]]
  <2>1. Put(queue, entry) = set
    BY <1>2 DEF Put
  <2>2. /\ set \in Seq(Entry) /\ DOMAIN set = DOMAIN queue
        /\ \A i \in DOMAIN queue : set[i].payment = queue[i].payment
    BY <1>0
  <2> HIDE DEF set
  <2>3. entry.payment \in PaymentsIn(queue)
    BY <1>2 DEF PaymentsIn
  <2>4. PaymentsIn(set) = PaymentsIn(queue)
    BY <2>2 DEF PaymentsIn
  <2>5. Distinct(queue) => Distinct(set)
    BY <2>2 DEF Distinct
  <2>6. QED
    BY <2>1, <2>2, <2>3, <2>4, <2>5
<1>3. QED
  BY <1>1, <1>2

\* What a prune keeps: entries, one to a payment.
LEMMA UnexpiredKeeps ==
  ASSUME NEW queue \in Seq(Entry)
  PROVE  /\ Unexpired(queue) \in Seq(Entry)
         /\ PaymentsIn(queue) =
              PaymentsIn(Unexpired(queue)) \cup {queue[i].payment : i \in ExpiredPlaces(queue)}
         /\ Distinct(queue) => Distinct(Unexpired(queue))
<1> DEFINE places == DOMAIN queue \ ExpiredPlaces(queue)
<1>1. places \in SUBSET (DOMAIN queue) /\ ExpiredPlaces(queue) \in SUBSET (DOMAIN queue)
  BY DEF ExpiredPlaces
<1>2. Unexpired(queue) = Only(queue, places)
  BY DEF Unexpired
<1>3. PaymentsIn(queue) =
        {queue[i].payment : i \in places} \cup {queue[i].payment : i \in ExpiredPlaces(queue)}
  BY <1>1 DEF PaymentsIn
<1> HIDE DEF places
<1>4. QED
  BY <1>1, <1>2, <1>3, OnlyKeeps, OnlyPayments

\* Dropping a payment drops nothing else.
LEMMA WithoutKeeps ==
  ASSUME NEW queue \in Seq(Entry), NEW p
  PROVE  /\ Without(queue, p) \in Seq(Entry)
         /\ PaymentsIn(Without(queue, p)) = PaymentsIn(queue) \ {p}
         /\ Distinct(queue) => Distinct(Without(queue, p))
<1> DEFINE places == {i \in DOMAIN queue : queue[i].payment # p}
<1>1. places \in SUBSET (DOMAIN queue)
  OBVIOUS
<1>2. Without(queue, p) = Only(queue, places)
  BY DEF Without
<1>3. {queue[i].payment : i \in places} = PaymentsIn(queue) \ {p}
  BY DEF PaymentsIn
<1> HIDE DEF places
<1>4. Only(queue, places) \in Seq(Entry)
  BY <1>1, OnlyKeeps
<1>5. /\ PaymentsIn(Only(queue, places)) = {queue[i].payment : i \in places}
      /\ Distinct(queue) => Distinct(Only(queue, places))
  BY <1>1, OnlyPayments
<1>6. QED
  BY <1>2, <1>3, <1>4, <1>5

\* A sidecar's contents: every letter in the log was counted.
Letters == {letters \in [log : Seq(Entry), total : Nat] : Len(letters.log) <= letters.total}

\* The dead letters: the log is kept short and every expired entry is counted.
LEMMA LettersCount ==
  ASSUME NEW letters \in Letters, NEW queue \in Seq(Entry)
  PROVE  /\ WithExpired(letters, queue) \in Letters
         /\ Len(WithExpired(letters, queue).log) <= MaxDeadLetters
         /\ WithExpired(letters, queue).total = letters.total + Cardinality(ExpiredPlaces(queue))
         /\ Cardinality(ExpiredPlaces(queue)) \in Nat
<1> DEFINE old == Only(queue, ExpiredPlaces(queue))
           log == letters.log \o old
<1>1. ExpiredPlaces(queue) \in SUBSET (DOMAIN queue)
  BY DEF ExpiredPlaces
<1>2. old \in Seq(Entry) /\ Len(old) = Cardinality(ExpiredPlaces(queue))
  BY <1>1, OnlyKeeps
<1>3. Len(old) \in Nat
  BY <1>2
<1>4. WithExpired(letters, queue) = [log |-> LastDeadLetters(log), total |-> letters.total + Len(old)]
  BY DEF WithExpired
<1> HIDE DEF old
<1>5. log \in Seq(Entry) /\ letters.total \in Nat
  BY <1>2 DEF Letters
<1> HIDE DEF log
<1>6. MaxDeadLetters \in Nat \ {0} /\ Len(log) \in Nat
  BY <1>5, QueueAssumption
<1>7. LastDeadLetters(log) \in Seq(Entry) /\ Len(LastDeadLetters(log)) <= MaxDeadLetters
  <2>1. CASE Len(log) > MaxDeadLetters
    <3> DEFINE first == Len(log) - MaxDeadLetters + 1
    <3>1. first \in 1 .. Len(log)
      BY <2>1, <1>6
    <3>2. LastDeadLetters(log) = SubSeq(log, first, Len(log))
      BY <2>1 DEF LastDeadLetters
    <3>3. SubSeq(log, first, Len(log)) \in Seq(Entry)
      BY <3>1, <1>5
    <3>4. Len(SubSeq(log, first, Len(log))) = MaxDeadLetters
      BY <3>1, <1>5, <1>6
    <3>5. QED
      BY <3>2, <3>3, <3>4, <1>6
  <2>2. CASE ~(Len(log) > MaxDeadLetters)
    <3>1. LastDeadLetters(log) = SubSeq(log, 1, Len(log))
      BY <2>2 DEF LastDeadLetters
    <3>2. SubSeq(log, 1, Len(log)) \in Seq(Entry) /\ Len(SubSeq(log, 1, Len(log))) = Len(log)
      BY <1>5, <1>6
    <3>3. QED
      BY <3>1, <3>2, <2>2, <1>6
  <2>3. QED
    BY <2>1, <2>2
<1>8. Len(LastDeadLetters(log)) <= Len(log)
  <2>1. Len(LastDeadLetters(log)) \in Nat
    BY <1>7
  <2>2. CASE Len(log) > MaxDeadLetters
    BY <2>1, <2>2, <1>6, <1>7
  <2>3. CASE ~(Len(log) > MaxDeadLetters)
    <3>1. LastDeadLetters(log) = SubSeq(log, 1, Len(log))
      BY <2>3 DEF LastDeadLetters
    <3>2. QED
      BY <3>1, <1>5, <1>6
  <2>4. QED
    BY <2>2, <2>3
<1>9. Len(log) = Len(letters.log) + Len(old) /\ Len(letters.log) <= letters.total
  <2>1. letters.log \in Seq(Entry)
    BY DEF Letters
  <2>2. QED
    BY <1>2, <2>1 DEF Letters, log
<1>10. Len(LastDeadLetters(log)) <= letters.total + Len(old)
  <2>1. Len(LastDeadLetters(log)) \in Nat /\ Len(letters.log) \in Nat
    BY <1>7 DEF Letters
  <2>2. QED
    BY <2>1, <1>3, <1>5, <1>6, <1>8, <1>9
<1>11. QED
  BY <1>2, <1>3, <1>4, <1>5, <1>7, <1>10 DEF Letters

-----------------------------------------------------------------------------
(***************************************************************************)
(* The invariant: TypeOK, with memory and files as they are in every       *)
(* state, and the payments in none of the places counted.                  *)
(***************************************************************************)

FilesOK ==
  /\ diskItems \in Seq(Entry) /\ Distinct(diskItems)
  /\ diskDead \in Letters /\ Len(diskDead.log) <= MaxDeadLetters

MemoryOK ==
  /\ up => items = diskItems /\ dead = diskDead
  /\ ~up => items = <<>> /\ dead = NoDeadLetters /\ loops = {}

HistoryOK ==
  /\ now \in 0 .. MaxTime /\ boots \in 0 .. MaxBoots /\ up \in BOOLEAN
  /\ ~up => boots < MaxBoots
  /\ loops \subseteq [payment : Payment, attempt : 1 .. MaxAttempts]
  /\ enqueued \subseteq Payment /\ refused \subseteq Doomed /\ attested \subseteq Payment
  /\ IsFiniteSet(enqueued)

QueueInv == FilesOK /\ MemoryOK /\ HistoryOK /\ NoQueuedPaymentIsLost

\* The invariant gives the types.
LEMMA QueueInvTypes == QueueInv => TypeOK
BY DistinctCounts DEF QueueInv, FilesOK, MemoryOK, HistoryOK, Letters, TypeOK, memory

\* The queue starts empty, in memory and on disk.
LEMMA InitQueueInv == Init => QueueInv
<1> SUFFICES ASSUME Init PROVE QueueInv
  OBVIOUS
<1>1. FilesOK
  BY QueueAssumption DEF Init, FilesOK, Distinct, NoDeadLetters, Letters
<1>2. MemoryOK
  BY DEF Init, MemoryOK
<1>3. HistoryOK
  BY QueueBoundAssumption, FS_EmptySet DEF Init, HistoryOK
<1>4. NoQueuedPaymentIsLost
  <2>1. enqueued \ (attested \cup PaymentsIn(diskItems)) = {}
    BY DEF Init
  <2>2. diskDead.total = 0
    BY DEF Init, NoDeadLetters
  <2>3. QED
    BY <2>1, <2>2, FS_EmptySet DEF NoQueuedPaymentIsLost
<1>5. QED
  BY <1>1, <1>2, <1>3, <1>4 DEF QueueInv

\* When the payments newly in none of the places are counted, none is lost.
LEMMA NothingIsLost ==
  ASSUME QueueInv, NEW extra, NEW n \in Nat,
         IsFiniteSet(extra), Cardinality(extra) <= n,
         IsFiniteSet(enqueued'),
         enqueued' \ (attested' \cup PaymentsIn(diskItems)')
           \subseteq (enqueued \ (attested \cup PaymentsIn(diskItems))) \cup extra,
         diskDead'.total \in Nat, diskDead'.total >= diskDead.total + n
  PROVE  NoQueuedPaymentIsLost'
<1> DEFINE lost == enqueued \ (attested \cup PaymentsIn(diskItems))
           lost2 == enqueued' \ (attested' \cup PaymentsIn(diskItems)')
<1>1. IsFiniteSet(lost) /\ Cardinality(lost) \in Nat
  BY FS_Subset, FS_CardinalityType DEF QueueInv, HistoryOK
<1>2. Cardinality(lost) <= diskDead.total /\ diskDead.total \in Nat
  BY DEF QueueInv, NoQueuedPaymentIsLost, FilesOK, Letters
<1>3. lost2 \in SUBSET (lost \cup extra)
  OBVIOUS
<1> SUFFICES Cardinality(lost2) <= diskDead'.total
  BY DEF NoQueuedPaymentIsLost
<1> HIDE DEF lost, lost2
<1>4. /\ IsFiniteSet(lost \cup extra)
      /\ Cardinality(lost \cup extra) = Cardinality(lost) + Cardinality(extra) - Cardinality(lost \cap extra)
      /\ Cardinality(extra) \in Nat
  BY <1>1, FS_Union, FS_CardinalityType
<1>5. Cardinality(lost \cap extra) \in Nat
  BY <1>1, FS_Subset, FS_CardinalityType
<1>6. Cardinality(lost2) <= Cardinality(lost \cup extra) /\ Cardinality(lost2) \in Nat
  BY <1>3, <1>4, FS_Subset, FS_CardinalityType
<1>7. QED
  BY <1>1, <1>2, <1>4, <1>5, <1>6

\* A handler that dies leaves blank memory, and boots to come.
LEMMA DiesKeeps ==
  ASSUME QueueInv, Dies, UNCHANGED <<now, boots, refused>>,
         enqueued' = enqueued, attested' \subseteq Payment
  PROVE  MemoryOK' /\ HistoryOK'
<1>1. MemoryOK'
  BY DEF Dies, MemoryOK
<1>2. HistoryOK'
  BY DEF Dies, QueueInv, HistoryOK
<1>3. QED
  BY <1>1, <1>2

\* A write of the sidecar alone, before the process dies, is as safe as its
\* letters count no less.
LEMMA TornKeeps ==
  ASSUME QueueInv, NEW queue, NEW letters \in Letters,
         TornPersist(queue, letters), UNCHANGED <<now, boots, refused>>,
         enqueued' = enqueued, attested \subseteq attested', attested' \subseteq Payment,
         Len(letters.log) <= MaxDeadLetters, letters.total >= diskDead.total
  PROVE  QueueInv' /\ diskDead'.total >= diskDead.total
<1>1. MemoryOK' /\ HistoryOK'
  BY DiesKeeps DEF TornPersist
<1>2. diskItems' = diskItems /\ diskDead' = letters
  BY DEF TornPersist
<1>3. FilesOK'
  BY <1>2 DEF QueueInv, FilesOK, Distinct
<1>4. diskDead'.total \in Nat /\ diskDead'.total >= diskDead.total + 0
  BY <1>2 DEF Letters, QueueInv, FilesOK
<1>5. PaymentsIn(diskItems)' = PaymentsIn(diskItems)
  BY <1>2 DEF PaymentsIn
<1>6. IsFiniteSet(enqueued') /\ IsFiniteSet({}) /\ Cardinality({}) <= 0
  BY FS_EmptySet DEF QueueInv, HistoryOK
<1>7. enqueued' \ (attested' \cup PaymentsIn(diskItems)')
        \subseteq (enqueued \ (attested \cup PaymentsIn(diskItems))) \cup {}
  BY <1>5
<1>8. NoQueuedPaymentIsLost'
  BY <1>4, <1>6, <1>7, NothingIsLost
<1>9. QED
  BY <1>1, <1>2, <1>3, <1>8 DEF QueueInv

\* Nothing the invariant speaks of but the loops, the clock and the outcomes on
\* chain moves.
LEMMA FilesUnchanged ==
  ASSUME QueueInv, UNCHANGED <<diskItems, diskDead, enqueued>>,
         attested \subseteq attested', MemoryOK', HistoryOK'
  PROVE  QueueInv' /\ diskDead'.total >= diskDead.total
<1>1. FilesOK'
  BY DEF QueueInv, FilesOK, Distinct
<1>2. diskDead'.total \in Nat /\ diskDead'.total >= diskDead.total + 0
  BY DEF QueueInv, FilesOK, Letters
<1>3. PaymentsIn(diskItems)' = PaymentsIn(diskItems)
  BY DEF PaymentsIn
<1>4. IsFiniteSet(enqueued') /\ IsFiniteSet({}) /\ Cardinality({}) <= 0
  BY FS_EmptySet DEF QueueInv, HistoryOK
<1>5. enqueued' \ (attested' \cup PaymentsIn(diskItems)')
        \subseteq (enqueued \ (attested \cup PaymentsIn(diskItems))) \cup {}
  BY <1>3
<1>6. NoQueuedPaymentIsLost'
  BY <1>2, <1>4, <1>5, NothingIsLost
<1>7. QED
  BY <1>1, <1>2, <1>6 DEF QueueInv

\* Both files are replaced by a pruned queue, with a payment more perhaps, and
\* by the letters that count the rest.
LEMMA PruneKeeps ==
  ASSUME QueueInv, NEW letters \in Letters, letters.total >= diskDead.total,
         NEW queue \in Seq(Entry), Distinct(queue),
         PaymentsIn(Unexpired(diskItems)) \subseteq PaymentsIn(queue),
         enqueued' \subseteq enqueued \cup PaymentsIn(queue), IsFiniteSet(enqueued'),
         attested \subseteq attested',
         Persist(queue, WithExpired(letters, diskItems)), up' = TRUE, HistoryOK'
  PROVE  QueueInv' /\ diskDead'.total >= diskDead.total
<1> DEFINE old == {diskItems[i].payment : i \in ExpiredPlaces(diskItems)}
           n == Cardinality(ExpiredPlaces(diskItems))
<1>0. diskItems \in Seq(Entry) /\ diskDead \in Letters
  BY DEF QueueInv, FilesOK
<1>1. /\ diskItems' = queue /\ items' = queue
      /\ diskDead' = WithExpired(letters, diskItems) /\ dead' = WithExpired(letters, diskItems)
  BY DEF Persist
<1>2. /\ WithExpired(letters, diskItems) \in Letters
      /\ Len(WithExpired(letters, diskItems).log) <= MaxDeadLetters
      /\ WithExpired(letters, diskItems).total = letters.total + n
      /\ n \in Nat
  BY <1>0, LettersCount
<1>3. FilesOK'
  BY <1>1, <1>2 DEF FilesOK, Distinct
<1>4. MemoryOK'
  BY <1>1 DEF MemoryOK
<1>5. ExpiredPlaces(diskItems) \in SUBSET (DOMAIN diskItems)
  BY DEF ExpiredPlaces
<1>6. IsFiniteSet(old) /\ Cardinality(old) <= n
  BY <1>0, <1>5, PaymentsAtPlaces
<1>7. PaymentsIn(diskItems) = PaymentsIn(Unexpired(diskItems)) \cup old
  BY <1>0, UnexpiredKeeps
<1>8. PaymentsIn(diskItems)' = PaymentsIn(queue)
  BY <1>1 DEF PaymentsIn
<1> HIDE DEF old, n
<1>9. enqueued' \ (attested' \cup PaymentsIn(diskItems)')
        \subseteq (enqueued \ (attested \cup PaymentsIn(diskItems))) \cup old
  BY <1>7, <1>8
<1>10. diskDead'.total \in Nat /\ diskDead'.total >= diskDead.total + n
  <2>1. letters.total \in Nat /\ diskDead.total \in Nat
    BY <1>0 DEF Letters
  <2>2. QED
    BY <1>1, <1>2, <2>1
<1>11. NoQueuedPaymentIsLost'
  BY <1>2, <1>6, <1>9, <1>10, NothingIsLost
<1>12. diskDead'.total >= diskDead.total
  <2>1. diskDead.total \in Nat
    BY <1>0 DEF Letters
  <2>2. QED
    BY <1>2, <1>10, <2>1
<1>13. QED
  BY <1>3, <1>4, <1>11, <1>12 DEF QueueInv

-----------------------------------------------------------------------------
(***************************************************************************)
(* The steps.                                                              *)
(***************************************************************************)

\* scheduleAttestation, done or cut short.
LEMMA ScheduleStep ==
  ASSUME QueueInv, NEW p \in Payment, Schedule(p)
  PROVE  QueueInv' /\ diskDead'.total >= diskDead.total
<1> DEFINE entry == [payment |-> p, enqueuedAt |-> now]
           rest == Unexpired(items)
           queue == Put(rest, entry)
           letters == WithExpired(dead, items)
<1>1. up /\ items = diskItems /\ dead = diskDead
  BY DEF Schedule, QueueInv, MemoryOK
<1>2. /\ diskItems \in Seq(Entry) /\ Distinct(diskItems) /\ diskDead \in Letters
      /\ diskDead.total \in Nat
  BY DEF QueueInv, FilesOK, Letters
<1>3. entry \in Entry /\ entry.payment = p
  BY DEF QueueInv, HistoryOK, Entry
<1>4. rest \in Seq(Entry) /\ Distinct(rest)
  BY <1>1, <1>2, UnexpiredKeeps
<1> HIDE DEF rest, entry
<1>5. queue \in Seq(Entry) /\ PaymentsIn(queue) = PaymentsIn(rest) \cup {p} /\ Distinct(queue)
  BY <1>3, <1>4, PutKeeps
<1>6. letters \in Letters /\ Len(letters.log) <= MaxDeadLetters /\ letters.total >= diskDead.total
  <2>1. /\ letters \in Letters /\ Len(letters.log) <= MaxDeadLetters
        /\ letters.total = diskDead.total + Cardinality(ExpiredPlaces(diskItems))
        /\ Cardinality(ExpiredPlaces(diskItems)) \in Nat
    BY <1>1, <1>2, LettersCount
  <2> HIDE DEF letters
  <2>2. QED
    BY <2>1, <1>2
<1>7. UNCHANGED <<now, boots, refused, attested>>
  BY DEF Schedule
<1>8. CASE /\ Persist(queue, letters)
           /\ up' = up
           /\ loops' = loops \cup {[payment |-> p, attempt |-> 1]}
           /\ enqueued' = enqueued \cup {p}
  <2>1. IsFiniteSet(enqueued')
    BY <1>8, FS_AddElement DEF QueueInv, HistoryOK
  <2>2. 1 \in 1 .. MaxAttempts
    BY QueueAssumption
  <2>3. HistoryOK'
    BY <1>1, <1>7, <1>8, <2>1, <2>2 DEF QueueInv, HistoryOK
  <2>4. /\ Persist(queue, WithExpired(diskDead, diskItems)) /\ up' = TRUE
        /\ attested \subseteq attested' /\ diskDead.total >= diskDead.total
    BY <1>1, <1>2, <1>7, <1>8
  <2>5. /\ PaymentsIn(Unexpired(diskItems)) \subseteq PaymentsIn(queue)
        /\ enqueued' \subseteq enqueued \cup PaymentsIn(queue)
    BY <1>1, <1>5, <1>8 DEF rest
  <2> HIDE DEF queue, letters
  <2>6. QED
    BY <1>2, <1>5, <2>1, <2>3, <2>4, <2>5, PruneKeeps
<1>9. CASE TornPersist(queue, letters) /\ UNCHANGED enqueued
  <2>1. attested' \subseteq Payment /\ attested \subseteq attested' /\ UNCHANGED <<now, boots, refused>>
    BY <1>7 DEF QueueInv, HistoryOK
  <2> HIDE DEF queue, letters
  <2>2. QED
    BY <1>6, <1>9, <2>1, TornKeeps
<1>10. QED
  BY <1>8, <1>9 DEF Schedule, rest, entry

\* A loop is one of a running gateway's.
LEMMA LoopRuns ==
  ASSUME QueueInv, NEW loop \in loops
  PROVE  /\ up /\ items = diskItems /\ dead = diskDead
         /\ loop \in [payment : Payment, attempt : 1 .. MaxAttempts]
BY DEF QueueInv, MemoryOK, HistoryOK

\* An attempt's successor is one the bound allows.
LEMMA NextAttemptKeeps ==
  ASSUME QueueInv, NEW loop \in loops, NextAttempt(loop)
  PROVE  loops' \subseteq [payment : Payment, attempt : 1 .. MaxAttempts]
<1>1. /\ loop \in [payment : Payment, attempt : 1 .. MaxAttempts]
      /\ loops \subseteq [payment : Payment, attempt : 1 .. MaxAttempts]
      /\ MaxAttempts \in Nat
  BY QueueAssumption DEF QueueInv, HistoryOK
<1>2. loop.attempt < MaxAttempts =>
        [loop EXCEPT !.attempt = @ + 1] \in [payment : Payment, attempt : 1 .. MaxAttempts]
  BY <1>1
<1>3. QED
  BY <1>1, <1>2 DEF NextAttempt

\* recordAttestation resolves, and the entry is dropped or the process dies first.
LEMMA ConfirmStep ==
  ASSUME QueueInv, NEW loop \in loops, AttemptConfirms(loop)
  PROVE  QueueInv' /\ diskDead'.total >= diskDead.total
<1> DEFINE p == loop.payment
           queue == Without(items, p)
<1>1. up /\ items = diskItems /\ dead = diskDead /\ p \in Payment
  BY LoopRuns
<1>2. /\ diskItems \in Seq(Entry) /\ Distinct(diskItems) /\ diskDead \in Letters
      /\ diskDead.total \in Nat /\ Len(diskDead.log) <= MaxDeadLetters
  BY DEF QueueInv, FilesOK, Letters
<1>3. /\ attested' = attested \cup {p}
      /\ UNCHANGED <<now, boots, enqueued, refused>>
      /\ \/ Persist(queue, dead) /\ up' = up /\ loops' = loops \ {loop}
         \/ TornPersist(queue, dead)
  BY DEF AttemptConfirms
<1>4. queue \in Seq(Entry) /\ PaymentsIn(queue) = PaymentsIn(diskItems) \ {p} /\ Distinct(queue)
  BY <1>1, <1>2, WithoutKeeps
<1>5. attested \subseteq attested' /\ attested' \subseteq Payment
  BY <1>1, <1>3 DEF QueueInv, HistoryOK
<1> HIDE DEF p, queue
<1>6. CASE Persist(queue, dead) /\ up' = up /\ loops' = loops \ {loop}
  <2>1. /\ diskItems' = queue /\ items' = queue /\ diskDead' = diskDead /\ dead' = diskDead /\ up'
    BY <1>1, <1>6 DEF Persist
  <2>2. FilesOK'
    BY <2>1, <1>2, <1>4 DEF FilesOK, Distinct
  <2>3. MemoryOK'
    BY <2>1 DEF MemoryOK
  <2>4. HistoryOK'
    BY <1>3, <1>5, <1>6 DEF QueueInv, HistoryOK
  <2>5. PaymentsIn(diskItems)' = PaymentsIn(queue)
    BY <2>1 DEF PaymentsIn
  <2>6. enqueued' \ (attested' \cup PaymentsIn(diskItems)')
          \subseteq (enqueued \ (attested \cup PaymentsIn(diskItems))) \cup {}
    BY <1>3, <1>4, <2>5
  <2>7. IsFiniteSet(enqueued') /\ IsFiniteSet({}) /\ Cardinality({}) <= 0
    BY <1>3, FS_EmptySet DEF QueueInv, HistoryOK
  <2>8. diskDead'.total \in Nat /\ diskDead'.total >= diskDead.total + 0
    BY <1>2, <2>1
  <2>9. NoQueuedPaymentIsLost'
    BY <2>6, <2>7, <2>8, NothingIsLost
  <2>10. QED
    BY <2>2, <2>3, <2>4, <2>8, <2>9, <1>2, <2>1 DEF QueueInv
<1>7. CASE TornPersist(queue, dead)
  <2>1. TornPersist(queue, diskDead) /\ UNCHANGED <<now, boots, refused>> /\ enqueued' = enqueued
    BY <1>1, <1>3, <1>7
  <2>2. diskDead.total >= diskDead.total
    BY <1>2
  <2>3. QED
    BY <1>2, <1>5, <2>1, <2>2, TornKeeps
<1>8. QED
  BY <1>3, <1>6, <1>7

\* An attempt that ends in an error, its write landed or not.
LEMMA FailedAttemptStep ==
  ASSUME QueueInv, NEW loop \in loops,
         AttemptLandsUnconfirmed(loop) \/ AttemptIsRefused(loop) \/ AttemptFails(loop)
  PROVE  QueueInv' /\ diskDead'.total >= diskDead.total
<1>1. up /\ loop.payment \in Payment
  BY LoopRuns
<1>2. NextAttempt(loop) /\ UNCHANGED <<now, boots, up, items, dead, disk, enqueued>>
  BY DEF AttemptLandsUnconfirmed, AttemptIsRefused, AttemptFails
<1>3. attested \subseteq attested' /\ attested' \subseteq Payment
  BY <1>1 DEF AttemptLandsUnconfirmed, AttemptIsRefused, AttemptFails, QueueInv, HistoryOK
<1>4. refused' \subseteq Doomed
  BY DEF AttemptLandsUnconfirmed, AttemptIsRefused, AttemptFails, QueueInv, HistoryOK
<1>5. loops' \subseteq [payment : Payment, attempt : 1 .. MaxAttempts]
  BY <1>2, NextAttemptKeeps
<1>6. HistoryOK'
  BY <1>2, <1>3, <1>4, <1>5 DEF QueueInv, HistoryOK
<1>7. MemoryOK'
  BY <1>1, <1>2 DEF QueueInv, MemoryOK, disk
<1>8. UNCHANGED <<diskItems, diskDead, enqueued>>
  BY <1>2 DEF disk
<1>9. QED
  BY <1>3, <1>6, <1>7, <1>8, FilesUnchanged

\* A poll prunes what is too old.
LEMMA PruneStep ==
  ASSUME QueueInv, Prune
  PROVE  QueueInv' /\ diskDead'.total >= diskDead.total
<1> DEFINE queue == Unexpired(diskItems)
           letters == WithExpired(diskDead, diskItems)
<1>1. /\ up /\ items = diskItems /\ dead = diskDead
      /\ UNCHANGED <<now, boots, enqueued, refused, attested>>
  BY DEF Prune, QueueInv, MemoryOK
<1>2. /\ diskItems \in Seq(Entry) /\ Distinct(diskItems) /\ diskDead \in Letters
      /\ diskDead.total \in Nat
  BY DEF QueueInv, FilesOK, Letters
<1>3. queue \in Seq(Entry) /\ Distinct(queue)
  BY <1>2, UnexpiredKeeps
<1>4. letters \in Letters /\ Len(letters.log) <= MaxDeadLetters /\ letters.total >= diskDead.total
  <2>1. /\ letters \in Letters /\ Len(letters.log) <= MaxDeadLetters
        /\ letters.total = diskDead.total + Cardinality(ExpiredPlaces(diskItems))
        /\ Cardinality(ExpiredPlaces(diskItems)) \in Nat
    BY <1>2, LettersCount
  <2> HIDE DEF letters
  <2>2. QED
    BY <2>1, <1>2
<1>5. \/ Persist(queue, letters) /\ UNCHANGED <<up, loops>>
      \/ TornPersist(queue, letters)
  BY <1>1 DEF Prune
<1>6. /\ attested \subseteq attested' /\ attested' \subseteq Payment /\ enqueued' = enqueued
      /\ IsFiniteSet(enqueued') /\ UNCHANGED <<now, boots, refused>>
  BY <1>1 DEF QueueInv, HistoryOK
<1>7. CASE Persist(queue, letters) /\ UNCHANGED <<up, loops>>
  <2>1. HistoryOK' /\ up' = TRUE
    BY <1>1, <1>7 DEF QueueInv, HistoryOK
  <2>2. PaymentsIn(Unexpired(diskItems)) \subseteq PaymentsIn(queue)
    OBVIOUS
  <2>3. Persist(queue, WithExpired(diskDead, diskItems)) /\ diskDead.total >= diskDead.total
    BY <1>2, <1>7
  <2>4. enqueued' \subseteq enqueued \cup PaymentsIn(queue)
    BY <1>6
  <2> HIDE DEF queue, letters
  <2>5. QED
    BY <1>2, <1>3, <1>6, <2>1, <2>2, <2>3, <2>4, PruneKeeps
<1>8. CASE TornPersist(queue, letters)
  <2> HIDE DEF queue, letters
  <2>1. QED
    BY <1>4, <1>6, <1>8, TornKeeps
<1>9. QED
  BY <1>5, <1>7, <1>8

\* A crash between two handlers.
LEMMA CrashStep ==
  ASSUME QueueInv, Crash
  PROVE  QueueInv' /\ diskDead'.total >= diskDead.total
<1>1. Dies /\ UNCHANGED <<now, boots, refused>> /\ enqueued' = enqueued /\ attested' = attested
  BY DEF Crash
<1>2. attested \subseteq attested' /\ attested' \subseteq Payment
  BY <1>1 DEF QueueInv, HistoryOK
<1>3. MemoryOK' /\ HistoryOK'
  BY <1>1, <1>2, DiesKeeps
<1>4. UNCHANGED <<diskItems, diskDead, enqueued>>
  BY DEF Crash, disk
<1>5. QED
  BY <1>2, <1>3, <1>4, FilesUnchanged

\* A restart reads the files back, and prunes them.
LEMMA BootStepKeeps ==
  ASSUME QueueInv, Boot
  PROVE  QueueInv' /\ diskDead'.total >= diskDead.total
<1> DEFINE letters == [log |-> diskDead.log, total |-> LoadedTotal(diskDead)]
           queue == Unexpired(diskItems)
<1>1. /\ diskItems \in Seq(Entry) /\ Distinct(diskItems) /\ diskDead \in Letters
      /\ diskDead.total \in Nat /\ Len(diskDead.log) <= MaxDeadLetters
      /\ diskDead.log \in Seq(Entry)
  BY DEF QueueInv, FilesOK, Letters
<1>2. LoadedTotal(diskDead) = diskDead.total /\ Len(diskDead.log) <= diskDead.total
  BY <1>1 DEF LoadedTotal, Letters
<1>3. letters = diskDead
  BY <1>1, <1>2 DEF Letters
<1>4. queue \in Seq(Entry) /\ Distinct(queue)
  BY <1>1, UnexpiredKeeps
<1>5. PaymentsIn(queue) \subseteq Payment
  <2> SUFFICES ASSUME NEW i \in DOMAIN queue PROVE queue[i].payment \in Payment
    BY DEF PaymentsIn
  <2> HIDE DEF queue
  <2>1. queue[i] \in Entry
    BY <1>4
  <2>2. QED
    BY <2>1 DEF Entry
<1>6. PICK found \in SUBSET PaymentsIn(queue) :
        loops' = {[payment |-> p, attempt |-> 1] : p \in found}
  BY DEF Boot
<1>7. loops' \subseteq [payment : Payment, attempt : 1 .. MaxAttempts]
  <2>1. 1 \in 1 .. MaxAttempts
    BY QueueAssumption
  <2>2. QED
    BY <1>5, <1>6, <2>1
<1>8. ~up /\ up' = TRUE /\ boots' = boots + 1 /\ UNCHANGED <<now, enqueued, refused, attested>>
  BY DEF Boot
<1>9. HistoryOK'
  <2>1. boots \in Nat /\ boots < MaxBoots /\ MaxBoots \in Nat
    BY <1>8, QueueBoundAssumption DEF QueueInv, HistoryOK
  <2>2. boots' \in 0 .. MaxBoots
    BY <2>1, <1>8
  <2>3. QED
    BY <2>2, <1>7, <1>8 DEF QueueInv, HistoryOK
<1>10. /\ attested \subseteq attested' /\ enqueued' = enqueued /\ IsFiniteSet(enqueued')
  BY <1>8 DEF QueueInv, HistoryOK
<1>11. CASE queue # diskItems
  <2>1. Persist(queue, WithExpired(letters, diskItems))
    BY <1>11 DEF Boot
  <2>2. /\ PaymentsIn(Unexpired(diskItems)) \subseteq PaymentsIn(queue)
        /\ enqueued' \subseteq enqueued \cup PaymentsIn(queue)
    BY <1>10
  <2>3. letters \in Letters /\ letters.total >= diskDead.total
    BY <1>1, <1>3
  <2> HIDE DEF queue, letters
  <2>4. QED
    BY <1>4, <1>8, <1>9, <1>10, <2>1, <2>2, <2>3, PruneKeeps
<1>12. CASE queue = diskItems
  <2>1. items' = diskItems /\ dead' = letters /\ UNCHANGED disk
    BY <1>12 DEF Boot
  <2>2. UNCHANGED <<diskItems, diskDead, enqueued>> /\ attested \subseteq attested'
    BY <2>1, <1>8 DEF disk
  <2>3. MemoryOK'
    BY <2>1, <2>2, <1>3, <1>8 DEF MemoryOK
  <2>4. QED
    BY <2>2, <2>3, <1>9, FilesUnchanged
<1>13. QED
  BY <1>11, <1>12

\* The clock.
LEMMA TickKeeps ==
  ASSUME QueueInv, Tick
  PROVE  QueueInv' /\ diskDead'.total >= diskDead.total
<1>1. /\ UNCHANGED <<diskItems, diskDead, enqueued>> /\ attested \subseteq attested'
      /\ UNCHANGED <<boots, up, items, dead, loops, refused, attested>>
  BY DEF Tick, memory, disk
<1>2. now' \in 0 .. MaxTime
  BY QueueBoundAssumption DEF Tick, QueueInv, HistoryOK
<1>3. HistoryOK'
  BY <1>1, <1>2 DEF QueueInv, HistoryOK
<1>4. MemoryOK'
  BY <1>1 DEF QueueInv, MemoryOK
<1>5. QED
  BY <1>1, <1>3, <1>4, FilesUnchanged

\* Every step of the queue.
LEMMA NextQueueInv ==
  ASSUME QueueInv, [Next]_vars
  PROVE  QueueInv' /\ diskDead'.total >= diskDead.total
<1>1. CASE UNCHANGED vars
  <2>1. UNCHANGED <<now, boots, up, items, dead, diskItems, diskDead, loops,
                    enqueued, refused, attested>>
    BY <1>1 DEF vars, memory, disk
  <2>2. MemoryOK' /\ HistoryOK' /\ attested \subseteq attested'
    BY <2>1 DEF QueueInv, MemoryOK, HistoryOK
  <2>3. QED
    BY <2>1, <2>2, FilesUnchanged
<1>2. ASSUME NEW p \in Payment, Schedule(p)
      PROVE  QueueInv' /\ diskDead'.total >= diskDead.total
  BY <1>2, ScheduleStep
<1>3. ASSUME NEW loop \in loops, Attempt(loop)
      PROVE  QueueInv' /\ diskDead'.total >= diskDead.total
  BY <1>3, ConfirmStep, FailedAttemptStep DEF Attempt
<1>4. CASE Prune
  BY <1>4, PruneStep
<1>5. CASE Crash
  BY <1>5, CrashStep
<1>6. CASE Boot
  BY <1>6, BootStepKeeps
<1>7. CASE Tick
  BY <1>7, TickKeeps
<1>8. QED
  BY <1>1, <1>2, <1>3, <1>4, <1>5, <1>6, <1>7 DEF Next

\* The queue, its files and its memory, in every state.
LEMMA QueueInvariant == Spec => []QueueInv
<1>1. QueueInv /\ [Next]_vars => QueueInv'
  BY NextQueueInv
<1>2. QED
  BY <1>1, InitQueueInv, PTL DEF Spec

\* The queue file has one entry to a payment, the log stays short, and what a
\* running gateway has in memory is what a restart would read.
THEOREM QueueTypes == Spec => []TypeOK
<1>1. QueueInv => TypeOK
  BY QueueInvTypes
<1>2. QED
  BY <1>1, QueueInvariant, PTL

\* However many payments, restarts and torn writes: an enqueued outcome is on
\* chain, in the queue file or counted among the dead letters.
THEOREM QueuedPaymentsAreKept == Spec => []NoQueuedPaymentIsLost
<1>1. QueueInv => NoQueuedPaymentIsLost
  BY DEF QueueInv
<1>2. QED
  BY <1>1, QueueInvariant, PTL

\* The count of abandoned attestations never falls, restarts included.
THEOREM AbandonedCountGrows == Spec => AbandonedCountOnlyGrows
<1>1. QueueInv /\ [Next]_vars => [diskDead.total' >= diskDead.total]_diskDead
  BY NextQueueInv
<1>2. QED
  BY <1>1, QueueInvariant, PTL DEF Spec, AbandonedCountOnlyGrows

-----------------------------------------------------------------------------
(***************************************************************************)
(* The lock, for processes started one after another (SerialLockSpec).  A  *)
(* process that is past the lock is the one the lock file names, so there  *)
(* is one; and its Map is the file.                                        *)
(***************************************************************************)

Labels == {"down", "create", "write", "read", "judge", "reclaim", "load", "running"}

LockTypeOK ==
  /\ pc \in [Gateway -> Labels]
  /\ pid \in [Gateway -> Nat]
  /\ holder \in [Gateway -> Nat]
  /\ DOMAIN invoices = Gateway
  /\ lock = [creator |-> lock.creator, pid |-> lock.pid] /\ lock.pid \in Nat

\* A live process has a pid of its own; one at most is booting.
ProcessesOK ==
  /\ \A g \in Gateway : pid[g] = 0 <=> pc[g] = "down"
  /\ \A g, h \in Gateway : pid[g] = pid[h] /\ pid[g] # 0 => g = h
  /\ \A g, h \in Gateway : Booting(g) /\ Booting(h) => g = h

\* The lock file names the process that is past it, and one that is about to
\* remove it as stale has judged so rightly.
HolderOK ==
  /\ \A g \in Gateway : pc[g] \in {"write", "load", "running"} => lock.creator = g
  /\ \A g \in Gateway : pc[g] \in {"load", "running"} => lock.pid = pid[g]
  /\ \A g, h \in Gateway : pc[h] = "judge" /\ Running(g) => holder[h] = pid[g]
  /\ \A g, h \in Gateway : pc[h] = "reclaim" => ~Running(g)

\* The running process's Map is the file.
MirrorOK ==
  /\ \A g \in Gateway : Running(g) => invoices[g] = file
  /\ issued \subseteq file

LockInv == LockTypeOK /\ ProcessesOK /\ HolderOK /\ MirrorOK

-----------------------------------------------------------------------------

\* The invariant gives the two properties.
LEMMA LockInvImplies == LockInv => OneStoreOpen /\ NoInvoiceErased
<1> SUFFICES ASSUME LockInv PROVE OneStoreOpen /\ NoInvoiceErased
  OBVIOUS
<1>1. NoInvoiceErased
  BY DEF LockInv, MirrorOK, NoInvoiceErased
<1>2. Cardinality({g \in Gateway : Running(g)}) \in {0, 1}
  <2> DEFINE Open == {g \in Gateway : Running(g)}
  <2>1. \A g, h \in Open : g = h
    BY DEF LockInv, HolderOK, Running
  <2> HIDE DEF Open
  <2>2. CASE Open = {}
    BY <2>2, FS_EmptySet DEF Open
  <2>3. CASE Open # {}
    <3>1. PICK g \in Open : Open = {g}
      BY <2>1, <2>3
    <3>2. QED
      BY <3>1, FS_Singleton DEF Open
  <2>4. QED
    BY <2>2, <2>3
<1>3. OneStoreOpen
  BY <1>2 DEF OneStoreOpen
<1>4. QED
  BY <1>1, <1>3

\* Nothing runs at first.
LEMMA InitLockInv == LockInit => LockInv
BY DEF LockInit, LockInv, LockTypeOK, ProcessesOK, HolderOK, MirrorOK, Absent, Labels,
       Booting, Running

\* A process that dies takes nothing with it that the invariant needs.
LEMMA DeathKeepsLockInv ==
  ASSUME LockInv, NEW g \in Gateway, ProcessDies(g), UNCHANGED <<file, issued>>,
         \/ UNCHANGED lock
         \/ lock' = Absent /\ Running(g)
  PROVE  LockInv'
<1>1. /\ pc' = [pc EXCEPT ![g] = "down"] /\ pid' = [pid EXCEPT ![g] = 0]
      /\ invoices' = [invoices EXCEPT ![g] = {}] /\ holder' = [holder EXCEPT ![g] = 0]
  BY DEF ProcessDies, Goto
<1>2. \A h \in Gateway :
        /\ pc'[h] = IF h = g THEN "down" ELSE pc[h]
        /\ pid'[h] = IF h = g THEN 0 ELSE pid[h]
        /\ h # g => invoices'[h] = invoices[h] /\ holder'[h] = holder[h]
  BY <1>1 DEF LockInv, LockTypeOK
<1>3. LockTypeOK'
  BY <1>1 DEF LockInv, LockTypeOK, Labels, Absent
<1>4. ProcessesOK'
  BY <1>2 DEF LockInv, ProcessesOK, Booting
<1>5. \A h \in Gateway : pc'[h] \in {"write", "load", "running"} => UNCHANGED lock
  BY <1>2 DEF LockInv, HolderOK, Running
<1>6. HolderOK'
  BY <1>2, <1>5 DEF LockInv, HolderOK, Running
<1>7. MirrorOK'
  BY <1>2 DEF LockInv, MirrorOK, Running
<1>8. QED
  BY <1>3, <1>4, <1>6, <1>7 DEF LockInv

\* A process is started while no other boots.
LEMMA StartKeepsLockInv ==
  ASSUME LockInv, NEW g \in Gateway, Start(g), \A h \in Gateway : ~Booting(h)
  PROVE  LockInv'
<1>1. PICK p \in Pid \ {pid[h] : h \in Gateway} : pid' = [pid EXCEPT ![g] = p]
  BY DEF Start
<1>2. /\ pc[g] = "down" /\ pc' = [pc EXCEPT ![g] = "create"]
      /\ UNCHANGED <<lock, holder, invoices, file, issued>>
  BY DEF Start, Goto
<1>3. p \in Nat /\ p # 0
  BY <1>1, PidAssumption
<1>4. \A h \in Gateway : /\ pc'[h] = IF h = g THEN "create" ELSE pc[h]
                         /\ pid'[h] = IF h = g THEN p ELSE pid[h]
                         /\ pid[h] # p
  BY <1>1, <1>2 DEF LockInv, LockTypeOK
<1>5. LockTypeOK'
  BY <1>1, <1>2, <1>3 DEF LockInv, LockTypeOK, Labels
<1>6. ProcessesOK'
  BY <1>2, <1>3, <1>4 DEF LockInv, ProcessesOK, Booting
<1>7. HolderOK' /\ MirrorOK'
  BY <1>2, <1>4 DEF LockInv, HolderOK, MirrorOK, Running
<1>8. QED
  BY <1>5, <1>6, <1>7 DEF LockInv

\* The steps of a boot that moves on.
LEMMA BootKeepsLockInv ==
  ASSUME LockInv, NEW g \in Gateway,
         \/ CreateLock(g) \/ WriteLock(g) \/ ReadLock(g)
         \/ JudgeStale(g) \/ Reclaim(g) \/ Load(g)
  PROVE  LockInv'
<1>1. UNCHANGED <<pid, file, issued>> /\ Booting(g)
  BY DEF CreateLock, WriteLock, ReadLock, JudgeStale, Reclaim, Load, Booting
<1>2. PICK label \in Labels \ {"down"} : pc' = [pc EXCEPT ![g] = label]
  BY DEF CreateLock, WriteLock, ReadLock, JudgeStale, Reclaim, Load, Goto, Labels
<1>3. \A h \in Gateway : /\ pc'[h] = IF h = g THEN label ELSE pc[h]
                         /\ h # g => ~Booting(h)
  BY <1>1, <1>2 DEF LockInv, LockTypeOK, ProcessesOK
<1>4. ProcessesOK'
  BY <1>1, <1>3 DEF LockInv, ProcessesOK, Booting
<1>5. \A h \in Gateway : h # g => pc[h] \in {"down", "running"}
  BY <1>3 DEF Booting
<1>6. CASE CreateLock(g)
  <2>1. UNCHANGED <<holder, invoices>> /\ pc[g] = "create"
    BY <1>6 DEF CreateLock
  <2>2. CASE lock = Absent
    <3>1. lock' = [creator |-> g, pid |-> 0] /\ label = "write"
      BY <1>2, <1>6, <2>2 DEF CreateLock, Goto, LockInv, LockTypeOK
    <3>2. \A h \in Gateway : ~Running(h)
      BY <2>2 DEF LockInv, HolderOK, ProcessesOK, Running, Absent
    <3>3. QED
      BY <1>1, <1>2, <1>3, <1>4, <1>5, <2>1, <3>1, <3>2
      DEF LockInv, LockTypeOK, HolderOK, MirrorOK, Running
  <2>3. CASE lock # Absent
    <3>1. lock' = lock /\ label = "read"
      BY <1>2, <1>6, <2>3 DEF CreateLock, Goto, LockInv, LockTypeOK
    <3>2. QED
      BY <1>1, <1>2, <1>3, <1>4, <2>1, <3>1
      DEF LockInv, LockTypeOK, HolderOK, MirrorOK, Running
  <2>4. QED
    BY <2>2, <2>3
<1>7. CASE WriteLock(g)
  <2>1. /\ UNCHANGED <<holder, invoices>> /\ pc[g] = "write" /\ label = "load"
        /\ lock.creator = g /\ lock' = [lock EXCEPT !.pid = pid[g]]
    BY <1>2, <1>7 DEF WriteLock, Goto, LockInv, LockTypeOK, HolderOK
  <2>2. lock' = [creator |-> g, pid |-> pid[g]]
    BY <2>1 DEF LockInv, LockTypeOK
  <2>3. \A h \in Gateway : h # g => pc[h] = "down"
    BY <1>5, <2>1 DEF LockInv, HolderOK
  <2>4. LockTypeOK'
    BY <1>1, <1>2, <2>1, <2>2 DEF LockInv, LockTypeOK
  <2>5. HolderOK' /\ MirrorOK'
    BY <1>1, <1>3, <2>1, <2>2, <2>3 DEF LockInv, HolderOK, MirrorOK, Running
  <2>6. QED
    BY <1>4, <2>4, <2>5 DEF LockInv
<1>8. CASE ReadLock(g)
  <2>1. /\ UNCHANGED <<lock, invoices>> /\ pc[g] = "read" /\ label = "judge"
        /\ holder' = [holder EXCEPT ![g] = lock.pid]
    BY <1>2, <1>8 DEF ReadLock, Goto, LockInv, LockTypeOK
  <2>2. LockTypeOK' /\ MirrorOK'
    BY <1>1, <1>2, <1>3, <2>1 DEF LockInv, LockTypeOK, MirrorOK, Running
  <2>3. HolderOK'
    BY <1>1, <1>3, <1>5, <2>1 DEF LockInv, LockTypeOK, HolderOK, Running
  <2>4. QED
    BY <1>4, <2>2, <2>3 DEF LockInv
<1>9. CASE JudgeStale(g)
  <2>1. /\ UNCHANGED <<lock, holder, invoices>> /\ pc[g] = "judge" /\ label = "reclaim"
        /\ ~Alive(holder[g])
    BY <1>2, <1>9 DEF JudgeStale, Goto, LockInv, LockTypeOK
  <2>2. \A h \in Gateway : ~Running(h)
    BY <2>1 DEF LockInv, HolderOK, ProcessesOK, Alive, Running
  <2>3. LockTypeOK' /\ MirrorOK'
    BY <1>1, <1>2, <1>3, <2>1 DEF LockInv, LockTypeOK, MirrorOK, Running
  <2>4. HolderOK'
    BY <1>1, <1>3, <1>5, <2>1, <2>2 DEF LockInv, HolderOK, Running
  <2>5. QED
    BY <1>4, <2>3, <2>4 DEF LockInv
<1>10. CASE Reclaim(g)
  <2>1. /\ UNCHANGED <<holder, invoices>> /\ pc[g] = "reclaim" /\ label = "create"
        /\ lock' = Absent
    BY <1>2, <1>10 DEF Reclaim, Goto, LockInv, LockTypeOK
  <2>2. \A h \in Gateway : ~Running(h)
    BY <2>1 DEF LockInv, HolderOK
  <2>3. LockTypeOK' /\ MirrorOK'
    BY <1>1, <1>2, <1>3, <2>1 DEF LockInv, LockTypeOK, MirrorOK, Running, Absent
  <2>4. HolderOK'
    BY <1>1, <1>3, <1>5, <2>1, <2>2 DEF LockInv, HolderOK, Running
  <2>5. QED
    BY <1>4, <2>3, <2>4 DEF LockInv
<1>11. CASE Load(g)
  <2>1. /\ UNCHANGED <<lock, holder>> /\ pc[g] = "load" /\ label = "running"
        /\ invoices' = [invoices EXCEPT ![g] = file]
    BY <1>2, <1>11 DEF Load, Goto, LockInv, LockTypeOK
  <2>2. \A h \in Gateway : h # g => pc[h] = "down"
    BY <1>5, <2>1 DEF LockInv, HolderOK
  <2>3. LockTypeOK' /\ MirrorOK'
    BY <1>1, <1>2, <1>3, <2>1, <2>2 DEF LockInv, LockTypeOK, MirrorOK, Running
  <2>4. HolderOK'
    BY <1>1, <1>3, <2>1, <2>2 DEF LockInv, HolderOK, Running
  <2>5. QED
    BY <1>4, <2>3, <2>4 DEF LockInv
<1>12. QED
  BY <1>6, <1>7, <1>8, <1>9, <1>10, <1>11

\* The one process that runs rewrites a file its Map mirrors.
LEMMA IssueKeepsLockInv ==
  ASSUME LockInv, NEW g \in Gateway, NEW invoice, Issue(g, invoice)
  PROVE  LockInv'
<1>1. /\ Running(g) /\ file' = invoices[g] \cup {invoice} /\ issued' = issued \cup {invoice}
      /\ invoices' = [invoices EXCEPT ![g] = @ \cup {invoice}]
      /\ UNCHANGED <<pc, pid, lock, holder>>
  BY DEF Issue
<1>2. \A h \in Gateway : Running(h) => h = g
  BY <1>1 DEF LockInv, HolderOK, Running
<1>3. MirrorOK'
  BY <1>1, <1>2 DEF LockInv, LockTypeOK, MirrorOK, Running
<1>4. LockTypeOK' /\ ProcessesOK' /\ HolderOK'
  BY <1>1 DEF LockInv, LockTypeOK, ProcessesOK, HolderOK, Booting, Running
<1>5. QED
  BY <1>3, <1>4 DEF LockInv

\* No step breaks the invariant.
LEMMA NextLockInv == LockInv /\ [SerialLockNext]_lockVars => LockInv'
<1> SUFFICES ASSUME LockInv, [SerialLockNext]_lockVars PROVE LockInv'
  OBVIOUS
<1>1. ASSUME NEW g \in Gateway, Start(g), \A h \in Gateway : ~Booting(h) PROVE LockInv'
  BY <1>1, StartKeepsLockInv
<1>2. ASSUME NEW g \in Gateway, BootStep(g) PROVE LockInv'
  <2>1. CASE ReadNoLock(g)
    BY <2>1, DeathKeepsLockInv DEF ReadNoLock
  <2>2. CASE Refuse(g)
    BY <2>2, DeathKeepsLockInv DEF Refuse
  <2>3. QED
    BY <1>2, <2>1, <2>2, BootKeepsLockInv DEF BootStep
<1>3. ASSUME NEW g \in Gateway, NEW invoice \in Invoice, Issue(g, invoice) PROVE LockInv'
  BY <1>3, IssueKeepsLockInv
<1>4. ASSUME NEW g \in Gateway, Close(g) PROVE LockInv'
  BY <1>4, DeathKeepsLockInv DEF Close
<1>5. ASSUME NEW g \in Gateway, ProcessCrash(g) PROVE LockInv'
  BY <1>5, DeathKeepsLockInv DEF ProcessCrash
<1>6. CASE UNCHANGED lockVars
  BY <1>6 DEF lockVars, LockInv, LockTypeOK, ProcessesOK, HolderOK, MirrorOK, Booting, Running
<1>7. QED
  BY <1>1, <1>2, <1>3, <1>4, <1>5, <1>6 DEF SerialLockNext, Step

-----------------------------------------------------------------------------
(***************************************************************************)
(* The theorems.                                                           *)
(***************************************************************************)

\* The invariant holds throughout.
THEOREM LockInvariant == SerialLockSpec => []LockInv
<1>1. LockInit => LockInv
  BY InitLockInv
<1>2. LockInv /\ [SerialLockNext]_lockVars => LockInv'
  BY NextLockInv
<1>3. QED
  BY <1>1, <1>2, PTL DEF SerialLockSpec

\* Started one after another, no two processes ever have the invoice store open,
\* wherever they crash and whichever pids are reused (lock of FileInvoiceStore).
THEOREM StoreIsExclusive == SerialLockSpec => []OneStoreOpen
BY LockInvariant, LockInvImplies, PTL

\* So no quoted invoice is erased by the wholesale rewrite of another process.
THEOREM InvoicesSurvive == SerialLockSpec => []NoInvoiceErased
BY LockInvariant, LockInvImplies, PTL

-----------------------------------------------------------------------------
(***************************************************************************)
(* The upstream map.  The file, the snapshots waiting to be written and the*)
(* Map are one line of ever newer states, and a restart only cuts its end  *)
(* off.                                                                    *)
(***************************************************************************)

Change == [at : Nat, signed : Nat, up : BOOLEAN]
Request == [kind : {"signed", "admin", "delete"}, service : Service, number : Nat]
Snapshot == [Service -> Change]

MapTypeOK ==
  /\ sent \in Nat /\ handled \in Nat
  /\ requests \subseteq Request
  /\ upstreams \in Snapshot /\ upstreamsFile \in Snapshot
  /\ writes \in Seq([request : Request, snapshot : Snapshot])
  /\ lastSelfMapTs \in [Service -> Nat]
  /\ acknowledged \in [Service -> [change : Nat, delete : Nat, signed : Nat]]

\* From the file over the snapshots to the Map, nothing is older than what
\* comes before.
LineOK ==
  \A s \in Service :
    /\ upstreamsFile[s].at <= upstreams[s].at
    /\ upstreams[s].at <= handled
    /\ \A i \in DOMAIN writes :
         /\ upstreamsFile[s].at <= writes[i].snapshot[s].at
         /\ writes[i].snapshot[s].at <= upstreams[s].at
         /\ \A j \in DOMAIN writes :
              i <= j => writes[i].snapshot[s].at <= writes[j].snapshot[s].at

\* This state of a service is not an older signature's than number n.
NotBefore(change, n) == change.signed = 0 \/ change.signed >= n

\* The signature a queued write will acknowledge, if it does.
Promised(i) == writes[i].snapshot[writes[i].request.service].signed

\* No state on the line is an older signature's than one acknowledged, nor than
\* one that a write before it will acknowledge.
SignedOK ==
  /\ \A s \in Service :
       /\ acknowledged[s].signed <= lastSelfMapTs[s]
       /\ NotBefore(upstreamsFile[s], acknowledged[s].signed)
       /\ NotBefore(upstreams[s], acknowledged[s].signed)
       /\ \A i \in DOMAIN writes : NotBefore(writes[i].snapshot[s], acknowledged[s].signed)
  /\ \A i \in DOMAIN writes :
       LET s == writes[i].request.service IN
       /\ Promised(i) <= lastSelfMapTs[s]
       /\ NotBefore(upstreams[s], Promised(i))
       /\ \A j \in DOMAIN writes : i <= j => NotBefore(writes[j].snapshot[s], Promised(i))

MapInv == MapTypeOK /\ LineOK /\ AcknowledgedChangeSticks /\ SignedOK

-----------------------------------------------------------------------------

\* The invariant gives the two properties.
LEMMA MapInvImplies == MapInv => AcknowledgedChangeSticks /\ NewestSignedMapWins
BY DEF MapInv, SignedOK, NotBefore, NewestSignedMapWins

\* Before the first request there is no upstream, in memory or on disk.
LEMMA InitMapInv == UpstreamInit => MapInv
<1> SUFFICES ASSUME UpstreamInit PROVE MapInv
  OBVIOUS
<1>1. NoChange \in Change /\ NoChange.at = 0 /\ NoChange.signed = 0
  BY DEF NoChange, Change
<1>2. writes = <<>> /\ DOMAIN writes = {}
  BY DEF UpstreamInit
<1>3. MapTypeOK
  BY <1>1 DEF UpstreamInit, MapTypeOK, Snapshot
<1>4. \A s \in Service :
        /\ upstreams[s].at = 0 /\ upstreamsFile[s].at = 0
        /\ upstreams[s].signed = 0 /\ upstreamsFile[s].signed = 0
        /\ acknowledged[s].change = 0 /\ acknowledged[s].signed = 0
        /\ lastSelfMapTs[s] = 0
  BY <1>1 DEF UpstreamInit
<1>5. LineOK /\ AcknowledgedChangeSticks
  BY <1>2, <1>4 DEF UpstreamInit, LineOK, AcknowledgedChangeSticks
<1>6. SignedOK
  BY <1>2, <1>4 DEF SignedOK, NotBefore
<1>7. QED
  BY <1>3, <1>5, <1>6 DEF MapInv

\* What is left of a sequence without its first entry.
LEMMA WithoutFirst ==
  ASSUME NEW S, NEW q \in Seq(S), 1 \in DOMAIN q
  PROVE  LET rest == SubSeq(q, 1, 1 - 1) \o SubSeq(q, 1 + 1, Len(q))
         IN  /\ rest \in Seq(S)
             /\ Len(rest) = Len(q) - 1
             /\ \A i \in DOMAIN rest : i + 1 \in DOMAIN q /\ rest[i] = q[i + 1]
<1> DEFINE rest == SubSeq(q, 1, 1 - 1) \o SubSeq(q, 1 + 1, Len(q))
<1>1. Len(q) \in Nat /\ Len(q) >= 1 /\ DOMAIN q = 1 .. Len(q)
  OBVIOUS
<1>2. SubSeq(q, 1, 1 - 1) \in Seq(S) /\ Len(SubSeq(q, 1, 1 - 1)) = 0
  OBVIOUS
<1>3. /\ SubSeq(q, 1 + 1, Len(q)) \in Seq(S)
      /\ Len(SubSeq(q, 1 + 1, Len(q))) = Len(q) - 1
      /\ \A i \in 1 .. Len(q) - 1 : SubSeq(q, 1 + 1, Len(q))[i] = q[i + 1]
  BY <1>1
<1>4. QED
  BY <1>1, <1>2, <1>3

\* An entry of a sequence is of the sequence's kind.
LEMMA EntryTyped ==
  ASSUME NEW S, NEW q \in Seq(S), NEW i \in DOMAIN q
  PROVE  q[i] \in S
OBVIOUS

\* A queued write is of a request and a snapshot.
LEMMA WriteTyped ==
  ASSUME MapTypeOK, NEW i \in DOMAIN writes
  PROVE  /\ writes[i].request \in Request /\ writes[i].request.service \in Service
         /\ writes[i].snapshot \in Snapshot
         /\ \A s \in Service : writes[i].snapshot[s] \in Change
         /\ \A s \in Service :
              writes[i].snapshot[s].at \in Nat /\ writes[i].snapshot[s].signed \in Nat
         /\ Promised(i) \in Nat
<1>1. /\ writes \in Seq([request : Request, snapshot : Snapshot])
      /\ DOMAIN writes = 1 .. Len(writes)
  BY DEF MapTypeOK
<1>2. writes[i] \in [request : Request, snapshot : Snapshot]
  BY <1>1, EntryTyped
<1>3. writes[i].request \in Request /\ writes[i].snapshot \in Snapshot
  BY <1>2
<1>4. writes[i].request.service \in Service
  BY <1>3 DEF Request
<1>5. \A s \in Service : writes[i].snapshot[s] \in Change
  BY <1>3 DEF Snapshot
<1>6. QED
  BY <1>3, <1>4, <1>5 DEF Promised, Change

-----------------------------------------------------------------------------
(***************************************************************************)
(* The gateway's steps.                                                    *)
(***************************************************************************)

\* What is acknowledged counts no further than what is asked for.
LEMMA SucceedsAcknowledges ==
  ASSUME MapTypeOK, NEW r \in Request, NEW change \in Change, Succeeds(r, change)
  PROVE  /\ acknowledged' \in [Service -> [change : Nat, delete : Nat, signed : Nat]]
         /\ \A s \in Service \ {r.service} : acknowledged'[s] = acknowledged[s]
         /\ acknowledged'[r.service].change \in
              {acknowledged[r.service].change, IF change.up THEN change.at ELSE 0}
         /\ acknowledged'[r.service].signed \in {acknowledged[r.service].signed, change.signed}
         /\ ~change.up => acknowledged'[r.service].change = acknowledged[r.service].change
         /\ change.signed = 0 =>
              acknowledged'[r.service].signed = acknowledged[r.service].signed
<1> DEFINE old == acknowledged[r.service]
           new == [ change |-> Later(old.change, IF change.up THEN change.at ELSE 0),
                    delete |-> Later(old.delete, IF change.up THEN 0 ELSE change.at),
                    signed |-> Later(old.signed, change.signed) ]
<1>1. /\ acknowledged' = [acknowledged EXCEPT ![r.service] = new]
      /\ r.service \in Service
      /\ old \in [change : Nat, delete : Nat, signed : Nat]
  BY DEF Succeeds, MapTypeOK, Request
<1>2. /\ new \in [change : Nat, delete : Nat, signed : Nat]
      /\ new.change \in {old.change, IF change.up THEN change.at ELSE 0}
      /\ new.signed \in {old.signed, change.signed}
      /\ ~change.up => new.change = old.change
      /\ change.signed = 0 => new.signed = old.signed
  BY <1>1 DEF Later, Change
<1> HIDE DEF new
<1>3. acknowledged'[r.service] = new
  BY <1>1 DEF MapTypeOK
<1>4. QED
  BY <1>1, <1>2, <1>3 DEF MapTypeOK

\* A change goes to the end of the line.
LEMMA SetAndPersistKeepsMapInv ==
  ASSUME MapInv, NEW r \in Request, NEW change \in Change, SetAndPersist(r, change),
         change.at = handled + 1,
         change.signed = 0 \/ change.signed > lastSelfMapTs[r.service],
         lastSelfMapTs' \in [Service -> Nat],
         \A s \in Service : lastSelfMapTs'[s] >= lastSelfMapTs[s],
         change.signed <= lastSelfMapTs'[r.service],
         requests' \subseteq requests, UNCHANGED <<sent, acknowledged, upstreamsFile>>
  PROVE  MapInv'
<1> DEFINE entry == [request |-> r, snapshot |-> upstreams']
           n == Len(writes)
<1>1. /\ handled' = handled + 1 /\ handled \in Nat
      /\ upstreams' = [upstreams EXCEPT ![r.service] = change]
      /\ writes' = Append(writes, entry)
      /\ upstreams \in Snapshot /\ r.service \in Service
      /\ writes \in Seq([request : Request, snapshot : Snapshot])
  BY DEF SetAndPersist, MapInv, MapTypeOK, Request
<1>2. /\ upstreams' \in Snapshot
      /\ upstreams'[r.service] = change
      /\ \A s \in Service \ {r.service} : upstreams'[s] = upstreams[s]
  BY <1>1 DEF Snapshot
<1>3. entry \in [request : Request, snapshot : Snapshot]
  BY <1>2
<1>4. /\ writes' \in Seq([request : Request, snapshot : Snapshot])
      /\ DOMAIN writes' = DOMAIN writes \cup {n + 1}
      /\ \A i \in DOMAIN writes : writes'[i] = writes[i] /\ i <= n /\ i \in Nat
      /\ writes'[n + 1].request = r /\ writes'[n + 1].snapshot = upstreams'
      /\ n \in Nat
  BY <1>1, <1>3
<1> HIDE DEF n, entry
<1>5. MapTypeOK'
  BY <1>1, <1>2, <1>4 DEF MapInv, MapTypeOK
<1>6. \A s \in Service :
        /\ upstreams[s].at \in Nat /\ upstreamsFile[s].at \in Nat
        /\ upstreams[s].at <= upstreams'[s].at /\ upstreams'[s].at <= handled'
        /\ \A i \in DOMAIN writes : writes[i].snapshot[s].at \in Nat
  <2>1. \A s \in Service : /\ upstreams[s] \in Change /\ upstreamsFile[s] \in Change
                            /\ upstreams[s].at <= handled
    BY DEF MapInv, MapTypeOK, LineOK, Snapshot
  <2>2. \A i \in DOMAIN writes : \A s \in Service : writes[i].snapshot[s].at \in Nat
    BY WriteTyped DEF MapInv
  <2>3. QED
    BY <1>1, <1>2, <2>1, <2>2 DEF Change
<1>7. LineOK'
  <2> SUFFICES ASSUME NEW s \in Service
      PROVE  /\ upstreamsFile[s].at <= upstreams'[s].at
             /\ upstreams'[s].at <= handled'
             /\ \A i \in DOMAIN writes' :
                  /\ upstreamsFile[s].at <= writes'[i].snapshot[s].at
                  /\ writes'[i].snapshot[s].at <= upstreams'[s].at
                  /\ \A j \in DOMAIN writes' :
                       i <= j => writes'[i].snapshot[s].at <= writes'[j].snapshot[s].at
    BY DEF LineOK
  <2>1. upstreams'[s].at \in Nat /\ upstreamsFile[s].at <= upstreams'[s].at
    BY <1>2, <1>6 DEF MapInv, LineOK, Snapshot, Change
  <2>2. \A i \in DOMAIN writes' :
          /\ upstreamsFile[s].at <= writes'[i].snapshot[s].at
          /\ writes'[i].snapshot[s].at <= upstreams'[s].at
    BY <1>4, <1>6, <2>1 DEF MapInv, LineOK
  <2>3. ASSUME NEW i \in DOMAIN writes', NEW j \in DOMAIN writes', i <= j
        PROVE  writes'[i].snapshot[s].at <= writes'[j].snapshot[s].at
    <3>1. CASE j = n + 1
      BY <1>4, <2>2, <3>1
    <3>2. CASE j # n + 1
      <4>1. i \in DOMAIN writes /\ j \in DOMAIN writes
        BY <1>4, <2>3, <3>2
      <4>2. QED
        BY <1>4, <2>3, <4>1 DEF MapInv, LineOK
    <3>3. QED
      BY <3>1, <3>2
  <2>4. QED
    BY <1>6, <2>1, <2>2, <2>3
<1>8. AcknowledgedChangeSticks'
  BY DEF MapInv, AcknowledgedChangeSticks
<1>9. SignedOK'
  <2>1. \A s \in Service :
          /\ lastSelfMapTs[s] \in Nat /\ lastSelfMapTs'[s] \in Nat
          /\ acknowledged[s].signed \in Nat
    BY DEF MapInv, MapTypeOK
  <2>2. change.signed \in Nat
    BY DEF Change
  <2>3. ASSUME NEW s \in Service, NEW m \in Nat, m <= lastSelfMapTs[s],
               NotBefore(upstreams[s], m)
        PROVE  NotBefore(upstreams'[s], m)
    BY <1>2, <2>1, <2>2, <2>3 DEF NotBefore
  <2>4. ASSUME NEW s \in Service
        PROVE  /\ acknowledged[s].signed <= lastSelfMapTs'[s]
               /\ NotBefore(upstreamsFile[s], acknowledged[s].signed)
               /\ NotBefore(upstreams'[s], acknowledged[s].signed)
               /\ \A i \in DOMAIN writes' : NotBefore(writes'[i].snapshot[s], acknowledged[s].signed)
    <3>1. acknowledged[s].signed <= lastSelfMapTs[s] /\ NotBefore(upstreams[s], acknowledged[s].signed)
      BY DEF MapInv, SignedOK
    <3>2. NotBefore(upstreams'[s], acknowledged[s].signed)
      BY <2>1, <2>3, <3>1
    <3>3. \A i \in DOMAIN writes : NotBefore(writes[i].snapshot[s], acknowledged[s].signed)
      BY DEF MapInv, SignedOK
    <3>4. acknowledged[s].signed <= lastSelfMapTs'[s]
      BY <2>1, <3>1
    <3>5. QED
      BY <1>4, <3>1, <3>2, <3>3, <3>4 DEF MapInv, SignedOK
  <2>5. ASSUME NEW i \in DOMAIN writes'
        PROVE  LET s == writes'[i].request.service IN
               /\ Promised(i)' <= lastSelfMapTs'[s]
               /\ NotBefore(upstreams'[s], Promised(i)')
               /\ \A j \in DOMAIN writes' : i <= j => NotBefore(writes'[j].snapshot[s], Promised(i)')
    <3>1. CASE i = n + 1
      <4>1. /\ writes'[i].request.service = r.service /\ Promised(i)' = change.signed
            /\ \A j \in DOMAIN writes' : i <= j => j = n + 1
        BY <1>2, <1>4, <3>1 DEF Promised
      <4>2. NotBefore(change, change.signed)
        BY <2>2 DEF NotBefore
      <4>3. QED
        BY <1>2, <1>4, <4>1, <4>2
    <3>2. CASE i # n + 1
      <4> DEFINE s == writes[i].request.service
      <4>1. i \in DOMAIN writes /\ writes'[i] = writes[i]
        BY <1>4, <3>2
      <4>2. s \in Service /\ Promised(i)' = Promised(i) /\ Promised(i) \in Nat
        BY <4>1, WriteTyped DEF MapInv, Promised
      <4>3. /\ Promised(i) <= lastSelfMapTs[s] /\ NotBefore(upstreams[s], Promised(i))
            /\ \A j \in DOMAIN writes : i <= j => NotBefore(writes[j].snapshot[s], Promised(i))
        BY <4>1 DEF MapInv, SignedOK
      <4> HIDE DEF s
      <4>4. NotBefore(upstreams'[s], Promised(i)) /\ Promised(i) <= lastSelfMapTs'[s]
        BY <2>1, <2>3, <4>2, <4>3
      <4>5. \A j \in DOMAIN writes' : i <= j => NotBefore(writes'[j].snapshot[s], Promised(i))
        BY <1>4, <4>3, <4>4
      <4>6. QED
        BY <4>1, <4>2, <4>4, <4>5 DEF s
    <3>3. QED
      BY <3>1, <3>2
  <2>6. QED
    BY <2>4, <2>5 DEF SignedOK
<1>10. QED
  BY <1>5, <1>7, <1>8, <1>9 DEF MapInv

\* The first write leaves the queue, whether or not it reached the file, and
\* acknowledges no more than the line bears out.
LEMMA FirstWriteEnds ==
  ASSUME MapInv, 1 \in DOMAIN writes,
         writes' = SubSeq(writes, 1, 1 - 1) \o SubSeq(writes, 1 + 1, Len(writes)),
         upstreamsFile' \in {upstreamsFile, writes[1].snapshot},
         UNCHANGED <<sent, requests, handled, upstreams, lastSelfMapTs>>,
         acknowledged' \in [Service -> [change : Nat, delete : Nat, signed : Nat]],
         \A s \in Service :
           LET n == acknowledged'[s].signed IN
           /\ acknowledged'[s].change <= upstreamsFile'[s].at
           /\ n <= lastSelfMapTs[s]
           /\ NotBefore(upstreamsFile'[s], n) /\ NotBefore(upstreams[s], n)
           /\ \A i \in DOMAIN writes : NotBefore(writes[i].snapshot[s], n)
  PROVE  MapInv'
<1>1. /\ writes' \in Seq([request : Request, snapshot : Snapshot])
      /\ \A i \in DOMAIN writes' : /\ i + 1 \in DOMAIN writes /\ i \in Nat
                                   /\ writes'[i] = writes[i + 1]
  <2>1. writes \in Seq([request : Request, snapshot : Snapshot])
    BY DEF MapInv, MapTypeOK
  <2>2. /\ writes' \in Seq([request : Request, snapshot : Snapshot])
        /\ \A i \in DOMAIN writes' : i + 1 \in DOMAIN writes /\ writes'[i] = writes[i + 1]
    BY <2>1, WithoutFirst
  <2>3. DOMAIN writes' = 1 .. Len(writes')
    BY <2>2
  <2>4. QED
    BY <2>2, <2>3
<1>2. MapTypeOK'
  <2>1. upstreamsFile' \in Snapshot
    BY WriteTyped DEF MapInv, MapTypeOK
  <2>2. QED
    BY <1>1, <2>1 DEF MapInv, MapTypeOK
<1>3. ASSUME NEW s \in Service
      PROVE  /\ upstreamsFile'[s].at <= upstreams[s].at
             /\ \A i \in DOMAIN writes' : upstreamsFile'[s].at <= writes'[i].snapshot[s].at
  <2>1. CASE upstreamsFile' = upstreamsFile
    BY <1>1, <2>1 DEF MapInv, LineOK
  <2>2. CASE upstreamsFile' = writes[1].snapshot
    <3>1. \A i \in DOMAIN writes' : 1 <= i + 1 /\ i + 1 \in DOMAIN writes
      BY <1>1
    <3>2. QED
      BY <1>1, <2>2, <3>1 DEF MapInv, LineOK
  <2>3. QED
    BY <2>1, <2>2
<1>4. LineOK'
  <2>1. \A s \in Service : \A i, j \in DOMAIN writes' :
          i <= j => writes'[i].snapshot[s].at <= writes'[j].snapshot[s].at
    BY <1>1 DEF MapInv, LineOK
  <2>2. \A s \in Service : upstreams[s].at <= handled /\
          \A i \in DOMAIN writes' : writes'[i].snapshot[s].at <= upstreams[s].at
    BY <1>1 DEF MapInv, LineOK
  <2>3. QED
    BY <1>3, <2>1, <2>2 DEF LineOK
<1>5. AcknowledgedChangeSticks'
  <2>1. \A s \in Service : upstreamsFile'[s].at \in Nat /\ acknowledged'[s].change \in Nat
    BY <1>2 DEF MapTypeOK, Snapshot, Change
  <2>2. QED
    BY <2>1 DEF AcknowledgedChangeSticks
<1>6. SignedOK'
  <2>1. ASSUME NEW i \in DOMAIN writes'
        PROVE  LET s == writes'[i].request.service IN
               /\ Promised(i)' <= lastSelfMapTs[s]
               /\ NotBefore(upstreams[s], Promised(i)')
               /\ \A j \in DOMAIN writes' : i <= j => NotBefore(writes'[j].snapshot[s], Promised(i)')
    <3>1. i + 1 \in DOMAIN writes /\ writes'[i] = writes[i + 1] /\ Promised(i)' = Promised(i + 1)
      BY <1>1 DEF Promised
    <3>2. LET s == writes[i + 1].request.service IN
          /\ Promised(i + 1) <= lastSelfMapTs[s]
          /\ NotBefore(upstreams[s], Promised(i + 1))
          /\ \A j \in DOMAIN writes : i + 1 <= j => NotBefore(writes[j].snapshot[s], Promised(i + 1))
      BY <3>1 DEF MapInv, SignedOK
    <3>3. \A j \in DOMAIN writes' : i <= j =>
            /\ j + 1 \in DOMAIN writes /\ i + 1 <= j + 1 /\ writes'[j] = writes[j + 1]
      BY <1>1
    <3>4. QED
      BY <3>1, <3>2, <3>3
  <2>2. QED
    BY <1>1, <2>1 DEF SignedOK
<1>7. QED
  BY <1>2, <1>4, <1>5, <1>6 DEF MapInv

\* A write that lands acknowledges its own request's change.
LEMMA WriteKeepsMapInv == MapInv /\ Write => MapInv'
<1> SUFFICES ASSUME MapInv, Write PROVE MapInv'
  OBVIOUS
<1>1. /\ 1 \in DOMAIN writes
      /\ upstreamsFile' = writes[1].snapshot
      /\ Succeeds(writes[1].request, writes[1].snapshot[writes[1].request.service])
      /\ writes' = SubSeq(writes, 1, 1 - 1) \o SubSeq(writes, 1 + 1, Len(writes))
      /\ UNCHANGED <<sent, requests, handled, upstreams, lastSelfMapTs>>
  BY DEF Write, NextWrite
<1> DEFINE r == writes[1].request
           t == r.service
           change == writes[1].snapshot[t]
<1>2. r \in Request /\ t \in Service /\ change \in Change /\ Promised(1) = change.signed
  BY <1>1, WriteTyped DEF MapInv, Promised
<1>3. /\ acknowledged' \in [Service -> [change : Nat, delete : Nat, signed : Nat]]
      /\ \A s \in Service \ {t} : acknowledged'[s] = acknowledged[s]
      /\ acknowledged'[t].change \in {acknowledged[t].change, IF change.up THEN change.at ELSE 0}
      /\ acknowledged'[t].signed \in {acknowledged[t].signed, change.signed}
  BY <1>1, <1>2, SucceedsAcknowledges DEF MapInv
<1>4. ASSUME NEW s \in Service PROVE acknowledged'[s].change <= upstreamsFile'[s].at
  <2>1. /\ acknowledged[s].change <= upstreamsFile[s].at
        /\ upstreamsFile[s].at <= writes[1].snapshot[s].at
        /\ acknowledged[s].change \in Nat /\ upstreamsFile[s].at \in Nat
        /\ writes[1].snapshot[s].at \in Nat
    BY <1>1, WriteTyped DEF MapInv, AcknowledgedChangeSticks, LineOK, MapTypeOK, Snapshot, Change
  <2>2. acknowledged'[s].change = acknowledged[s].change
          \/ acknowledged'[s].change = writes[1].snapshot[s].at
          \/ acknowledged'[s].change = 0
    BY <1>3
  <2>3. upstreamsFile'[s] = writes[1].snapshot[s]
    BY <1>1
  <2>4. QED
    BY <2>1, <2>2, <2>3
<1>5. ASSUME NEW s \in Service
      PROVE  LET n == acknowledged'[s].signed IN
             /\ n <= lastSelfMapTs[s]
             /\ NotBefore(upstreamsFile'[s], n) /\ NotBefore(upstreams[s], n)
             /\ \A i \in DOMAIN writes : NotBefore(writes[i].snapshot[s], n)
  <2>1. CASE acknowledged'[s].signed = acknowledged[s].signed
    BY <1>1, <2>1 DEF MapInv, SignedOK
  <2>2. CASE s = t /\ acknowledged'[s].signed = Promised(1)
    <3>1. \A i \in DOMAIN writes : 1 <= i
      BY DEF MapInv, MapTypeOK
    <3>2. QED
      BY <1>1, <2>2, <3>1 DEF MapInv, SignedOK
  <2>3. QED
    BY <1>2, <1>3, <2>1, <2>2
<1>6. QED
  BY <1>1, <1>3, <1>4, <1>5, FirstWriteEnds

\* A write that fails acknowledges nothing.
LEMMA WriteFailsKeepsMapInv == MapInv /\ WriteFails => MapInv'
<1> SUFFICES ASSUME MapInv, WriteFails PROVE MapInv'
  OBVIOUS
<1>1. /\ 1 \in DOMAIN writes
      /\ writes' = SubSeq(writes, 1, 1 - 1) \o SubSeq(writes, 1 + 1, Len(writes))
      /\ UNCHANGED <<acknowledged, sent, requests, handled, upstreams, lastSelfMapTs, upstreamsFile>>
  BY DEF WriteFails, NextWrite, Fails
<1>2. \A s \in Service :
        /\ acknowledged[s].change <= upstreamsFile[s].at
        /\ acknowledged[s].signed <= lastSelfMapTs[s]
        /\ NotBefore(upstreamsFile[s], acknowledged[s].signed)
        /\ NotBefore(upstreams[s], acknowledged[s].signed)
        /\ \A i \in DOMAIN writes : NotBefore(writes[i].snapshot[s], acknowledged[s].signed)
  <2>1. \A s \in Service : acknowledged[s].change \in Nat /\ upstreamsFile[s].at \in Nat
    BY DEF MapInv, MapTypeOK, Snapshot, Change
  <2>2. QED
    BY <2>1 DEF MapInv, AcknowledgedChangeSticks, SignedOK
<1>3. acknowledged' \in [Service -> [change : Nat, delete : Nat, signed : Nat]]
  BY <1>1 DEF MapInv, MapTypeOK
<1>4. QED
  BY <1>1, <1>2, <1>3, FirstWriteEnds

\* A restart cuts the line after the file or after the first write, and forgets
\* which signatures it has accepted.
LEMMA RestartKeepsMapInv == MapInv /\ Restart => MapInv'
<1> SUFFICES ASSUME MapInv, Restart PROVE MapInv'
  OBVIOUS
<1>1. PICK kept \in {upstreamsFile} \cup {writes[i].snapshot : i \in NextWrite} :
        upstreamsFile' = kept /\ upstreams' = kept
  BY DEF Restart
<1>2. /\ writes' = <<>> /\ DOMAIN writes' = {}
      /\ lastSelfMapTs' = [s \in Service |-> 0]
      /\ acknowledged' = [s \in Service |-> [acknowledged[s] EXCEPT !.signed = 0]]
      /\ UNCHANGED <<sent, requests, handled>>
  BY DEF Restart
<1>3. kept = upstreamsFile \/ (1 \in DOMAIN writes /\ kept = writes[1].snapshot)
  BY <1>1 DEF NextWrite
<1>4. kept \in Snapshot
  BY <1>3, WriteTyped DEF MapInv, MapTypeOK
<1>5. \A s \in Service :
        /\ acknowledged[s] \in [change : Nat, delete : Nat, signed : Nat]
        /\ kept[s].at \in Nat /\ upstreamsFile[s].at \in Nat /\ upstreams[s].at \in Nat
        /\ kept[s].signed \in Nat
  BY <1>4 DEF MapInv, MapTypeOK, Snapshot, Change
<1>6. MapTypeOK'
  <2>1. acknowledged' \in [Service -> [change : Nat, delete : Nat, signed : Nat]]
    <3>1. \A s \in Service :
            [acknowledged[s] EXCEPT !.signed = 0] \in [change : Nat, delete : Nat, signed : Nat]
      BY <1>5
    <3>2. QED
      BY <1>2, <3>1
  <2>2. writes' \in Seq([request : Request, snapshot : Snapshot])
    BY <1>2
  <2>3. lastSelfMapTs' \in [Service -> Nat]
    BY <1>2
  <2>4. QED
    BY <1>1, <1>2, <1>4, <2>1, <2>2, <2>3 DEF MapInv, MapTypeOK
<1>7. \A s \in Service : upstreamsFile[s].at <= kept[s].at /\ kept[s].at <= upstreams[s].at
  BY <1>3, <1>5 DEF MapInv, LineOK
<1>8. LineOK'
  <2>1. \A s \in Service : kept[s].at <= handled
    BY <1>5, <1>7 DEF MapInv, MapTypeOK, LineOK
  <2>2. QED
    BY <1>1, <1>2, <1>5, <2>1 DEF LineOK
<1>9. AcknowledgedChangeSticks'
  BY <1>1, <1>2, <1>5, <1>7 DEF MapInv, AcknowledgedChangeSticks
<1>10. SignedOK'
  <2>1. \A s \in Service : acknowledged'[s].signed = 0 /\ lastSelfMapTs'[s] = 0
    BY <1>2, <1>5
  <2>2. QED
    BY <1>1, <1>2, <1>5, <2>1 DEF SignedOK, NotBefore
<1>11. QED
  BY <1>6, <1>8, <1>9, <1>10 DEF MapInv

\* What leaves the Map, the queue and the kept alone, and acknowledges no change,
\* keeps the invariant.
LEMMA StillMapKeepsMapInv ==
  ASSUME MapInv, UNCHANGED <<storeVars, upstreamsFile>>,
         sent' \in Nat, requests' \subseteq Request,
         acknowledged' \in [Service -> [change : Nat, delete : Nat, signed : Nat]],
         \A s \in Service : /\ acknowledged'[s].change = acknowledged[s].change
                            /\ acknowledged'[s].signed = acknowledged[s].signed
  PROVE  MapInv'
<1>1. MapTypeOK'
  BY DEF MapInv, MapTypeOK, storeVars
<1>2. LineOK' /\ AcknowledgedChangeSticks'
  BY DEF MapInv, LineOK, AcknowledgedChangeSticks, storeVars
<1>3. \A i \in DOMAIN writes : Promised(i)' = Promised(i)
  BY DEF Promised, storeVars
<1>4. SignedOK'
  BY <1>3 DEF MapInv, SignedOK, storeVars
<1>5. QED
  BY <1>1, <1>2, <1>4 DEF MapInv

\* Each of the routes, whatever it answers, keeps the invariant.
LEMMA HandleKeepsMapInv ==
  ASSUME MapInv, NEW r \in requests, Handle(r)
  PROVE  MapInv'
<1>1. /\ r \in Request /\ r.service \in Service /\ r.number \in Nat
      /\ requests' \subseteq requests /\ UNCHANGED <<sent, upstreamsFile>>
  BY DEF Handle, MapInv, MapTypeOK, Request
<1>2. /\ lastSelfMapTs \in [Service -> Nat] /\ handled \in Nat /\ sent \in Nat
      /\ acknowledged \in [Service -> [change : Nat, delete : Nat, signed : Nat]]
      /\ requests' \subseteq Request
  BY <1>1 DEF MapInv, MapTypeOK
<1>3. CASE SelfMap(r)
  <2> DEFINE change == [at |-> handled + 1, signed |-> r.number, up |-> TRUE]
  <2>1. /\ change \in Change /\ change.at = handled + 1 /\ change.signed = r.number
        /\ SetAndPersist(r, change) /\ r.number > lastSelfMapTs[r.service]
        /\ lastSelfMapTs' = [lastSelfMapTs EXCEPT ![r.service] = r.number]
        /\ UNCHANGED acknowledged
    BY <1>1, <1>2, <1>3 DEF SelfMap, Change
  <2> HIDE DEF change
  <2>2. /\ lastSelfMapTs' \in [Service -> Nat]
        /\ \A s \in Service : lastSelfMapTs'[s] >= lastSelfMapTs[s]
        /\ change.signed <= lastSelfMapTs'[r.service]
    BY <1>1, <1>2, <2>1
  <2>3. QED
    BY <1>1, <2>1, <2>2, SetAndPersistKeepsMapInv
<1>4. ASSUME NEW live \in BOOLEAN,
             SetAndPersist(r, [at |-> handled + 1, signed |-> 0, up |-> live]),
             UNCHANGED <<lastSelfMapTs, acknowledged>>
      PROVE  MapInv'
  <2> DEFINE change == [at |-> handled + 1, signed |-> 0, up |-> live]
  <2>1. /\ change \in Change /\ change.at = handled + 1 /\ change.signed = 0
        /\ SetAndPersist(r, change)
    BY <1>2, <1>4 DEF Change
  <2> HIDE DEF change
  <2>2. /\ lastSelfMapTs' \in [Service -> Nat]
        /\ \A s \in Service : lastSelfMapTs'[s] >= lastSelfMapTs[s]
        /\ change.signed <= lastSelfMapTs'[r.service]
    BY <1>1, <1>2, <1>4, <2>1
  <2>3. QED
    BY <1>1, <1>4, <2>1, <2>2, SetAndPersistKeepsMapInv
<1>5. CASE AdminMap(r)
  BY <1>4, <1>5 DEF AdminMap
<1>6. CASE RefuseSelfMap(r)
  <2>1. UNCHANGED <<storeVars, acknowledged>>
    BY <1>6 DEF RefuseSelfMap, Fails
  <2>2. QED
    BY <1>1, <1>2, <2>1, StillMapKeepsMapInv
<1>7. CASE Unmap(r) /\ upstreams[r.service].up
  BY <1>4, <1>7 DEF Unmap
<1>8. CASE Unmap(r) /\ ~upstreams[r.service].up
  <2> DEFINE change == [at |-> handled, signed |-> 0, up |-> FALSE]
  <2>1. /\ change \in Change /\ ~change.up /\ change.signed = 0
        /\ Succeeds(r, change) /\ UNCHANGED storeVars
    BY <1>2, <1>8 DEF Unmap, Change
  <2> HIDE DEF change
  <2>2. /\ acknowledged' \in [Service -> [change : Nat, delete : Nat, signed : Nat]]
        /\ \A s \in Service : /\ acknowledged'[s].change = acknowledged[s].change
                              /\ acknowledged'[s].signed = acknowledged[s].signed
    BY <1>1, <2>1, SucceedsAcknowledges DEF MapInv
  <2>3. QED
    BY <1>1, <1>2, <2>1, <2>2, StillMapKeepsMapInv
<1>9. QED
  BY <1>3, <1>5, <1>6, <1>7, <1>8 DEF Handle

\* Sellers and the operator only send requests.
LEMMA SellerKeepsMapInv ==
  ASSUME MapInv, NEW s \in Service,
         Register(s) \/ AskToMap(s) \/ AskAgain(s) \/ TimesOut(s)
  PROVE  MapInv'
<1>1. /\ sent \in Nat /\ requests \subseteq Request
      /\ acknowledged \in [Service -> [change : Nat, delete : Nat, signed : Nat]]
  BY DEF MapInv, MapTypeOK
<1>2. UNCHANGED <<storeVars, upstreamsFile, acknowledged>>
  BY DEF Register, AskToMap, AskAgain, TimesOut, Send
<1>3. ASSUME NEW kind \in {"signed", "admin", "delete"}, Send(kind, s)
      PROVE  sent' \in Nat /\ requests' \subseteq Request
  BY <1>1, <1>3 DEF Send, Request
<1>4. sent' \in Nat /\ requests' \subseteq Request
  BY <1>1, <1>3 DEF Register, AskToMap, AskAgain, TimesOut
<1>5. QED
  BY <1>1, <1>2, <1>4, StillMapKeepsMapInv

\* Every step keeps the invariant.
LEMMA NextMapInv == MapInv /\ [UpstreamNext]_upstreamVars => MapInv'
<1> SUFFICES ASSUME MapInv, [UpstreamNext]_upstreamVars PROVE MapInv'
  OBVIOUS
<1>1. CASE UNCHANGED upstreamVars
  <2>1. /\ sent \in Nat /\ requests \subseteq Request
        /\ acknowledged \in [Service -> [change : Nat, delete : Nat, signed : Nat]]
    BY DEF MapInv, MapTypeOK
  <2>2. QED
    BY <1>1, <2>1, StillMapKeepsMapInv DEF upstreamVars, sellerVars
<1>2. CASE UpstreamNext
  BY <1>2, SellerKeepsMapInv, HandleKeepsMapInv, WriteKeepsMapInv, WriteFailsKeepsMapInv,
     RestartKeepsMapInv DEF UpstreamNext
<1>3. QED
  BY <1>1, <1>2

-----------------------------------------------------------------------------
(***************************************************************************)
(* The theorems.                                                           *)
(***************************************************************************)

\* The invariant holds throughout, failed writes and restarts included.
THEOREM MapInvariant == UpstreamSpec => []MapInv
<1>1. UpstreamInit => MapInv
  BY InitMapInv
<1>2. MapInv /\ [UpstreamNext]_upstreamVars => MapInv'
  BY NextMapInv
<1>3. QED
  BY <1>1, <1>2, PTL DEF UpstreamSpec

\* A mapping answered 204 is on disk and is replaced by later changes only, for
\* any number of services, failures and restarts (persist of UpstreamStore).
THEOREM AcknowledgedMapsStick == UpstreamSpec => []AcknowledgedChangeSticks
BY MapInvariant, MapInvImplies, PTL

\* An older signed request never overtakes one that was answered, for any number
\* of sellers and delays (the timestamps of POST /services/:id/map).
THEOREM NewestSignatureWins == UpstreamSpec => []NewestSignedMapWins
BY MapInvariant, MapInvImplies, PTL

=============================================================================
