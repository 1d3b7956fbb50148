-------------------------- MODULE AttestationQueue ---------------------------
(***************************************************************************)
(* The gateway's durable queue of outcomes to record on chain: a Map and a *)
(* dead-letter log in memory, each mirrored to a file, an attempt loop per *)
(* payment, and the replay of what a crash or a deploy left behind.        *)
(*                                                                         *)
(* The registry is external: it takes an outcome, refuses it for good, or  *)
(* is out of reach, and a write it took may still look lost to the gateway.*)
(* The queue's key, the transaction, tells payments apart: a payer signs its *)
(* proof, so it is an account of its own and settles one invoice at a time.  *)
(***************************************************************************)
EXTENDS Integers, Sequences, FiniteSets

CONSTANTS
  Payment,         \* served and paid calls, by the transaction that settled them
  Doomed,          \* payments the registry refuses for good (SelfPayment, ...)
  MaxAttempts,     \* attestationMaxAttempts of one attempt loop
  MaxAge,          \* maxAgeMs
  MaxDeadLetters,  \* dead letters kept for inspection
  MaxBoots,        \* bound: restarts in a behaviour
  MaxTime          \* bound: the last instant of a behaviour

ASSUME DoomedAssumption == Doomed \subseteq Payment
ASSUME QueueAssumption ==
  /\ MaxAttempts \in Nat \ {0} /\ MaxAge \in Nat \ {0} /\ MaxDeadLetters \in Nat \ {0}
ASSUME QueueBoundAssumption == MaxBoots \in Nat /\ MaxTime \in Nat

VARIABLES
  now,
  boots,      \* restarts so far
  up,         \* the process is running
  items,      \* the Map, in insertion order; <<>> while down
  dead,       \* deadLetterLog and deadLetteredTotal
  diskItems,  \* the queue file
  diskDead,   \* its dead-letter sidecar
  loops,      \* attempt loops: the payment and the number of its next attempt
  enqueued,   \* history: payments whose enqueue came back
  refused,    \* history: payments the registry refused for good at least once
  attested    \* the registry's seenPayments

memory == <<items, dead, loops>>
disk == <<diskItems, diskDead>>
vars == <<now, boots, up, memory, disk, enqueued, refused, attested>>

NoDeadLetters == [log |-> <<>>, total |-> 0]

PaymentsIn(queue) == {queue[i].payment : i \in DOMAIN queue}

-----------------------------------------------------------------------------
(***************************************************************************)
(* The data structure.                                                     *)
(***************************************************************************)

\* Mutant of Expired: nothing grows too old.
ExpiredNever(entry) == FALSE

Expired(entry) == entry.enqueuedAt <= now - MaxAge

\* Map.set: a new key goes last, a known one keeps its place.
Put(queue, entry) ==
  LET same == {i \in DOMAIN queue : queue[i].payment = entry.payment}
  IN  IF same = {} THEN Append(queue, entry)
      ELSE [i \in DOMAIN queue |-> IF i \in same THEN entry ELSE queue[i]]

\* The entries at some places of a queue, in their order.
Only(queue, places) ==
  IF places = DOMAIN queue THEN queue
  ELSE [k \in 1 .. Cardinality(places) |->
          queue[CHOOSE i \in places : Cardinality({h \in places : h <= i}) = k]]

Without(queue, p) == Only(queue, {i \in DOMAIN queue : queue[i].payment # p})

\* pruneExpired: what stays, and the dead letters with the rest filed under them.
ExpiredPlaces(queue) == {i \in DOMAIN queue : Expired(queue[i])}

Unexpired(queue) == Only(queue, DOMAIN queue \ ExpiredPlaces(queue))

LastDeadLetters(log) ==
  SubSeq(log, IF Len(log) > MaxDeadLetters THEN Len(log) - MaxDeadLetters + 1 ELSE 1, Len(log))

WithExpired(letters, queue) ==
  LET old == Only(queue, ExpiredPlaces(queue))
  IN  [ log   |-> LastDeadLetters(letters.log \o old),
        total |-> letters.total + Len(old) ]

\* Mutant of LoadedTotal: the log alone is counted.
LoadedTotalFromLog(letters) == Len(letters.log)

\* deadLetteredTotal after load.
LoadedTotal(letters) ==
  IF Len(letters.log) > letters.total THEN Len(letters.log) ELSE letters.total

-----------------------------------------------------------------------------
(***************************************************************************)
(* The files.  A handler replaces both; the process may die between the    *)
(* two writes.                                                             *)
(***************************************************************************)

Dies == boots < MaxBoots /\ up' = FALSE /\ items' = <<>> /\ dead' = NoDeadLetters /\ loops' = {}

\* Mutant of TornPersist: the queue file is written first.
TornPersistQueueFirst(queue, letters) ==
  Dies /\ diskItems' = queue /\ UNCHANGED diskDead

TornPersist(queue, letters) ==
  Dies /\ diskDead' = letters /\ UNCHANGED diskItems

Persist(queue, letters) ==
  /\ items' = queue /\ dead' = letters
  /\ diskItems' = queue /\ diskDead' = letters

-----------------------------------------------------------------------------
(***************************************************************************)
(* The gateway.                                                            *)
(***************************************************************************)

\* scheduleAttestation: prune, enqueue, and only then the first attempt.
Schedule(p) ==
  LET entry == [payment |-> p, enqueuedAt |-> now]
      queue == Put(Unexpired(items), entry)
      letters == WithExpired(dead, items)
  IN
    /\ up
    /\ p \notin enqueued
    /\ now + MaxAge <= MaxTime  \* bound: the clock lets every entry expire
    /\ \/ /\ Persist(queue, letters)
          /\ up' = up
          /\ loops' = loops \cup {[payment |-> p, attempt |-> 1]}
          /\ enqueued' = enqueued \cup {p}
       \/ TornPersist(queue, letters) /\ UNCHANGED enqueued
    /\ UNCHANGED <<now, boots, refused, attested>>

\* An attempt that came back with an error: try again later or, after the last
\* one, leave the entry in the queue.
NextAttempt(loop) ==
  loops' = (loops \ {loop}) \cup
    IF loop.attempt < MaxAttempts THEN {[loop EXCEPT !.attempt = @ + 1]} ELSE {}

\* recordAttestation resolves: the outcome is on chain, now or from an earlier
\* attempt, and its entry is dropped.
AttemptConfirms(loop) ==
  LET queue == Without(items, loop.payment) IN
  /\ loop.payment \notin Doomed
  /\ attested' = attested \cup {loop.payment}
  /\ \/ Persist(queue, dead) /\ up' = up /\ loops' = loops \ {loop}
     \/ TornPersist(queue, dead)
  /\ UNCHANGED <<now, boots, enqueued, refused>>

\* The write landed but its receipt did not arrive in time.
AttemptLandsUnconfirmed(loop) ==
  /\ loop.payment \notin Doomed
  /\ attested' = attested \cup {loop.payment}
  /\ NextAttempt(loop)
  /\ UNCHANGED <<now, boots, up, items, dead, disk, enqueued, refused>>

\* The registry reverts for a reason no retry changes.
AttemptIsRefused(loop) ==
  /\ loop.payment \in Doomed
  /\ refused' = refused \cup {loop.payment}
  /\ NextAttempt(loop)
  /\ UNCHANGED <<now, boots, up, items, dead, disk, enqueued, attested>>

\* The node is out of reach.
AttemptFails(loop) ==
  /\ NextAttempt(loop)
  /\ UNCHANGED <<now, boots, up, items, dead, disk, enqueued, refused, attested>>

\* stats, for a poll of /metrics.
Prune ==
  /\ up
  /\ \E i \in DOMAIN items : Expired(items[i])
  /\ \/ Persist(Unexpired(items), WithExpired(dead, items)) /\ UNCHANGED <<up, loops>>
     \/ TornPersist(Unexpired(items), WithExpired(dead, items))
  /\ UNCHANGED <<now, boots, enqueued, refused, attested>>

Crash ==
  /\ up
  /\ Dies
  /\ UNCHANGED <<now, boots, disk, enqueued, refused, attested>>

\* load, then replayPendingAttestations: prune, and one loop per entry whose
\* service could be looked up.
Boot ==
  LET letters == [log |-> diskDead.log, total |-> LoadedTotal(diskDead)]
      queue == Unexpired(diskItems)
  IN
    /\ ~up
    /\ up' = TRUE
    /\ boots' = boots + 1
    /\ IF queue = diskItems
         THEN items' = diskItems /\ dead' = letters /\ UNCHANGED disk
         ELSE Persist(queue, WithExpired(letters, diskItems))
    /\ \E found \in SUBSET PaymentsIn(queue) :
         loops' = {[payment |-> p, attempt |-> 1] : p \in found}
    /\ UNCHANGED <<now, enqueued, refused, attested>>

Tick ==
  /\ now < MaxTime
  /\ now' = now + 1
  /\ UNCHANGED <<boots, up, memory, disk, enqueued, refused, attested>>

-----------------------------------------------------------------------------

Init ==
  /\ now = 0 /\ boots = 0 /\ up = TRUE
  /\ items = <<>> /\ dead = NoDeadLetters
  /\ diskItems = <<>> /\ diskDead = NoDeadLetters
  /\ loops = {} /\ enqueued = {} /\ refused = {} /\ attested = {}

Attempt(loop) ==
  \/ AttemptConfirms(loop)
  \/ AttemptLandsUnconfirmed(loop)
  \/ AttemptIsRefused(loop)
  \/ AttemptFails(loop)

Next ==
  \/ \E p \in Payment : Schedule(p)
  \/ \E loop \in loops : Attempt(loop)
  \/ Prune
  \/ Crash
  \/ Boot
  \/ Tick

Spec == Init /\ [][Next]_vars

\* Clocks advance, a stopped gateway is restarted by its supervisor and somebody
\* polls /metrics: pruning has no timer of its own.
PolledSpec == Spec /\ WF_vars(Tick) /\ WF_vars(Boot) /\ WF_vars(Prune)

-----------------------------------------------------------------------------
(***************************************************************************)
(* Properties.                                                             *)
(***************************************************************************)

Entry == [payment : Payment, enqueuedAt : 0 .. MaxTime]

\* Types; the Map has one entry per payment; and a running gateway's memory
\* is what a restart would read back.
TypeOK ==
  /\ now \in 0 .. MaxTime /\ boots \in 0 .. MaxBoots /\ up \in BOOLEAN
  /\ diskItems \in Seq(Entry)
  /\ Len(diskItems) = Cardinality(PaymentsIn(diskItems))
  /\ diskDead.log \in Seq(Entry) /\ diskDead.total \in Nat
  /\ Len(diskDead.log) <= MaxDeadLetters
  /\ loops \subseteq [payment : Payment, attempt : 1 .. MaxAttempts]
  /\ enqueued \subseteq Payment /\ refused \subseteq Doomed /\ attested \subseteq Payment
  /\ IF up THEN items = diskItems /\ dead = diskDead
           ELSE memory = <<<<>>, NoDeadLetters, {}>>

\* Once scheduleAttestation has enqueued a payment, whatever crashes when, it is
\* on chain, in the queue file, or among the dead letters an operator can count.
NoQueuedPaymentIsLost ==
  Cardinality(enqueued \ (attested \cup PaymentsIn(diskItems))) <= diskDead.total

\* The number of abandoned attestations an operator alerts on only grows, across
\* restarts and however few letters are kept.
AbandonedCountOnlyGrows == [][diskDead.total' >= diskDead.total]_diskDead

\* No entry sits in the queue file for ever, even one nobody retries any more.
EveryEntryLeavesTheQueue ==
  \A p \in Payment : p \in PaymentsIn(diskItems) ~> p \notin PaymentsIn(diskItems)

\* As attestation-queue.ts says, an entry that fails terminally even once is
\* moved to the dead letters, out of the live queue.
TerminalFailureLeavesTheQueue ==
  \A p \in refused : p \notin PaymentsIn(items)

=============================================================================
