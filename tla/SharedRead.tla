----------------------------- MODULE SharedRead -----------------------------
(***************************************************************************)
(* Three reads a process shares among its callers: the service catalog of  *)
(* Live0gClient (servicesCache), its check of the chain's identity         *)
(* (identityChecked) and the price feed of the oracle (cache and inflight  *)
(* of FeedProvider).  Each keeps one pass, which the callers of a burst    *)
(* wait for together; they differ in how long a kept pass is fresh, in     *)
(* whether it can fail, and in who forgets it when it has.                 *)
(***************************************************************************)
EXTENDS Integers, Sequences, FiniteSets

CONSTANTS
  Caller,
  ReadTtl,    \* SERVICES_CACHE_TTL_MS or CACHE_TTL_MS, in ticks
  MaxPasses,  \* bound: passes ever started
  MaxWrites   \* bound: own writes settled

ASSUME SharedReadAssumption == ReadTtl \in Nat /\ MaxPasses \in Nat /\ MaxWrites \in Nat

VARIABLES
  memo,      \* which of the three this is
  slot,      \* the pass kept; 0 = none
  passes,    \* every pass: its age up to ReadTtl, its result, the own writes
             \* settled before it began, and who waits for it, first come first
  calledAt,  \* by caller, the own writes settled when it last called
  writes,    \* own writes settled
  reported   \* failed passes some caller has been told about

readVars == <<memo, slot, passes, calledAt, writes, reported>>

Memo == {"catalog", "identity", "feed"}

-----------------------------------------------------------------------------

Waits(k) == \E p \in DOMAIN passes : \E i \in DOMAIN passes[p].waiting : passes[p].waiting[i] = k

\* The catalog counts the age of a pass from its start, read or not.
CatalogFresh(pass) == pass.age < ReadTtl

\* The identity check is made once.
IdentityFresh(pass) == TRUE

\* Mutant of FeedFresh: only the cached feed is looked at.
FeedFreshOnceRead(pass) == pass.result = "read" /\ pass.age < ReadTtl

\* The feed is cached when its refresh ends; until then there is the refresh.
FeedFresh(pass) == pass.result = "running" \/ pass.age < ReadTtl

Kept ==
  /\ slot # 0
  /\ CASE memo = "catalog"  -> CatalogFresh(passes[slot])
       [] memo = "identity" -> IdentityFresh(passes[slot])
       [] memo = "feed"     -> FeedFresh(passes[slot])

Join(k) ==
  /\ ~Waits(k) /\ Kept
  /\ passes' = [passes EXCEPT ![slot].waiting = Append(@, k)]
  /\ calledAt' = [calledAt EXCEPT ![k] = writes]
  /\ UNCHANGED <<memo, slot, writes, reported>>

StartPass(k) ==
  /\ ~Waits(k) /\ ~Kept
  /\ Len(passes) < MaxPasses
  /\ passes' = Append(passes,
       [age |-> 0, result |-> "running", after |-> writes, waiting |-> <<k>>])
  /\ slot' = Len(passes) + 1
  /\ calledAt' = [calledAt EXCEPT ![k] = writes]
  /\ UNCHANGED <<memo, writes, reported>>

EndPass(p, result, age) ==
  /\ passes[p].result = "running"
  /\ passes' = [passes EXCEPT ![p].result = result, ![p].age = age]
  /\ UNCHANGED <<memo, slot, calledAt, writes, reported>>

\* A service that cannot be read is left out; none that can is a failure.
ReadServices(p) ==
  memo = "catalog" /\ \E result \in {"read", "failed"} : EndPass(p, result, passes[p].age)

\* The node's chain id and the code at the addresses are the configured ones.
CheckChainIdentity(p) ==
  memo = "identity" /\ \E result \in {"read", "failed"} : EndPass(p, result, passes[p].age)

\* A source that fails or times out is left out; with none, the fixture is the
\* feed: a refresh does not fail.
Refresh(p) == memo = "feed" /\ EndPass(p, "read", 0)

\* Mutant of Forgets: a failed pass stays where it is.
ForgetsNothing(p) == FALSE

\* The catalog's callers clear their own entry only, those of the identity check
\* whatever is there.
Forgets(p) == memo = "identity" \/ slot = p

\* The callers of a pass are resumed in the order in which they awaited it.
Resume(p) ==
  /\ passes[p].result # "running" /\ passes[p].waiting # <<>>
  /\ passes' = [passes EXCEPT ![p].waiting = Tail(@)]
  /\ IF passes[p].result = "failed"
       THEN /\ slot' = IF Forgets(p) THEN 0 ELSE slot
            /\ reported' = reported \cup {p}
       ELSE UNCHANGED <<slot, reported>>
  /\ UNCHANGED <<memo, calledAt, writes>>

\* Mutant of OwnWrite: the cache outlives the write.
OwnWriteKeepsCache ==
  /\ memo = "catalog" /\ writes < MaxWrites
  /\ writes' = writes + 1
  /\ UNCHANGED <<memo, slot, passes, calledAt, reported>>

\* registerService or setActive has settled and is about to return.
OwnWrite ==
  /\ memo = "catalog" /\ writes < MaxWrites
  /\ writes' = writes + 1
  /\ slot' = 0
  /\ UNCHANGED <<memo, passes, calledAt, reported>>

PassesAge ==
  /\ passes' = [p \in DOMAIN passes |->
       [passes[p] EXCEPT !.age = IF @ < ReadTtl THEN @ + 1 ELSE @]]
  /\ UNCHANGED <<memo, slot, calledAt, writes, reported>>

-----------------------------------------------------------------------------

ReadInit ==
  /\ memo \in Memo
  /\ slot = 0
  /\ passes = <<>>
  /\ calledAt = [k \in Caller |-> 0]
  /\ writes = 0
  /\ reported = {}

ReadNext ==
  \/ \E k \in Caller : Join(k) \/ StartPass(k)
  \/ \E p \in DOMAIN passes :
       ReadServices(p) \/ CheckChainIdentity(p) \/ Refresh(p) \/ Resume(p)
  \/ OwnWrite
  \/ PassesAge

ReadSpec == ReadInit /\ [][ReadNext]_readVars

-----------------------------------------------------------------------------

\* A caller that asks for the catalog after this client's own registration or
\* change has settled waits for a pass begun after it, never for one kept or
\* under way from before: wrap's own service is on the next list, and nobody is
\* invited to register it again (the resets of servicesCache).
OwnWriteIsRead ==
  \A p \in DOMAIN passes : \A i \in DOMAIN passes[p].waiting :
    passes[p].after >= calledAt[passes[p].waiting[i]]

\* Once a caller has been told that a pass failed, nobody joins that pass: a
\* transient failure is never kept, also when late waiters of one pass overlap
\* with the next (listServices and assertChainIdentity).
FailureIsNotKept == slot \notin reported

\* The oracle never refreshes twice at a time, whatever the order in which
\* requests, ends of refreshes and the age of the feed come (inflight).
OneRefreshAtATime ==
  memo = "feed" => Cardinality({p \in DOMAIN passes : passes[p].result = "running"}) <= 1

=============================================================================
