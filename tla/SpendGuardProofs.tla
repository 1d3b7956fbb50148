-------------------------- MODULE SpendGuardProofs --------------------------
(***************************************************************************)
(* Proofs about SpendGuard, for any accounts, services, configurations and *)
(* bounds.  A call that reverts puts back a world from the stack of        *)
(* frames, so the invariant is a predicate of one world, which the current *)
(* one and all those to return to satisfy.                                 *)
(***************************************************************************)
EXTENDS SpendGuard, Sums

(***************************************************************************)
(* The rate ring.  `at` gives the time of each entry of the ledger, debits *)
(* the entries of one policy.                                              *)
(***************************************************************************)

\* Where the k-th oldest of the ring's n entries is.
Slot(n, cursor, cap, k) ==
  IF n < cap THEN k ELSE IF cursor + k <= cap THEN cursor + k ELSE cursor + k - cap

RingShape(times, cursor, cap) ==
  /\ times \in Seq(Nat) /\ cursor \in Nat /\ cap \in Nat
  /\ Len(times) <= cap
  /\ Len(times) < cap => cursor = Len(times)
  /\ cap > 0 => cursor < cap

\* e lists, oldest first, the debits the ring remembers: its slots hold their
\* times, and the debits it has forgotten are all older.
Newest(times, cursor, cap, at, debits, e) ==
  LET n == Len(times)
  IN  /\ e \in [1 .. n -> debits]
      /\ \A j, k \in 1 .. n : j < k => e[j] < e[k]
      /\ \A k \in 1 .. n : times[Slot(n, cursor, cap, k)] = at[e[k]]
      /\ \A i \in debits : (\A k \in 1 .. n : i # e[k]) => n = cap /\ (n > 0 => i < e[1])

RingOK(times, cursor, cap, at, debits) ==
  /\ RingShape(times, cursor, cap)
  /\ \E e : Newest(times, cursor, cap, at, debits, e)

\* The debits of a window that ends at t.
Recent(debits, at, t, window) == {i \in debits : t - at[i] < window}

\* The ring and its cursor after a debit at t.
RingWith(times, cursor, cap, t) ==
  IF Len(times) < cap THEN Append(times, t) ELSE [times EXCEPT ![cursor + 1] = t]

CursorAfter(cursor, cap) == (cursor + 1) % cap

\* The cursor goes round.
LEMMA NextSlot ==
  ASSUME NEW cap \in Nat, NEW cursor \in Nat, cursor < cap
  PROVE  CursorAfter(cursor, cap) = IF cursor + 1 = cap THEN 0 ELSE cursor + 1
<1>1. CASE cursor + 1 = cap
  <2>1. cap % cap = 0
    OBVIOUS
  <2>2. QED
    BY <1>1, <2>1 DEF CursorAfter
<1>2. CASE cursor + 1 < cap
  <2>1. \A x \in Nat : x < cap => x % cap = x
    OBVIOUS
  <2>2. QED
    BY <1>2, <2>1 DEF CursorAfter
<1>3. QED
  BY <1>1, <1>2

\* A ring of nothing, whatever its cap.
LEMMA RingEmpty ==
  ASSUME NEW cap \in Nat, NEW at
  PROVE  RingOK(<<>>, 0, cap, at, {})
<1>1. RingShape(<<>>, 0, cap)
  BY DEF RingShape
<1>2. Newest(<<>>, 0, cap, at, {}, <<>>)
  BY DEF Newest
<1>3. QED
  BY <1>1, <1>2 DEF RingOK

\* Debits of other policies leave a ring alone.
LEMMA RingKept ==
  ASSUME NEW times, NEW cursor, NEW cap, NEW at, NEW debits, NEW at2,
         RingOK(times, cursor, cap, at, debits), \A i \in debits : at2[i] = at[i]
  PROVE  RingOK(times, cursor, cap, at2, debits)
<1>1. PICK e : Newest(times, cursor, cap, at, debits, e)
  BY DEF RingOK
<1>2. Newest(times, cursor, cap, at2, debits, e)
  BY <1>1 DEF Newest
<1>3. QED
  BY <1>2 DEF RingOK

\* A ring that is not full takes one entry more.
LEMMA RingGrows ==
  ASSUME NEW times, NEW cursor, NEW cap, NEW at, NEW debits \in SUBSET Nat, NEW at2,
         RingOK(times, cursor, cap, at, debits), Len(times) < cap,
         NEW new \in Nat, \A i \in debits : i < new /\ at2[i] = at[i],
         NEW t \in Nat, at2[new] = t,
         NEW after, after = Append(times, t), NEW next, next = CursorAfter(cursor, cap)
  PROVE  RingOK(after, next, cap, at2, debits \cup {new})
<1> DEFINE n == Len(times)
<1>1. /\ times \in Seq(Nat) /\ cursor = n /\ n \in Nat /\ cap \in Nat /\ n < cap
      /\ after \in Seq(Nat) /\ Len(after) = n + 1 /\ after[n + 1] = t
      /\ \A k \in 1 .. n : after[k] = times[k]
  BY DEF RingOK, RingShape
<1>2. next = IF n + 1 = cap THEN 0 ELSE n + 1
  BY <1>1, NextSlot
<1>3. PICK e : Newest(times, cursor, cap, at, debits, e)
  BY DEF RingOK
<1>4. /\ e \in [1 .. n -> debits]
      /\ \A j, k \in 1 .. n : j < k => e[j] < e[k]
      /\ \A k \in 1 .. n : times[k] = at[e[k]]
      /\ \A i \in debits : \E k \in 1 .. n : i = e[k]
  <2>1. \A k \in 1 .. n : Slot(n, cursor, cap, k) = k
    BY <1>1 DEF Slot
  <2>2. /\ e \in [1 .. n -> debits]
        /\ \A j, k \in 1 .. n : j < k => e[j] < e[k]
        /\ \A k \in 1 .. n : times[Slot(n, cursor, cap, k)] = at[e[k]]
        /\ \A i \in debits : (\A k \in 1 .. n : i # e[k]) => n = cap
    BY <1>3 DEF Newest
  <2>3. n # cap
    BY <1>1
  <2> HIDE DEF n
  <2>4. QED
    BY <2>1, <2>2, <2>3
<1>5. Len(after) = n + 1
  BY <1>1
<1> HIDE DEF n
<1> DEFINE f == [k \in 1 .. n + 1 |-> IF k = n + 1 THEN new ELSE e[k]]
<1>6. \A k \in 1 .. n + 1 : k = n + 1 \/ k \in 1 .. n
  BY <1>1
<1>7. \A k \in 1 .. n : k \in 1 .. n + 1 /\ k # n + 1
  BY <1>1
<1>8. /\ \A k \in 1 .. n : f[k] = e[k] /\ e[k] \in debits
      /\ f[n + 1] = new /\ f \in [1 .. n + 1 -> debits \cup {new}]
  BY <1>1, <1>4, <1>6, <1>7
<1> HIDE DEF f
<1>9. \A j, k \in 1 .. n + 1 : j < k => f[j] < f[k]
  <2> SUFFICES ASSUME NEW j \in 1 .. n + 1, NEW k \in 1 .. n + 1, j < k PROVE f[j] < f[k]
    OBVIOUS
  <2>1. j \in 1 .. n
    BY <1>1
  <2>2. CASE k = n + 1
    BY <1>8, <2>1, <2>2
  <2>3. CASE k \in 1 .. n
    BY <1>4, <1>8, <2>1, <2>3
  <2>4. QED
    BY <1>6, <2>2, <2>3
<1>10. ASSUME NEW k \in 1 .. n + 1 PROVE after[Slot(n + 1, next, cap, k)] = at2[f[k]]
  <2>1. Slot(n + 1, next, cap, k) = k
    BY <1>1, <1>2 DEF Slot
  <2>2. CASE k = n + 1
    BY <1>1, <1>8, <2>1, <2>2
  <2>3. CASE k \in 1 .. n
    <3>1. after[k] = times[k] /\ times[k] = at[e[k]] /\ f[k] = e[k] /\ e[k] \in debits
      BY <1>1, <1>4, <1>8, <2>3
    <3>2. at2[e[k]] = at[e[k]]
      BY <3>1
    <3>3. QED
      BY <2>1, <3>1, <3>2
  <2>4. QED
    BY <1>6, <2>2, <2>3
<1>11. ASSUME NEW i \in debits \cup {new} PROVE \E k \in 1 .. n + 1 : i = f[k]
  <2>1. CASE i = new
    BY <1>1, <1>8, <2>1
  <2>2. CASE i \in debits
    BY <1>4, <1>7, <1>8, <2>2
  <2>3. QED
    BY <2>1, <2>2
<1>12. Newest(after, next, cap, at2, debits \cup {new}, f)
  BY ONLY <1>5, <1>8, <1>9, <1>10, <1>11 DEF Newest
<1>13. RingShape(after, next, cap)
  BY <1>1, <1>2 DEF RingShape
<1>14. QED
  BY <1>12, <1>13 DEF RingOK

\* A full ring gives its oldest entry's slot to the new one.
LEMMA RingTurns ==
  ASSUME NEW times, NEW cursor, NEW cap, NEW at, NEW debits \in SUBSET Nat, NEW at2,
         RingOK(times, cursor, cap, at, debits), Len(times) = cap, cap > 0,
         NEW new \in Nat, \A i \in debits : i < new /\ at2[i] = at[i],
         NEW t \in Nat, at2[new] = t,
         NEW after, after = [times EXCEPT ![cursor + 1] = t],
         NEW next, next = CursorAfter(cursor, cap)
  PROVE  RingOK(after, next, cap, at2, debits \cup {new})
<1>1. /\ times \in Seq(Nat) /\ cursor \in Nat /\ cap \in Nat /\ cursor < cap
      /\ after \in Seq(Nat) /\ Len(after) = cap /\ after[cursor + 1] = t
      /\ \A k \in 1 .. cap : k # cursor + 1 => after[k] = times[k]
  BY DEF RingOK, RingShape
<1>2. next = IF cursor + 1 = cap THEN 0 ELSE cursor + 1
  BY <1>1, NextSlot
<1>3. PICK e : Newest(times, cursor, cap, at, debits, e)
  BY DEF RingOK
<1> DEFINE f == [k \in 1 .. cap |-> IF k = cap THEN new ELSE e[k + 1]]
<1>4. \A k \in 1 .. cap : k # cap => k + 1 \in 1 .. cap /\ k \in 1 .. cap
  BY <1>1
<1>5. /\ \A k \in 1 .. cap : e[k] \in debits
      /\ \A k \in 1 .. cap : k # cap => f[k] = e[k + 1] /\ f[k] \in debits
      /\ f[cap] = new /\ f \in [1 .. cap -> debits \cup {new}]
  BY <1>1, <1>3, <1>4 DEF Newest
<1> HIDE DEF f
<1>6. \A j, k \in 1 .. cap : j < k => f[j] < f[k]
  <2> SUFFICES ASSUME NEW j \in 1 .. cap, NEW k \in 1 .. cap, j < k PROVE f[j] < f[k]
    OBVIOUS
  <2>1. j # cap
    BY <1>1
  <2>2. CASE k = cap
    BY <1>5, <2>1, <2>2
  <2>3. CASE k # cap
    <3>1. j + 1 < k + 1
      BY <1>1
    <3>2. e[j + 1] < e[k + 1]
      BY <1>1, <1>3, <1>4, <2>1, <2>3, <3>1 DEF Newest
    <3>3. QED
      BY <1>5, <2>1, <2>3, <3>2
  <2>4. QED
    BY <2>2, <2>3
<1>7. ASSUME NEW k \in 1 .. cap PROVE after[Slot(cap, next, cap, k)] = at2[f[k]]
  <2>1. CASE k = cap
    <3>1. Slot(cap, next, cap, k) = cursor + 1
      BY <1>1, <1>2, <2>1 DEF Slot
    <3>2. QED
      BY <1>1, <1>5, <2>1, <3>1
  <2>2. CASE k # cap
    <3>1. /\ Slot(cap, next, cap, k) = Slot(cap, cursor, cap, k + 1)
          /\ Slot(cap, next, cap, k) \in 1 .. cap /\ Slot(cap, next, cap, k) # cursor + 1
      BY <1>1, <1>2, <2>2 DEF Slot
    <3>2. times[Slot(cap, cursor, cap, k + 1)] = at[e[k + 1]]
      BY <1>3, <1>4, <2>2 DEF Newest
    <3>3. QED
      BY <1>1, <1>5, <2>2, <3>1, <3>2
  <2>3. QED
    BY <2>1, <2>2
<1>8. ASSUME NEW i \in debits \cup {new}, \A k \in 1 .. cap : i # f[k] PROVE i < f[1]
  <2>1. i \in debits /\ 1 \in 1 .. cap /\ cap \in 1 .. cap
    BY <1>1, <1>5, <1>8
  <2>2. \A k \in 1 .. cap : k # 1 => i # e[k]
    <3> SUFFICES ASSUME NEW k \in 1 .. cap, k # 1 PROVE i # e[k]
      OBVIOUS
    <3>1. k - 1 \in 1 .. cap /\ k - 1 # cap /\ (k - 1) + 1 = k
      BY <1>1
    <3>2. QED
      BY <1>5, <1>8, <3>1
  <2>3. i = e[1] \/ i < e[1]
    BY <1>3, <2>1, <2>2 DEF Newest
  <2>4. CASE cap = 1
    BY <1>5, <2>1, <2>4
  <2>5. CASE cap # 1
    <3>1. 2 \in 1 .. cap /\ 1 < 2 /\ 1 + 1 = 2
      BY <1>1, <2>5
    <3>2. e[1] < e[2] /\ f[1] = e[2] /\ e[1] \in Nat /\ e[2] \in Nat /\ i \in Nat
      BY <1>3, <1>5, <2>1, <2>5, <3>1 DEF Newest
    <3>3. QED
      BY <2>3, <3>2
  <2>6. QED
    BY <2>4, <2>5
<1>9. Newest(after, next, cap, at2, debits \cup {new}, f)
  BY <1>1, <1>5, <1>6, <1>7, <1>8 DEF Newest
<1>10. RingShape(after, next, cap)
  BY <1>1, <1>2 DEF RingShape
<1>11. QED
  BY <1>9, <1>10 DEF RingOK

\* Full or not, the ring takes the time of a debit.
LEMMA RingTakes ==
  ASSUME NEW times, NEW cursor, NEW cap, NEW at, NEW debits \in SUBSET Nat, NEW at2,
         RingOK(times, cursor, cap, at, debits), cap > 0,
         NEW new \in Nat, \A i \in debits : i < new /\ at2[i] = at[i],
         NEW t \in Nat, at2[new] = t
  PROVE  RingOK(RingWith(times, cursor, cap, t), CursorAfter(cursor, cap), cap, at2,
                debits \cup {new})
<1>1. Len(times) <= cap /\ Len(times) \in Nat /\ cap \in Nat
  BY DEF RingOK, RingShape
<1>2. CASE Len(times) < cap
  <2>1. RingWith(times, cursor, cap, t) = Append(times, t)
    BY <1>2 DEF RingWith
  <2>2. QED
    BY <1>2, <2>1, RingGrows
<1>3. CASE Len(times) = cap
  <2> DEFINE after == RingWith(times, cursor, cap, t)
             next == CursorAfter(cursor, cap)
  <2>1. after = [times EXCEPT ![cursor + 1] = t] /\ next = CursorAfter(cursor, cap)
    BY <1>1, <1>3 DEF RingWith
  <2> HIDE DEF after, next
  <2>2. RingOK(after, next, cap, at2, debits \cup {new})
    BY <1>3, <2>1, RingTurns
  <2>3. QED
    BY <2>2 DEF after, next
<1>4. QED
  BY <1>1, <1>2, <1>3

\* The one slot a debit reads tells whether the window is full.
LEMMA RingExact ==
  ASSUME NEW times, NEW cursor, NEW cap \in Nat, NEW at, NEW debits \in SUBSET Nat,
         RingOK(times, cursor, cap, at, debits), cap > 0, IsFiniteSet(debits),
         NEW t \in Nat, \A i \in debits : at[i] \in Nat,
         \A i, j \in debits : i <= j => at[i] <= at[j], NEW window \in Nat
  PROVE  Len(times) = cap /\ t - times[cursor + 1] < window
           <=> Cardinality(Recent(debits, at, t, window)) >= cap
<1> DEFINE n == Len(times)
           recent == Recent(debits, at, t, window)
<1>0. \A i : i \in recent <=> i \in debits /\ t - at[i] < window
  BY DEF Recent
<1> HIDE DEF recent
<1>1. PICK e : Newest(times, cursor, cap, at, debits, e)
  BY DEF RingOK
<1> DEFINE kept == {e[k] : k \in 1 .. n}
<1>2. n \in Nat /\ n <= cap /\ cursor \in Nat /\ cursor < cap
  BY DEF RingOK, RingShape
<1>3. e \in [1 .. n -> debits] /\ kept \subseteq debits /\ e \in [1 .. n -> kept]
  BY <1>1 DEF Newest
<1>4. IsFiniteSet(1 .. n) /\ Cardinality(1 .. n) = n
  BY <1>2, CountTo
<1>12. \A k \in 1 .. n : e[k] \in debits /\ e[k] \in Nat /\ at[e[k]] \in Nat
  BY <1>3
<1>5. IsFiniteSet(recent) /\ Cardinality(recent) \in Nat
  BY <1>0, FS_Subset, FS_CardinalityType
<1>6. IsFiniteSet(kept) /\ Cardinality(kept) <= n /\ Cardinality(kept) \in Nat
  <2>1. e \in Surjection(1 .. n, kept)
    BY <1>3 DEF Surjection
  <2> HIDE DEF kept
  <2>2. QED
    BY <1>4, <2>1, FS_Surjection, FS_CardinalityType
<1>7. n = cap => 1 \in 1 .. n /\ times[cursor + 1] = at[e[1]] /\ e[1] \in debits
  <2>1. n = cap => 1 \in 1 .. n /\ Slot(n, cursor, cap, 1) = cursor + 1
    BY <1>2 DEF Slot
  <2>2. QED
    BY <1>1, <2>1 DEF Newest
<1>8. ASSUME n = cap, t - times[cursor + 1] < window PROVE Cardinality(recent) >= cap
  <2>1. \A k \in 1 .. n : e[k] \in recent
    <3> SUFFICES ASSUME NEW k \in 1 .. n PROVE e[k] \in recent
      OBVIOUS
    <3>1. 1 \in 1 .. n /\ (k = 1 \/ 1 < k)
      BY <1>7, <1>8
    <3>2. k = 1 \/ e[1] < e[k]
      BY <1>1, <3>1 DEF Newest
    <3>3. e[1] <= e[k] /\ e[k] \in debits /\ e[1] \in debits
      BY <1>12, <3>1, <3>2
    <3>4. at[e[1]] <= at[e[k]]
      BY <3>3
    <3>5. t - at[e[1]] < window /\ at[e[1]] \in Nat /\ at[e[k]] \in Nat
      BY <1>7, <1>8, <1>12, <3>1
    <3>6. t - at[e[k]] < window
      <4> DEFINE a == at[e[1]]
                 b == at[e[k]]
      <4>1. t - a < window /\ a \in Nat /\ b \in Nat /\ a <= b
        BY <3>4, <3>5
      <4> HIDE DEF a, b
      <4>2. t - b < window
        BY <4>1
      <4>3. QED
        BY <4>2 DEF b
    <3>7. QED
      BY <1>0, <3>3, <3>6
  <2>2. e \in Injection(1 .. n, recent)
    <3>1. e \in [1 .. n -> recent]
      BY <1>3, <2>1
    <3>2. \A j, k \in 1 .. n : e[j] = e[k] => j = k
      <4> SUFFICES ASSUME NEW j \in 1 .. n, NEW k \in 1 .. n, j # k PROVE e[j] # e[k]
        OBVIOUS
      <4>1. e[j] \in Nat /\ e[k] \in Nat /\ (j < k \/ k < j)
        BY <1>2, <1>12
      <4>2. e[j] < e[k] \/ e[k] < e[j]
        BY <1>1, <4>1 DEF Newest
      <4>3. QED
        BY <4>1, <4>2
    <3>3. QED
      BY <3>1, <3>2 DEF Injection, IsInjective
  <2>3. QED
    BY <1>2, <1>4, <1>5, <1>8, <2>2, FS_Injection
<1>9. ASSUME n # cap PROVE Cardinality(recent) < cap
  <2>1. debits \subseteq kept
    BY <1>1, <1>9 DEF Newest
  <2>2. recent \subseteq kept
    BY <1>0, <2>1
  <2> HIDE DEF kept
  <2>3. Cardinality(recent) <= Cardinality(kept)
    BY <1>6, <2>2, FS_Subset
  <2>4. QED
    BY <1>2, <1>5, <1>6, <1>9, <2>3
<1>10. ASSUME n = cap, ~(t - times[cursor + 1] < window) PROVE Cardinality(recent) < cap
  <2>1. recent \subseteq kept \ {e[1]}
    <3> SUFFICES ASSUME NEW i \in recent PROVE i \in kept \ {e[1]}
      OBVIOUS
    <3>1. i \in debits /\ t - at[i] < window /\ e[1] \in debits
      BY <1>7, <1>10, <1>0
    <3>2. ~(at[i] <= at[e[1]])
      <4> DEFINE a == at[i]
                 b == at[e[1]]
      <4>1. t - a < window /\ ~(t - b < window) /\ a \in Nat /\ b \in Nat
        BY <1>7, <1>10, <3>1
      <4> HIDE DEF a, b
      <4>2. ~(a <= b)
        BY <4>1
      <4>3. QED
        BY <4>2 DEF a, b
    <3>3. ~(i <= e[1])
      BY <3>1, <3>2
    <3>4. ~(i < e[1]) /\ i # e[1]
      <4> DEFINE b == e[1]
      <4>1. i \in Nat /\ b \in Nat /\ ~(i <= b)
        BY <3>1, <3>3
      <4> HIDE DEF b
      <4>2. ~(i < b) /\ i # b
        BY <4>1
      <4>3. QED
        BY <4>2 DEF b
    <3>5. \E k \in 1 .. n : i = e[k]
      BY <1>1, <1>2, <3>1, <3>4 DEF Newest
    <3>6. QED
      BY <3>4, <3>5
  <2>2. e[1] \in kept
    BY <1>7, <1>10
  <2> HIDE DEF kept
  <2>3. /\ IsFiniteSet(kept \ {e[1]})
        /\ Cardinality(kept \ {e[1]}) = Cardinality(kept) - 1
    BY <1>6, <2>2, FS_RemoveElement
  <2>4. Cardinality(recent) <= Cardinality(kept) - 1
    BY <2>1, <2>3, FS_Subset
  <2>5. QED
    BY <1>2, <1>5, <1>6, <2>4
<1>11. QED
  BY <1>5, <1>8, <1>9, <1>10 DEF recent

-----------------------------------------------------------------------------
(***************************************************************************)
(* The invariant.                                                          *)
(***************************************************************************)

Policy ==
  [ owner : Account \cup {NoOne}, gate : Account \cup {NoOne},
    budget : Nat, spent : Nat, balance : Nat, perCallCap : Nat, window : Nat,
    maxCallsInWindow : Nat, minTrustTier : Nat, paused : BOOLEAN ]

Debited ==
  [ policy : PolicyId, service : ServiceId, nonce : Nonce, payTo : Account,
    amount : Nat, at : Nat ]

DebitsIn(w, id) == {i \in DOMAIN w.ledger : w.ledger[i].policy = id}
TimesIn(w) == [i \in DOMAIN w.ledger |-> w.ledger[i].at]
AmountsIn(w, id) == [i \in DebitsIn(w, id) |-> w.ledger[i].amount]
BalancesIn(w) == [id \in PolicyId |-> w.policies[id].balance]

WorldShape(w) ==
  w = [ policiesCount |-> w.policiesCount, policies |-> w.policies,
        serviceAllowed |-> w.serviceAllowed, seenRefs |-> w.seenRefs,
        settled |-> w.settled, callTimes |-> w.callTimes, ringCursor |-> w.ringCursor,
        held |-> w.held, deposited |-> w.deposited, ledger |-> w.ledger,
        terms |-> w.terms ]

\* Policies are opened in order, with rates that mean something; the slots of
\* the others are blank.
PoliciesOK(w) ==
  /\ w.policies \in [PolicyId -> Policy]
  /\ w.policiesCount \in 0 .. MaxPolicies
  /\ \A id \in PolicyId :
       IF id <= w.policiesCount
         THEN /\ w.policies[id].owner # NoOne
              /\ w.policies[id].maxCallsInWindow > 0 /\ w.policies[id].window > 0
         ELSE /\ w.policies[id] = NoPolicy /\ DebitsIn(w, id) = {}
              /\ w.callTimes[id] = <<>> /\ w.ringCursor[id] = 0

\* The router's settlements and the approved debits match one to one.
BooksOK(w) ==
  /\ w.ledger \in Seq(Debited)
  /\ IsFiniteSet(w.settled) /\ Cardinality(w.settled) = Len(w.ledger)
  /\ \A i \in DOMAIN w.ledger :
       LET d == w.ledger[i]
       IN  /\ <<d.service, d.nonce, d.payTo>> \in w.settled
           /\ <<d.policy, d.service, d.nonce>> \in w.seenRefs

\* Debits are in order of time, none in the future.
TimesOK(w, t) ==
  \A i, j \in DOMAIN w.ledger :
    w.ledger[i].at <= t /\ (i <= j => w.ledger[i].at <= w.ledger[j].at)

\* The escrow is the balances; spent is the debits, within the budget.
MoneyOK(w) ==
  /\ w.held = SumFunction(BalancesIn(w))
  /\ \A id \in PolicyId :
       /\ w.policies[id].spent <= w.policies[id].budget
       /\ w.policies[id].spent = SumFunction(AmountsIn(w, id))

\* Every policy's ring remembers its newest debits.
RingsOK(w) ==
  /\ w.callTimes = [id \in PolicyId |-> w.callTimes[id]]
  /\ w.ringCursor = [id \in PolicyId |-> w.ringCursor[id]]
  /\ \A id \in PolicyId :
       RingOK(w.callTimes[id], w.ringCursor[id], w.policies[id].maxCallsInWindow,
              TimesIn(w), DebitsIn(w, id))

\* The debits of a policy in the window that ends with its debit `last`.
Burst(w, id, last) ==
  {i \in DebitsIn(w, id) :
     /\ w.ledger[i].at <= w.ledger[last].at
     /\ w.ledger[last].at - w.ledger[i].at < w.policies[id].window}

\* No window was ever overfull.
RatesOK(w) ==
  \A id \in PolicyId : \A last \in DebitsIn(w, id) :
    Cardinality(Burst(w, id, last)) <= w.policies[id].maxCallsInWindow

WorldOK(w, t) ==
  /\ WorldShape(w) /\ PoliciesOK(w) /\ BooksOK(w) /\ TimesOK(w, t)
  /\ MoneyOK(w) /\ RingsOK(w) /\ RatesOK(w)

FramesOK ==
  /\ \E S : frames \in Seq(S)
  /\ Len(frames) <= MaxDepth
  /\ \A i \in DOMAIN frames : WorldOK(frames[i], now)

GuardInv == now \in 0 .. MaxTime /\ WorldOK(world, now) /\ FramesOK

-----------------------------------------------------------------------------
(***************************************************************************)
(* What the invariant says.                                                *)
(***************************************************************************)

\* Debits are entries of the ledger: finitely many numbers.
LEMMA DebitsTyped ==
  ASSUME NEW w, BooksOK(w), NEW id
  PROVE  /\ DebitsIn(w, id) \in SUBSET Nat /\ IsFiniteSet(DebitsIn(w, id))
         /\ DebitsIn(w, id) \subseteq DOMAIN w.ledger
         /\ DOMAIN w.ledger = 1 .. Len(w.ledger) /\ Len(w.ledger) \in Nat
         /\ \A i \in DOMAIN w.ledger :
              w.ledger[i] \in Debited /\ w.ledger[i].at \in Nat /\ w.ledger[i].amount \in Nat
<1>1. /\ DOMAIN w.ledger = 1 .. Len(w.ledger) /\ Len(w.ledger) \in Nat
      /\ \A i \in DOMAIN w.ledger : w.ledger[i] \in Debited
  BY DEF BooksOK
<1>2. \A i \in DOMAIN w.ledger : w.ledger[i].at \in Nat /\ w.ledger[i].amount \in Nat
  BY <1>1 DEF Debited
<1>3. DebitsIn(w, id) \subseteq DOMAIN w.ledger
  BY DEF DebitsIn
<1>4. IsFiniteSet(DOMAIN w.ledger) /\ DOMAIN w.ledger \subseteq Nat
  BY <1>1, CountTo
<1>5. IsFiniteSet(DebitsIn(w, id))
  BY <1>3, <1>4, FS_Subset
<1>6. QED
  BY <1>1, <1>2, <1>3, <1>4, <1>5

\* The ring's one read answers the rate rule.
LEMMA RateExact ==
  ASSUME NEW t \in Nat, NEW w, WorldOK(w, t), NEW id \in PolicyId, id <= w.policiesCount
  PROVE  LET p == w.policies[id]
             times == w.callTimes[id]
         IN  /\ Len(times) = p.maxCallsInWindow
             /\ t - times[w.ringCursor[id] + 1] < p.window
             <=> Cardinality(Recent(DebitsIn(w, id), TimesIn(w), t, p.window))
                   >= p.maxCallsInWindow
<1> DEFINE p == w.policies[id]
           at == TimesIn(w)
<1>1. p \in Policy /\ p.maxCallsInWindow > 0
  BY DEF WorldOK, PoliciesOK
<1>2. p.maxCallsInWindow \in Nat /\ p.window \in Nat
  BY <1>1 DEF Policy
<1>3. /\ DebitsIn(w, id) \in SUBSET Nat /\ IsFiniteSet(DebitsIn(w, id))
      /\ \A i \in DebitsIn(w, id) : at[i] = w.ledger[i].at /\ at[i] \in Nat
  BY DebitsTyped DEF WorldOK, TimesIn
<1>4. \A i, j \in DebitsIn(w, id) : i <= j => at[i] <= at[j]
  BY <1>3, DebitsTyped DEF WorldOK, TimesOK
<1>5. RingOK(w.callTimes[id], w.ringCursor[id], p.maxCallsInWindow, at, DebitsIn(w, id))
  BY DEF WorldOK, RingsOK
<1> HIDE DEF at
<1>6. /\ t \in Nat /\ p.maxCallsInWindow \in Nat /\ p.maxCallsInWindow > 0
      /\ p.window \in Nat
  BY <1>1, <1>2
<1> DEFINE times == w.callTimes[id]
           cursor == w.ringCursor[id]
           cap == p.maxCallsInWindow
           window == p.window
           debits == DebitsIn(w, id)
<1>7. /\ RingOK(times, cursor, cap, at, debits)
      /\ t \in Nat /\ cap \in Nat /\ cap > 0 /\ window \in Nat
      /\ debits \in SUBSET Nat /\ IsFiniteSet(debits)
      /\ \A i \in debits : at[i] \in Nat
      /\ \A i, j \in debits : i <= j => at[i] <= at[j]
  BY <1>3, <1>4, <1>5, <1>6
<1> HIDE DEF times, cursor, cap, window, debits
<1>8. Len(times) = cap /\ t - times[cursor + 1] < window
        <=> Cardinality(Recent(debits, at, t, window)) >= cap
  BY ONLY <1>7, RingExact
<1>9. QED
  BY <1>8 DEF times, cursor, cap, window, debits, at

\* The invariant gives the properties.
LEMMA GuardInvImplies ==
  GuardInv => /\ TypeOK /\ EveryDebitSettlesOnce /\ EscrowIsCovered
              /\ SpendingWithinBudget /\ RateCheckIsExact /\ RateCapHolds
<1> SUFFICES ASSUME GuardInv
             PROVE  /\ TypeOK /\ EveryDebitSettlesOnce /\ EscrowIsCovered
                    /\ SpendingWithinBudget /\ RateCheckIsExact /\ RateCapHolds
  OBVIOUS
<1>1. WorldOK(world, now) /\ now \in Nat
  BY BoundAssumption DEF GuardInv
<1>2. \A id \in PolicyId : DebitsOf(id) = DebitsIn(world, id)
  BY DEF DebitsOf, DebitsIn
<1>3. \A id \in PolicyId : Opened(id) <=> id <= world.policiesCount
  BY <1>1 DEF WorldOK, PoliciesOK, Opened, NoPolicy
<1>4. EveryDebitSettlesOnce
  BY <1>1 DEF WorldOK, BooksOK, EveryDebitSettlesOnce
<1>5. EscrowIsCovered
  BY <1>1 DEF WorldOK, MoneyOK, BalancesIn, EscrowIsCovered
<1>6. SpendingWithinBudget
  BY <1>1, <1>2 DEF WorldOK, MoneyOK, AmountsIn, SpendingWithinBudget
<1>7. RateCheckIsExact
  <2> SUFFICES ASSUME NEW id \in PolicyId, Opened(id)
               PROVE  RateExceeded(id)
                        <=> Cardinality({i \in DebitsOf(id) :
                              now - world.ledger[i].at < world.policies[id].window})
                              >= world.policies[id].maxCallsInWindow
    BY DEF RateCheckIsExact
  <2>1. {i \in DebitsOf(id) : now - world.ledger[i].at < world.policies[id].window}
          = Recent(DebitsIn(world, id), TimesIn(world), now, world.policies[id].window)
    BY <1>2 DEF Recent, DebitsIn, TimesIn
  <2>2. QED
    BY <1>1, <1>3, <2>1, RateExact DEF RateExceeded
<1>8. RateCapHolds
  BY <1>1, <1>2 DEF WorldOK, RatesOK, Burst, RateCapHolds
<1>9. TypeOK
  <2>1. ASSUME NEW id \in PolicyId
        PROVE  LET n == Len(world.callTimes[id])
                   cap == world.policies[id].maxCallsInWindow
               IN  /\ world.policies[id].balance \in Nat /\ world.policies[id].spent \in Nat
                   /\ n <= cap
                   /\ n < cap => world.ringCursor[id] = n
                   /\ Opened(id) => world.ringCursor[id] \in 0 .. cap - 1
    <3>1. world.policies[id].balance \in Nat /\ world.policies[id].spent \in Nat
      BY <1>1 DEF WorldOK, PoliciesOK, Policy
    <3>2. RingShape(world.callTimes[id], world.ringCursor[id],
                    world.policies[id].maxCallsInWindow)
      BY <1>1 DEF WorldOK, RingsOK, RingOK
    <3>3. Opened(id) => world.policies[id].maxCallsInWindow > 0
      BY <1>1, <1>3 DEF WorldOK, PoliciesOK
    <3>4. QED
      BY <3>1, <3>2, <3>3 DEF RingShape
  <2>2. now \in 0 .. MaxTime /\ Len(frames) <= MaxDepth /\ world.policiesCount \in 0 .. MaxPolicies
    BY <1>1 DEF GuardInv, FramesOK, WorldOK, PoliciesOK
  <2>3. QED
    BY <1>3, <2>1, <2>2 DEF TypeOK
<1>10. QED
  BY <1>4, <1>5, <1>6, <1>7, <1>8, <1>9

\* An unwritten slot of _policies is a policy of nothing.
LEMMA NoPolicyTyped == NoPolicy \in Policy
BY DEF NoPolicy, Policy

\* There are finitely many policies.
LEMMA PoliciesFinite == IsFiniteSet(PolicyId)
BY BoundAssumption, CountTo DEF PolicyId

\* Nothing is owed at first.
LEMMA InitGuardInv == Init => GuardInv
<1> SUFFICES ASSUME Init PROVE GuardInv
  OBVIOUS
<1>1. PICK terms \in [ServiceId -> Terms] :
        world = [ policiesCount |-> 0,
                  policies |-> [id \in PolicyId |-> NoPolicy],
                  serviceAllowed |-> {}, seenRefs |-> {}, settled |-> {},
                  callTimes |-> [id \in PolicyId |-> <<>>],
                  ringCursor |-> [id \in PolicyId |-> 0],
                  held |-> 0, deposited |-> 0, ledger |-> <<>>, terms |-> terms ]
  BY DEF Init
<1>2. WorldShape(world)
  BY <1>1 DEF WorldShape
<1>3. /\ world.policies = [id \in PolicyId |-> NoPolicy] /\ world.policiesCount = 0
      /\ world.callTimes = [id \in PolicyId |-> <<>>]
      /\ world.ringCursor = [id \in PolicyId |-> 0]
      /\ world.ledger = <<>> /\ world.settled = {} /\ world.held = 0
  BY <1>1
<1>4. /\ NoPolicy.spent = 0 /\ NoPolicy.budget = 0 /\ NoPolicy.balance = 0
      /\ NoPolicy.maxCallsInWindow = 0
  BY DEF NoPolicy
<1>5. /\ \A id \in PolicyId : DebitsIn(world, id) = {}
      /\ DOMAIN world.ledger = {}
  BY <1>3 DEF DebitsIn
<1>6. PoliciesOK(world)
  <2>1. \A id \in PolicyId : ~(id <= 0)
    BY DEF PolicyId
  <2>2. QED
    BY <1>3, <1>5, <2>1, NoPolicyTyped, BoundAssumption DEF PoliciesOK
<1>7. BooksOK(world)
  BY <1>3, <1>5, FS_EmptySet DEF BooksOK
<1>8. TimesOK(world, now)
  BY <1>5 DEF TimesOK
<1>9. MoneyOK(world)
  <2>1. SumFunction(BalancesIn(world)) = 0
    <3>1. /\ IsFiniteSet(DOMAIN BalancesIn(world))
          /\ \A id \in DOMAIN BalancesIn(world) : BalancesIn(world)[id] = 0
      BY <1>3, <1>4, PoliciesFinite DEF BalancesIn
    <3>2. QED
      BY <3>1, SumOfZeros
  <2>2. ASSUME NEW id \in PolicyId PROVE SumFunction(AmountsIn(world, id)) = 0
    <3>1. DOMAIN AmountsIn(world, id) = {}
      BY <1>5 DEF AmountsIn
    <3>2. QED
      BY <3>1, SumOfZeros, FS_EmptySet
  <2>3. QED
    BY <1>3, <1>4, <2>1, <2>2 DEF MoneyOK
<1>10. RingsOK(world)
  <2>1. \A id \in PolicyId : RingOK(<<>>, 0, 0, TimesIn(world), {})
    BY RingEmpty
  <2>2. \A id \in PolicyId : /\ world.callTimes[id] = <<>> /\ world.ringCursor[id] = 0
                             /\ world.policies[id].maxCallsInWindow = 0
    BY <1>3, <1>4
  <2>3. QED
    BY <1>3, <1>5, <2>1, <2>2 DEF RingsOK
<1>11. RatesOK(world)
  BY <1>5 DEF RatesOK
<1>12. FramesOK /\ now \in 0 .. MaxTime
  <2>1. frames = <<>> /\ frames \in Seq({}) /\ DOMAIN frames = {} /\ Len(frames) = 0 /\ now = 0
    BY DEF Init
  <2>2. QED
    BY <2>1, BoundAssumption DEF FramesOK
<1>13. QED
  BY <1>2, <1>6, <1>7, <1>8, <1>9, <1>10, <1>11, <1>12 DEF GuardInv, WorldOK

-----------------------------------------------------------------------------
(***************************************************************************)
(* What the calls write.                                                   *)
(***************************************************************************)

\* A change of one balance changes what all of them make.
LEMMA BalanceChange ==
  ASSUME NEW w, PoliciesOK(w), MoneyOK(w), NEW id \in PolicyId, NEW p \in Policy,
         NEW v, v.policies = [w.policies EXCEPT ![id] = p]
  PROVE  /\ w.held \in Nat /\ w.policies[id].balance <= w.held
         /\ SumFunction(BalancesIn(v)) + w.policies[id].balance = w.held + p.balance
         /\ SumFunction(BalancesIn(v)) \in Nat
<1>1. w.policies \in [PolicyId -> Policy]
  BY DEF PoliciesOK
<1> DEFINE f == BalancesIn(w)
           g == BalancesIn(v)
<1>2. /\ DOMAIN f = PolicyId /\ DOMAIN g = PolicyId
      /\ f[id] = w.policies[id].balance /\ g[id] = p.balance /\ g[id] \in Nat
      /\ \A x \in PolicyId : f[x] \in Nat
      /\ \A x \in PolicyId : x # id => g[x] = f[x]
  BY <1>1 DEF BalancesIn, Policy
<1>3. w.held = SumFunction(f)
  BY DEF MoneyOK
<1> HIDE DEF f, g
<1>4. /\ SumFunction(g) + f[id] = SumFunction(f) + g[id]
      /\ SumFunction(f) \in Nat /\ SumFunction(g) \in Nat
      /\ f[id] <= SumFunction(f)
  <2>1. /\ IsFiniteSet(DOMAIN f) /\ (\A x \in DOMAIN f : f[x] \in Nat)
        /\ id \in DOMAIN f /\ g[id] \in Nat /\ DOMAIN g = DOMAIN f
        /\ \A x \in DOMAIN f : x # id => g[x] = f[x]
    BY <1>2, PoliciesFinite
  <2>2. QED
    BY ONLY <2>1, SumWithOneChanged
<1>5. QED
  BY <1>2, <1>3, <1>4 DEF f, g

\* The escrow is a natural number.
LEMMA HeldTyped ==
  ASSUME NEW w, PoliciesOK(w), MoneyOK(w)
  PROVE  w.held \in Nat
<1>1. /\ IsFiniteSet(DOMAIN BalancesIn(w))
      /\ \A id \in DOMAIN BalancesIn(w) : BalancesIn(w)[id] \in Nat
  BY PoliciesFinite DEF PoliciesOK, BalancesIn, Policy
<1>2. QED
  BY <1>1, SumType DEF MoneyOK

\* A world that differs in one policy, opened already or now, and not in its
\* books; its escrow follows the policy's balance.
LEMMA PolicyChange ==
  ASSUME NEW t, NEW w, WorldOK(w, t), NEW v, WorldShape(v),
         NEW id \in PolicyId, NEW p \in Policy,
         v.policies = [w.policies EXCEPT ![id] = p],
         p.spent = w.policies[id].spent, p.spent <= p.budget,
         \/ /\ v.policiesCount = w.policiesCount /\ id <= w.policiesCount
            /\ p.window = w.policies[id].window
            /\ p.maxCallsInWindow = w.policies[id].maxCallsInWindow
         \/ id = w.policiesCount + 1 /\ v.policiesCount = id,
         p.owner # NoOne, p.maxCallsInWindow > 0, p.window > 0,
         v.held + w.policies[id].balance = w.held + p.balance, v.held \in Int,
         v.ledger = w.ledger, v.settled = w.settled, v.seenRefs = w.seenRefs,
         v.callTimes = w.callTimes, v.ringCursor = w.ringCursor
  PROVE  WorldOK(v, t)
<1>1. /\ w.policies \in [PolicyId -> Policy] /\ v.policies \in [PolicyId -> Policy]
      /\ v.policies[id] = p /\ \A x \in PolicyId : x # id => v.policies[x] = w.policies[x]
      /\ w.policiesCount \in 0 .. MaxPolicies
  BY DEF WorldOK, PoliciesOK
<1>2. /\ \A x : DebitsIn(v, x) = DebitsIn(w, x)
      /\ TimesIn(v) = TimesIn(w)
      /\ \A x : AmountsIn(v, x) = AmountsIn(w, x)
  BY DEF DebitsIn, TimesIn, AmountsIn
<1>3. PoliciesOK(v)
  <2>1. \A x \in PolicyId : x # id => (x <= v.policiesCount <=> x <= w.policiesCount)
    BY <1>1 DEF PolicyId
  <2>2. id <= v.policiesCount /\ v.policiesCount \in 0 .. MaxPolicies
    BY <1>1 DEF PolicyId
  <2>3. QED
    BY <1>1, <1>2, <2>1, <2>2 DEF WorldOK, PoliciesOK
<1>4. BooksOK(v) /\ TimesOK(v, t)
  BY DEF WorldOK, BooksOK, TimesOK
<1>5. MoneyOK(v)
  <2>1. /\ w.held \in Nat
        /\ SumFunction(BalancesIn(v)) + w.policies[id].balance = w.held + p.balance
        /\ SumFunction(BalancesIn(v)) \in Nat
    BY BalanceChange DEF WorldOK
  <2>2. w.policies[id].balance \in Nat /\ p.balance \in Nat
    BY <1>1 DEF Policy
  <2>3. v.held = SumFunction(BalancesIn(v))
    BY <2>1, <2>2
  <2>4. QED
    BY <1>1, <1>2, <2>3 DEF WorldOK, MoneyOK
<1>6. CASE id <= w.policiesCount
  <2>1. /\ p.window = w.policies[id].window
        /\ p.maxCallsInWindow = w.policies[id].maxCallsInWindow
    BY <1>1, <1>6 DEF PolicyId
  <2>2. \A x \in PolicyId : /\ v.policies[x].window = w.policies[x].window
                            /\ v.policies[x].maxCallsInWindow = w.policies[x].maxCallsInWindow
    BY <1>1, <2>1
  <2>3. RingsOK(v)
    BY <1>2, <2>2 DEF WorldOK, RingsOK
  <2>4. \A x \in PolicyId : \A last : Burst(v, x, last) = Burst(w, x, last)
    BY <1>2, <2>2 DEF Burst
  <2>5. RatesOK(v)
    BY <1>2, <2>2, <2>4 DEF WorldOK, RatesOK
  <2>6. QED
    BY <1>3, <1>4, <1>5, <2>3, <2>5 DEF WorldOK
<1>7. CASE ~(id <= w.policiesCount)
  <2>1. DebitsIn(w, id) = {} /\ w.callTimes[id] = <<>> /\ w.ringCursor[id] = 0
    BY <1>7 DEF WorldOK, PoliciesOK
  <2>2. RingOK(<<>>, 0, p.maxCallsInWindow, TimesIn(v), {})
    BY RingEmpty DEF Policy
  <2>3. ASSUME NEW x \in PolicyId
        PROVE  RingOK(v.callTimes[x], v.ringCursor[x], v.policies[x].maxCallsInWindow,
                      TimesIn(v), DebitsIn(v, x))
    <3>1. CASE x = id
      BY <1>1, <1>2, <2>1, <2>2, <3>1
    <3>2. CASE x # id
      BY <1>1, <1>2, <3>2 DEF WorldOK, RingsOK
    <3>3. QED
      BY <3>1, <3>2
  <2>4. RingsOK(v)
    BY <2>3 DEF WorldOK, RingsOK
  <2>5. \A x \in PolicyId : x # id => \A last : Burst(v, x, last) = Burst(w, x, last)
    BY <1>1, <1>2 DEF Burst
  <2>6. RatesOK(v)
    BY <1>1, <1>2, <2>1, <2>5 DEF WorldOK, RatesOK
  <2>7. QED
    BY <1>3, <1>4, <1>5, <2>4, <2>6 DEF WorldOK
<1>8. QED
  BY <1>6, <1>7

\* What an opened policy is.
LEMMA OpenedPolicy ==
  ASSUME NEW t, WorldOK(world, t), NEW id \in PolicyId, Opened(id)
  PROVE  /\ id <= world.policiesCount /\ world.policies[id] \in Policy
         /\ world.policies[id].owner # NoOne
         /\ world.policies[id].maxCallsInWindow > 0 /\ world.policies[id].window > 0
         /\ world.policies[id].spent <= world.policies[id].budget
         /\ world.held \in Nat /\ world.policies[id].balance <= world.held
<1>1. /\ id <= world.policiesCount /\ world.policies[id] \in Policy
      /\ world.policies[id].owner # NoOne
      /\ world.policies[id].maxCallsInWindow > 0 /\ world.policies[id].window > 0
      /\ world.policies[id].spent <= world.policies[id].budget
  BY DEF Opened, WorldOK, PoliciesOK, MoneyOK, NoPolicy
<1>2. world.policies = [world.policies EXCEPT ![id] = world.policies[id]]
  BY DEF WorldOK, PoliciesOK
<1>3. world.held \in Nat /\ world.policies[id].balance <= world.held
  BY <1>1, <1>2, BalanceChange DEF WorldOK
<1>4. QED
  BY <1>1, <1>3

\* A new policy owns nothing and has spent nothing.
LEMMA OpenPolicyOK ==
  ASSUME NEW t, WorldOK(world, t), NEW sender \in Account, NEW c \in Config,
         OpenPolicy(sender, c)
  PROVE  WorldOK(world', t)
<1> DEFINE id == world.policiesCount + 1
           p == [NoPolicy EXCEPT !.owner = sender, !.gate = c.gate, !.budget = c.budget,
                                 !.perCallCap = c.perCallCap, !.window = c.window,
                                 !.maxCallsInWindow = c.maxCallsInWindow,
                                 !.minTrustTier = c.minTrustTier]
<1>1. world' = [world EXCEPT !.policiesCount = id, !.policies[id] = p]
  BY DEF OpenPolicy
<1>2. id \in PolicyId /\ id \in 0 .. MaxPolicies /\ ~(id <= world.policiesCount)
  BY BoundAssumption DEF WorldOK, PoliciesOK, OpenPolicy, PolicyId
<1>3. c \in [gate : Account \cup {NoOne}, budget : Nat, perCallCap : Nat,
             window : Nat, maxCallsInWindow : Nat, minTrustTier : Nat]
  BY ConfigAssumption
<1>4. /\ c.gate \in Account \cup {NoOne} /\ c.budget \in Nat /\ c.perCallCap \in Nat
      /\ c.window \in Nat /\ c.maxCallsInWindow \in Nat /\ c.minTrustTier \in Nat
      /\ c.window > 0 /\ c.maxCallsInWindow > 0
  BY <1>3 DEF OpenPolicy, ValidConfig
<1>5. /\ p \in Policy /\ p.spent = 0 /\ p.balance = 0 /\ p.spent <= p.budget
      /\ p.owner # NoOne /\ p.window > 0 /\ p.maxCallsInWindow > 0
  <2>1. p \in Policy
    BY <1>4 DEF NoPolicy, Policy
  <2>2. /\ p.spent = 0 /\ p.balance = 0 /\ p.budget = c.budget /\ p.owner = sender
        /\ p.window = c.window /\ p.maxCallsInWindow = c.maxCallsInWindow
    BY DEF NoPolicy
  <2> HIDE DEF p
  <2>3. QED
    BY <1>4, <2>1, <2>2, AccountAssumption
<1> HIDE DEF p
<1>6. world.policies[id] = NoPolicy /\ NoPolicy.spent = 0 /\ NoPolicy.balance = 0
  <2>1. world.policies[id] = NoPolicy
    BY <1>2 DEF WorldOK, PoliciesOK
  <2>2. QED
    BY <2>1 DEF NoPolicy
<1>7. world.held \in Nat
  BY HeldTyped DEF WorldOK
<1> HIDE DEF id
<1>8. /\ WorldShape(world')
      /\ world'.policies = [world.policies EXCEPT ![id] = p]
      /\ world'.policiesCount = id /\ world'.ledger = world.ledger
      /\ world'.settled = world.settled /\ world'.seenRefs = world.seenRefs
      /\ world'.callTimes = world.callTimes /\ world'.ringCursor = world.ringCursor
      /\ world'.held = world.held
  BY <1>1 DEF WorldOK, WorldShape
<1>9. world'.held + world.policies[id].balance = world.held + p.balance
  BY <1>5, <1>6, <1>8
<1>10. id = world.policiesCount + 1
  BY DEF id
<1>11. QED
  BY <1>2, <1>5, <1>6, <1>7, <1>8, <1>9, <1>10, PolicyChange

\* Deposits, withdrawals and pauses change one opened policy and the escrow.
LEMMA OnePolicyOK ==
  ASSUME NEW t, WorldOK(world, t), NEW id \in PolicyId, Opened(id), NEW p \in Policy,
         NEW held \in Int, NEW deposited, NEW v,
         v = [world EXCEPT !.policies[id] = p, !.held = held, !.deposited = deposited],
         p.spent = world.policies[id].spent, p.budget = world.policies[id].budget,
         p.owner = world.policies[id].owner, p.window = world.policies[id].window,
         p.maxCallsInWindow = world.policies[id].maxCallsInWindow,
         held + world.policies[id].balance = world.held + p.balance
  PROVE  WorldOK(v, t)
<1>1. /\ WorldShape(v)
      /\ v.policies = [world.policies EXCEPT ![id] = p]
      /\ v.policiesCount = world.policiesCount /\ v.ledger = world.ledger
      /\ v.settled = world.settled /\ v.seenRefs = world.seenRefs
      /\ v.callTimes = world.callTimes /\ v.ringCursor = world.ringCursor
      /\ v.held = held
  BY DEF WorldOK, WorldShape
<1>2. /\ id <= world.policiesCount /\ p.owner # NoOne /\ p.maxCallsInWindow > 0
      /\ p.window > 0 /\ p.spent <= p.budget
  BY OpenedPolicy
<1>3. /\ WorldOK(world, t) /\ id \in PolicyId /\ p \in Policy
      /\ p.spent = world.policies[id].spent
      /\ p.window = world.policies[id].window
      /\ p.maxCallsInWindow = world.policies[id].maxCallsInWindow
      /\ v.held + world.policies[id].balance = world.held + p.balance /\ v.held \in Int
  BY <1>1
<1>4. QED
  BY ONLY <1>1, <1>2, <1>3, PolicyChange

\* A deposit is added to a balance and to the escrow.
LEMMA DepositOK ==
  ASSUME NEW t, WorldOK(world, t), NEW id \in PolicyId, NEW value \in Amount,
         Deposit(id, value)
  PROVE  WorldOK(world', t)
<1> DEFINE q == world.policies[id]
           p == [q EXCEPT !.balance = @ + value]
           held == world.held + value
           deposited == world.deposited + value
<1>1. world' = [world EXCEPT !.policies[id] = p, !.held = held, !.deposited = deposited]
  BY DEF Deposit, WorldOK, WorldShape
<1>2. Opened(id) /\ value \in Nat
  BY AmountAssumption DEF Deposit
<1>3. q \in Policy /\ world.held \in Nat
  BY <1>2, OpenedPolicy
<1> HIDE DEF q
<1>4. /\ p \in Policy /\ p.balance = q.balance + value /\ p.spent = q.spent
      /\ p.budget = q.budget /\ p.owner = q.owner /\ p.window = q.window
      /\ p.maxCallsInWindow = q.maxCallsInWindow /\ q.balance \in Nat
  BY <1>2, <1>3 DEF Policy
<1> HIDE DEF p
<1>5. held \in Int /\ held + q.balance = world.held + p.balance
  BY <1>2, <1>3, <1>4
<1> HIDE DEF held, deposited
<1>6. QED
  BY <1>1, <1>2, <1>4, <1>5, OnePolicyOK DEF q

\* A withdrawal comes off a balance and off the escrow.
LEMMA WithdrawOK ==
  ASSUME NEW t, WorldOK(world, t), NEW sender, NEW id \in PolicyId, NEW amount \in Amount,
         NEW to, Withdraw(sender, id, amount, to)
  PROVE  WorldOK(world', t)
<1> DEFINE q == world.policies[id]
           p == [q EXCEPT !.balance = @ - amount]
           held == world.held - amount
           deposited == world.deposited
<1>1. world' = [world EXCEPT !.policies[id] = p, !.held = held, !.deposited = deposited]
  BY DEF Withdraw, CallOut, WorldOK, WorldShape
<1>2. Opened(id) /\ amount \in Nat /\ amount <= q.balance
  BY AmountAssumption DEF Withdraw
<1>3. q \in Policy /\ world.held \in Nat
  BY <1>2, OpenedPolicy
<1> HIDE DEF q
<1>4. /\ p \in Policy /\ p.balance = q.balance - amount /\ p.spent = q.spent
      /\ p.budget = q.budget /\ p.owner = q.owner /\ p.window = q.window
      /\ p.maxCallsInWindow = q.maxCallsInWindow /\ q.balance \in Nat
  BY <1>2, <1>3 DEF Policy
<1> HIDE DEF p
<1>5. held \in Int /\ held + q.balance = world.held + p.balance
  BY <1>2, <1>3, <1>4
<1> HIDE DEF held, deposited
<1>6. QED
  BY <1>1, <1>2, <1>4, <1>5, OnePolicyOK DEF q

\* Pausing is a change of one policy.
LEMMA PauseOK ==
  ASSUME NEW t, WorldOK(world, t), NEW sender, NEW id \in PolicyId, NEW paused \in BOOLEAN,
         Pause(sender, id, paused)
  PROVE  WorldOK(world', t)
<1> DEFINE q == world.policies[id]
           p == [q EXCEPT !.paused = paused]
           held == world.held
           deposited == world.deposited
<1>1. world' = [world EXCEPT !.policies[id] = p, !.held = held, !.deposited = deposited]
  BY DEF Pause, WorldOK, WorldShape
<1>2. Opened(id)
  BY DEF Pause
<1>3. q \in Policy /\ world.held \in Nat
  BY <1>2, OpenedPolicy
<1> HIDE DEF q
<1>4. /\ p \in Policy /\ p.balance = q.balance /\ p.spent = q.spent
      /\ p.budget = q.budget /\ p.owner = q.owner /\ p.window = q.window
      /\ p.maxCallsInWindow = q.maxCallsInWindow
  BY <1>2, <1>3 DEF Policy
<1> HIDE DEF p
<1>5. held \in Int /\ held + q.balance = world.held + p.balance
  BY <1>3, <1>4
<1> HIDE DEF held, deposited
<1>6. QED
  BY <1>1, <1>2, <1>4, <1>5, OnePolicyOK DEF q

\* The books of v are those of w with one debit more.
Records(w, v, d) == v.ledger = Append(w.ledger, d)

\* What a debit adds to the books.
LEMMA DebitEntry ==
  ASSUME NEW w, BooksOK(w), NEW v, NEW d \in Debited, Records(w, v, d)
  PROVE  LET new == Len(w.ledger) + 1
         IN  /\ v.ledger \in Seq(Debited) /\ Len(v.ledger) = new
             /\ new \in Nat /\ v.ledger[new] = d /\ DOMAIN v.ledger = 1 .. new
             /\ DOMAIN w.ledger = 1 .. Len(w.ledger)
             /\ \A i \in DOMAIN w.ledger : i < new /\ i \in Nat /\ v.ledger[i] = w.ledger[i]
             /\ \A id : DebitsIn(v, id) = IF id = d.policy THEN DebitsIn(w, id) \cup {new}
                                                          ELSE DebitsIn(w, id)
             /\ \A id : new \notin DebitsIn(w, id) /\ DebitsIn(w, id) \subseteq DOMAIN w.ledger
<1> DEFINE new == Len(w.ledger) + 1
<1>1. /\ v.ledger \in Seq(Debited) /\ Len(v.ledger) = new
      /\ new \in Nat /\ v.ledger[new] = d /\ DOMAIN v.ledger = 1 .. new
      /\ DOMAIN w.ledger = 1 .. Len(w.ledger)
      /\ \A i \in DOMAIN w.ledger : i < new /\ i \in Nat /\ v.ledger[i] = w.ledger[i]
      /\ DOMAIN v.ledger = DOMAIN w.ledger \cup {new}
      /\ new \notin DOMAIN w.ledger
  BY DEF BooksOK, Records
<1> HIDE DEF new
<1>2. \A id : DebitsIn(v, id) = IF id = d.policy THEN DebitsIn(w, id) \cup {new}
                                                ELSE DebitsIn(w, id)
  BY <1>1 DEF DebitsIn
<1>3. \A id : new \notin DebitsIn(w, id) /\ DebitsIn(w, id) \subseteq DOMAIN w.ledger
  BY <1>1 DEF DebitsIn
<1>4. QED
  BY <1>1, <1>2, <1>3 DEF new

\* The sums after a debit.
LEMMA DebitMoney ==
  ASSUME NEW w, PoliciesOK(w), BooksOK(w), MoneyOK(w), NEW v, NEW d \in Debited,
         NEW id \in PolicyId, d.policy = id, NEW p \in Policy,
         Records(w, v, d), v.policies = [w.policies EXCEPT ![id] = p],
         p.spent = w.policies[id].spent + d.amount, p.spent <= p.budget,
         p.balance = w.policies[id].balance - d.amount, v.held = w.held - d.amount
  PROVE  MoneyOK(v)
<1> DEFINE new == Len(w.ledger) + 1
<1>1. /\ v.ledger[new] = d
      /\ \A i \in DOMAIN w.ledger : v.ledger[i] = w.ledger[i]
      /\ \A x : DebitsIn(v, x) = IF x = id THEN DebitsIn(w, x) \cup {new} ELSE DebitsIn(w, x)
      /\ \A x : new \notin DebitsIn(w, x) /\ DebitsIn(w, x) \subseteq DOMAIN w.ledger
  BY DebitEntry
<1> HIDE DEF new
<1>2. /\ w.policies \in [PolicyId -> Policy] /\ v.policies[id] = p
      /\ \A x \in PolicyId : x # id => v.policies[x] = w.policies[x]
  BY DEF PoliciesOK
<1>3. v.held = SumFunction(BalancesIn(v))
  <2>1. /\ w.held \in Nat
        /\ SumFunction(BalancesIn(v)) + w.policies[id].balance = w.held + p.balance
        /\ SumFunction(BalancesIn(v)) \in Nat
    BY BalanceChange
  <2>2. w.policies[id].balance \in Nat /\ d.amount \in Nat
    BY <1>2 DEF Policy, Debited
  <2> DEFINE sum == SumFunction(BalancesIn(v))
             old == w.policies[id].balance
             amount == d.amount
  <2>3. /\ sum + old = w.held + (old - amount) /\ v.held = w.held - amount
        /\ sum \in Nat /\ old \in Nat /\ amount \in Nat /\ w.held \in Nat
    BY <2>1, <2>2
  <2> HIDE DEF sum, old, amount
  <2>4. v.held = sum
    BY <2>3
  <2>5. QED
    BY <2>4 DEF sum
<1>4. SumFunction(AmountsIn(v, id)) = SumFunction(AmountsIn(w, id)) + d.amount
  <2> DEFINE f == AmountsIn(w, id)
             g == AmountsIn(v, id)
  <2>1. /\ DOMAIN f = DebitsIn(w, id) /\ DOMAIN g = DOMAIN f \cup {new}
        /\ new \notin DOMAIN f /\ g[new] = d.amount /\ d.amount \in Nat
        /\ \A x \in DOMAIN f : g[x] = f[x] /\ f[x] = w.ledger[x].amount
    BY <1>1 DEF AmountsIn, Debited
  <2>2. IsFiniteSet(DOMAIN f) /\ \A x \in DOMAIN f : f[x] \in Nat
    BY <2>1, DebitsTyped
  <2> HIDE DEF f, g
  <2>3. SumFunction(g) = SumFunction(f) + g[new]
    BY <2>1, <2>2, SumWithOneMore
  <2>4. QED
    BY <2>1, <2>3 DEF f, g
<1>5. ASSUME NEW x \in PolicyId, x # id PROVE AmountsIn(v, x) = AmountsIn(w, x)
  BY <1>1, <1>5 DEF AmountsIn
<1>6. ASSUME NEW x \in PolicyId
      PROVE  /\ v.policies[x].spent <= v.policies[x].budget
             /\ v.policies[x].spent = SumFunction(AmountsIn(v, x))
  <2>1. CASE x = id
    BY <1>2, <1>4, <2>1 DEF MoneyOK
  <2>2. CASE x # id
    BY <1>2, <1>5, <2>2 DEF MoneyOK
  <2>3. QED
    BY <2>1, <2>2
<1>7. QED
  BY <1>3, <1>6 DEF MoneyOK

\* The rings after a debit: its policy's takes the time, the others stay.
LEMMA DebitRings ==
  ASSUME NEW t \in Nat, NEW w, PoliciesOK(w), BooksOK(w), RingsOK(w), NEW v,
         NEW d \in Debited, NEW id \in PolicyId, d.policy = id, d.at = t, NEW p \in Policy,
         Records(w, v, d), v.policies = [w.policies EXCEPT ![id] = p],
         p.maxCallsInWindow = w.policies[id].maxCallsInWindow, p.maxCallsInWindow > 0,
         NEW ring, v.callTimes = [w.callTimes EXCEPT ![id] = ring],
         ring = RingWith(w.callTimes[id], w.ringCursor[id], p.maxCallsInWindow, t),
         NEW next, v.ringCursor = [w.ringCursor EXCEPT ![id] = next],
         next = CursorAfter(w.ringCursor[id], p.maxCallsInWindow)
  PROVE  RingsOK(v)
<1> DEFINE new == Len(w.ledger) + 1
           cap == p.maxCallsInWindow
           at == TimesIn(w)
           at2 == TimesIn(v)
           times == w.callTimes[id]
           cursor == w.ringCursor[id]
           debits == DebitsIn(w, id)
<1>0. BooksOK(w) /\ d \in Debited /\ Records(w, v, d) /\ d.policy = id
  OBVIOUS
<1>1. /\ v.ledger[new] = d /\ new \in Nat /\ DOMAIN v.ledger = 1 .. new
      /\ DOMAIN w.ledger = 1 .. Len(w.ledger)
      /\ \A i \in DOMAIN w.ledger : v.ledger[i] = w.ledger[i] /\ i < new /\ i \in Nat
      /\ \A x : DebitsIn(v, x) = IF x = id THEN DebitsIn(w, x) \cup {new} ELSE DebitsIn(w, x)
      /\ \A x : new \notin DebitsIn(w, x) /\ DebitsIn(w, x) \subseteq DOMAIN w.ledger
  BY ONLY <1>0, DebitEntry
<1> HIDE DEF new
<1>9. new \in DOMAIN v.ledger /\ \A i \in DOMAIN w.ledger : i \in DOMAIN v.ledger
  <2>1. Len(w.ledger) \in Nat
    BY DEF BooksOK
  <2>2. QED
    BY <1>1, <2>1 DEF new
<1>2. /\ w.policies \in [PolicyId -> Policy] /\ v.policies[id] = p
      /\ \A x \in PolicyId : x # id => v.policies[x] = w.policies[x]
  BY DEF PoliciesOK
<1>3. /\ \A x : \A i \in DebitsIn(w, x) : at2[i] = at[i]
      /\ at2[new] = t
  BY <1>1, <1>9 DEF TimesIn
<1>4. /\ v.callTimes = [x \in PolicyId |-> v.callTimes[x]]
      /\ v.ringCursor = [x \in PolicyId |-> v.ringCursor[x]]
      /\ \A x \in PolicyId : x # id => /\ v.callTimes[x] = w.callTimes[x]
                                       /\ v.ringCursor[x] = w.ringCursor[x]
      /\ v.callTimes[id] = ring /\ v.ringCursor[id] = next
  BY DEF RingsOK
<1>5. RingOK(times, cursor, cap, at, debits)
  BY DEF RingsOK
<1>6. ASSUME NEW x \in PolicyId, x # id
      PROVE  RingOK(v.callTimes[x], v.ringCursor[x], v.policies[x].maxCallsInWindow, at2,
                    DebitsIn(v, x))
  <2>1. RingOK(w.callTimes[x], w.ringCursor[x], w.policies[x].maxCallsInWindow, at,
               DebitsIn(w, x))
    BY DEF RingsOK
  <2>2. \A i \in DebitsIn(w, x) : at2[i] = at[i]
    BY <1>3
  <2> HIDE DEF at, at2
  <2>3. RingOK(w.callTimes[x], w.ringCursor[x], w.policies[x].maxCallsInWindow, at2,
               DebitsIn(w, x))
    BY <2>1, <2>2, RingKept
  <2>4. QED
    BY <1>1, <1>2, <1>4, <1>6, <2>3
<1>7. RingOK(v.callTimes[id], v.ringCursor[id], v.policies[id].maxCallsInWindow, at2,
             DebitsIn(v, id))
  <2>1. /\ debits \in SUBSET Nat /\ DebitsIn(v, id) = debits \cup {new}
        /\ v.policies[id].maxCallsInWindow = cap /\ cap > 0
        /\ \A i \in debits : i < new /\ at2[i] = at[i]
        /\ v.callTimes[id] = RingWith(times, cursor, cap, t)
        /\ v.ringCursor[id] = CursorAfter(cursor, cap)
        /\ new \in Nat /\ at2[new] = t /\ t \in Nat
    BY <1>1, <1>2, <1>3, <1>4
  <2> HIDE DEF cap, at, at2, times, cursor, debits
  <2>2. RingOK(RingWith(times, cursor, cap, t), CursorAfter(cursor, cap), cap, at2,
               debits \cup {new})
    BY ONLY <1>5, <2>1, RingTakes
  <2>3. QED
    BY <2>1, <2>2
<1>8. QED
  BY <1>4, <1>6, <1>7 DEF RingsOK

\* The windows after a debit that the rate rule let through.
LEMMA DebitRates ==
  ASSUME NEW t \in Nat, NEW w, PoliciesOK(w), BooksOK(w), TimesOK(w, t), RatesOK(w), NEW v,
         NEW d \in Debited, NEW id \in PolicyId, d.policy = id, d.at = t, NEW p \in Policy,
         Records(w, v, d), v.policies = [w.policies EXCEPT ![id] = p],
         p.maxCallsInWindow = w.policies[id].maxCallsInWindow,
         p.window = w.policies[id].window,
         ~(Cardinality(Recent(DebitsIn(w, id), TimesIn(w), t, p.window))
             >= p.maxCallsInWindow)
  PROVE  RatesOK(v)
<1> DEFINE new == Len(w.ledger) + 1
           cap == p.maxCallsInWindow
           recent == Recent(DebitsIn(w, id), TimesIn(w), t, p.window)
<1>1. /\ v.ledger[new] = d /\ new \in Nat
      /\ \A i \in DOMAIN w.ledger : v.ledger[i] = w.ledger[i]
      /\ \A x : DebitsIn(v, x) = IF x = id THEN DebitsIn(w, x) \cup {new} ELSE DebitsIn(w, x)
      /\ \A x : new \notin DebitsIn(w, x) /\ DebitsIn(w, x) \subseteq DOMAIN w.ledger
  BY DebitEntry
<1> HIDE DEF new, recent
<1>9. \A i : i \in recent <=> i \in DebitsIn(w, id) /\ t - w.ledger[i].at < p.window
  BY <1>1 DEF recent, Recent, TimesIn
<1>2. /\ w.policies \in [PolicyId -> Policy] /\ v.policies[id] = p
      /\ \A x \in PolicyId : x # id => v.policies[x] = w.policies[x]
  BY DEF PoliciesOK
<1>3. \A i \in DOMAIN w.ledger : w.ledger[i].at \in Nat /\ w.ledger[i].at <= t
  BY DebitsTyped DEF TimesOK
<1>4. /\ IsFiniteSet(DebitsIn(w, id)) /\ IsFiniteSet(recent)
      /\ IsFiniteSet(recent \cup {new}) /\ Cardinality(recent \cup {new}) <= cap
  <2>1. IsFiniteSet(DebitsIn(w, id)) /\ IsFiniteSet(recent) /\ new \notin recent
    BY <1>1, <1>9, DebitsTyped, FS_Subset
  <2>2. ~(Cardinality(recent) >= cap) /\ cap \in Nat
    BY DEF Policy, recent
  <2> HIDE DEF cap
  <2>3. /\ IsFiniteSet(recent \cup {new}) /\ Cardinality(recent \cup {new}) = Cardinality(recent) + 1
        /\ Cardinality(recent) \in Nat
    BY <2>1, FS_AddElement, FS_CardinalityType
  <2>4. QED
    BY <2>1, <2>2, <2>3
<1>5. ASSUME NEW last \in DebitsIn(v, id), v.ledger[last].at = t
      PROVE  Cardinality(Burst(v, id, last)) <= cap
  <2>1. Burst(v, id, last) \subseteq recent \cup {new}
    BY <1>1, <1>2, <1>5, <1>9 DEF Burst
  <2>2. Cardinality(Burst(v, id, last)) <= Cardinality(recent \cup {new})
    BY <1>4, <2>1, FS_Subset
  <2>3. Cardinality(Burst(v, id, last)) \in Nat /\ Cardinality(recent \cup {new}) \in Nat
    BY <1>4, <2>1, FS_Subset, FS_CardinalityType
  <2>4. cap \in Nat
    BY DEF Policy
  <2> HIDE DEF cap
  <2>5. QED
    BY <1>4, <2>2, <2>3, <2>4
<1>6. ASSUME NEW last \in DebitsIn(v, id), v.ledger[last].at # t
      PROVE  Cardinality(Burst(v, id, last)) <= cap
  <2>1. last \in DebitsIn(w, id) /\ v.ledger[last] = w.ledger[last] /\ last \in DOMAIN w.ledger
    BY <1>1, <1>6
  <2>2. ~(t <= w.ledger[last].at)
    BY <1>3, <1>6, <2>1
  <2>3. Burst(v, id, last) = Burst(w, id, last)
    <3>1. \A i \in DebitsIn(v, id) :
            v.ledger[i].at <= w.ledger[last].at => i \in DebitsIn(w, id)
      BY <1>1, <2>2
    <3>2. \A i \in DebitsIn(w, id) : i \in DebitsIn(v, id) /\ v.ledger[i] = w.ledger[i]
      BY <1>1
    <3>3. v.policies[id].window = w.policies[id].window
      BY <1>2
    <3>4. QED
      BY <2>1, <3>1, <3>2, <3>3 DEF Burst
  <2>4. QED
    BY <2>1, <2>3 DEF RatesOK
<1>7. ASSUME NEW x \in PolicyId, x # id, NEW last \in DebitsIn(v, x)
      PROVE  Cardinality(Burst(v, x, last)) <= v.policies[x].maxCallsInWindow
  <2>1. DebitsIn(v, x) = DebitsIn(w, x) /\ v.policies[x] = w.policies[x]
        /\ v.ledger[last] = w.ledger[last]
        /\ \A i \in DebitsIn(w, x) : v.ledger[i] = w.ledger[i]
    BY <1>1, <1>2, <1>7
  <2>2. Burst(v, x, last) = Burst(w, x, last)
    BY <2>1 DEF Burst
  <2>3. QED
    BY <1>7, <2>1, <2>2 DEF RatesOK
<1>8. QED
  BY <1>2, <1>5, <1>6, <1>7 DEF RatesOK

\* An approved debit is within the budget and the rate, and settles what the
\* router had not.
LEMMA DebitOK ==
  ASSUME now \in Nat, WorldOK(world, now), NEW sender \in Account, NEW payTo \in Account,
         NEW id \in PolicyId, NEW service \in ServiceId, NEW amount \in Amount,
         NEW nonce \in Nonce, Debit(sender, id, service, amount, payTo, nonce)
  PROVE  WorldOK(world', now)
<1> DEFINE q == world.policies[id]
           p == [q EXCEPT !.balance = @ - amount, !.spent = @ + amount]
           d == [policy |-> id, service |-> service, nonce |-> nonce,
                 payTo |-> payTo, amount |-> amount, at |-> now]
           ring == RingAfter(id)
           cursor == (world.ringCursor[id] + 1) % q.maxCallsInWindow
<1>1. world' = [world EXCEPT
        !.policies[id].balance = @ - amount,
        !.policies[id].spent = @ + amount,
        !.seenRefs = @ \cup {<<id, service, nonce>>},
        !.callTimes[id] = ring,
        !.ringCursor[id] = cursor,
        !.settled = @ \cup {<<service, nonce, payTo>>},
        !.held = @ - amount,
        !.ledger = Append(@, d)]
  BY DEF Debit, CallOut
<1>2. /\ amount <= q.balance /\ q.spent + amount <= q.budget
      /\ <<service, nonce, payTo>> \notin world.settled
      /\ Opened(id) /\ ~RateExceeded(id) /\ amount \in Nat
  BY AmountAssumption DEF Debit, DebitRules, WithinBudget, RouterRefuses
<1>3. /\ q \in Policy /\ id <= world.policiesCount
      /\ q.owner # NoOne /\ q.maxCallsInWindow > 0 /\ q.window > 0
      /\ world.policies \in [PolicyId -> Policy]
  BY <1>2, OpenedPolicy DEF WorldOK, PoliciesOK
<1>4. /\ WorldShape(world')
      /\ world'.policies = [world.policies EXCEPT ![id] = p]
      /\ world'.policiesCount = world.policiesCount
      /\ Records(world, world', d)
      /\ world'.settled = world.settled \cup {<<service, nonce, payTo>>}
      /\ world'.seenRefs = world.seenRefs \cup {<<id, service, nonce>>}
      /\ world'.callTimes = [world.callTimes EXCEPT ![id] = ring]
      /\ world'.ringCursor = [world.ringCursor EXCEPT ![id] = cursor]
      /\ world'.held = world.held - amount
  <2> HIDE DEF ring, cursor, d
  <2>1. QED
    BY <1>1, <1>3 DEF WorldOK, WorldShape, Records
<1>5. /\ d \in Debited /\ d.policy = id /\ d.at = now /\ d.amount = amount
      /\ <<d.service, d.nonce, d.payTo>> = <<service, nonce, payTo>>
      /\ <<d.policy, d.service, d.nonce>> = <<id, service, nonce>>
  BY <1>2 DEF Debited
<1>6. /\ ring = RingWith(world.callTimes[id], world.ringCursor[id], q.maxCallsInWindow, now)
      /\ cursor = CursorAfter(world.ringCursor[id], q.maxCallsInWindow)
  BY DEF RingAfter, RingWith, CursorAfter
<1>7. ~(Cardinality(Recent(DebitsIn(world, id), TimesIn(world), now, q.window))
          >= q.maxCallsInWindow)
  BY <1>2, <1>3, RateExact DEF RateExceeded
<1> HIDE DEF ring, cursor, d, q
<1>8. /\ p \in Policy /\ p.spent = q.spent + amount /\ p.balance = q.balance - amount
      /\ p.spent <= p.budget /\ p.maxCallsInWindow = q.maxCallsInWindow
      /\ p.window = q.window /\ p.owner = q.owner
  <2>1. q.balance - amount \in Nat /\ q.spent + amount \in Nat
    BY <1>2, <1>3 DEF Policy
  <2>2. p = [q EXCEPT !.balance = q.balance - amount, !.spent = q.spent + amount]
    OBVIOUS
  <2> HIDE DEF p
  <2>3. /\ p \in Policy /\ p.spent = q.spent + amount /\ p.balance = q.balance - amount
        /\ p.budget = q.budget /\ p.maxCallsInWindow = q.maxCallsInWindow
        /\ p.window = q.window /\ p.owner = q.owner
    BY <1>3, <2>1, <2>2 DEF Policy
  <2>4. QED
    BY <1>2, <2>3
<1> HIDE DEF p
<1>9. /\ PoliciesOK(world) /\ BooksOK(world) /\ TimesOK(world, now) /\ MoneyOK(world)
      /\ RingsOK(world) /\ RatesOK(world)
  BY DEF WorldOK
<1> DEFINE new == Len(world.ledger) + 1
<1>10. /\ world'.ledger \in Seq(Debited) /\ Len(world'.ledger) = new
       /\ world'.ledger[new] = d /\ DOMAIN world'.ledger = 1 .. new
       /\ DOMAIN world.ledger = 1 .. Len(world.ledger) /\ Len(world.ledger) \in Nat
       /\ \A i \in DOMAIN world.ledger : world'.ledger[i] = world.ledger[i]
       /\ \A x : x # id => DebitsIn(world', x) = DebitsIn(world, x)
       /\ \A i \in DOMAIN world'.ledger : i \in DOMAIN world.ledger \/ i = new
  <2>1. Len(world.ledger) \in Nat
    BY <1>9 DEF BooksOK
  <2>4. BooksOK(world) /\ d \in Debited /\ Records(world, world', d)
    BY <1>4, <1>5, <1>9
  <2>2. /\ world'.ledger \in Seq(Debited) /\ Len(world'.ledger) = new
        /\ world'.ledger[new] = d /\ DOMAIN world'.ledger = 1 .. new
        /\ DOMAIN world.ledger = 1 .. Len(world.ledger)
        /\ \A i \in DOMAIN world.ledger : world'.ledger[i] = world.ledger[i]
        /\ \A x : DebitsIn(world', x) = IF x = d.policy THEN DebitsIn(world, x) \cup {new}
                                                        ELSE DebitsIn(world, x)
    BY ONLY <2>4, DebitEntry
  <2>3. QED
    BY <1>5, <2>1, <2>2
<1>11. PoliciesOK(world')
  <2>1. /\ world'.policies \in [PolicyId -> Policy] /\ world'.policies[id] = p
        /\ \A x \in PolicyId : x # id =>
             /\ world'.policies[x] = world.policies[x]
             /\ world'.callTimes[x] = world.callTimes[x]
             /\ world'.ringCursor[x] = world.ringCursor[x]
             /\ DebitsIn(world', x) = DebitsIn(world, x)
    BY <1>3, <1>4, <1>8, <1>9, <1>10 DEF RingsOK
  <2>2. QED
    BY <1>3, <1>4, <1>8, <1>9, <2>1 DEF PoliciesOK
<1>12. BooksOK(world')
  <2>1. /\ IsFiniteSet(world'.settled)
        /\ Cardinality(world'.settled) = Cardinality(world.settled) + 1
    <3> DEFINE key == <<service, nonce, payTo>>
    <3>1. IsFiniteSet(world.settled) /\ key \notin world.settled
      BY <1>2, <1>9 DEF BooksOK
    <3>2. world'.settled = world.settled \cup {key}
      BY <1>4
    <3> HIDE DEF key
    <3>3. QED
      BY <3>1, <3>2, FS_AddElement
  <2>2. ASSUME NEW i \in DOMAIN world'.ledger
        PROVE  LET e == world'.ledger[i]
               IN  /\ <<e.service, e.nonce, e.payTo>> \in world'.settled
                   /\ <<e.policy, e.service, e.nonce>> \in world'.seenRefs
    BY <1>4, <1>5, <1>9, <1>10 DEF BooksOK
  <2>3. Cardinality(world'.settled) = Len(world'.ledger)
    BY <1>9, <1>10, <2>1 DEF BooksOK
  <2>4. QED
    BY <1>10, <2>1, <2>2, <2>3 DEF BooksOK
<1>13. TimesOK(world', now)
  <2> SUFFICES ASSUME NEW i \in DOMAIN world'.ledger, NEW j \in DOMAIN world'.ledger
               PROVE  /\ world'.ledger[i].at <= now
                      /\ i <= j => world'.ledger[i].at <= world'.ledger[j].at
    BY DEF TimesOK
  <2>1. world'.ledger[i].at <= now
    BY <1>5, <1>9, <1>10 DEF TimesOK
  <2>2. CASE j = new
    BY <1>5, <1>10, <2>1, <2>2
  <2>3. CASE j # new
    <3>1. i <= j => i \in DOMAIN world.ledger /\ j \in DOMAIN world.ledger
      BY <1>10, <2>3
    <3>2. QED
      BY <1>9, <1>10, <2>1, <3>1 DEF TimesOK
  <2>4. QED
    BY <2>2, <2>3
<1>14. MoneyOK(world')
  BY <1>4, <1>5, <1>8, <1>9, DebitMoney DEF q
<1>15. RingsOK(world')
  <2>1. ring = RingWith(world.callTimes[id], world.ringCursor[id], p.maxCallsInWindow, now)
    BY <1>6, <1>8
  <2>2. cursor = CursorAfter(world.ringCursor[id], p.maxCallsInWindow)
    BY <1>6, <1>8
  <2>3. /\ p.maxCallsInWindow = world.policies[id].maxCallsInWindow /\ p.maxCallsInWindow > 0
        /\ now \in Nat /\ id \in PolicyId
    BY <1>3, <1>8 DEF q
  <2>4. QED
    BY ONLY <1>4, <1>5, <1>8, <1>9, <2>1, <2>2, <2>3, DebitRings
<1>16. RatesOK(world')
  <2>1. /\ p.maxCallsInWindow = world.policies[id].maxCallsInWindow
        /\ p.window = world.policies[id].window
        /\ ~(Cardinality(Recent(DebitsIn(world, id), TimesIn(world), now, p.window))
               >= p.maxCallsInWindow)
        /\ now \in Nat /\ id \in PolicyId
    BY <1>7, <1>8 DEF q
  <2>2. QED
    BY ONLY <1>4, <1>5, <1>8, <1>9, <2>1, DebitRates
<1>17. QED
  BY <1>4, <1>11, <1>12, <1>13, <1>14, <1>15, <1>16 DEF WorldOK

\* Calls that touch neither policies nor books.
LEMMA OtherOK ==
  ASSUME NEW t, WorldOK(world, t),
         \/ \E sender \in Account, id \in PolicyId, service \in ServiceId, allowed \in BOOLEAN :
              SetServiceAllowed(sender, id, service, allowed)
         \/ \E service \in ServiceId, terms \in Terms : RegistryMoves(service, terms)
  PROVE  WorldOK(world', t)
<1>1. /\ WorldShape(world')
      /\ world'.policies = world.policies /\ world'.policiesCount = world.policiesCount
      /\ world'.ledger = world.ledger /\ world'.held = world.held
      /\ world'.settled = world.settled /\ world'.seenRefs = world.seenRefs
      /\ world'.callTimes = world.callTimes /\ world'.ringCursor = world.ringCursor
  <2>1. CASE \E sender \in Account, id \in PolicyId, service \in ServiceId,
                allowed \in BOOLEAN : SetServiceAllowed(sender, id, service, allowed)
    <3>1. PICK allowance : world' = [world EXCEPT !.serviceAllowed = allowance]
      BY <2>1 DEF SetServiceAllowed
    <3>2. QED
      BY <3>1 DEF WorldOK, WorldShape
  <2>2. CASE \E service \in ServiceId, terms \in Terms : RegistryMoves(service, terms)
    <3>1. PICK service \in ServiceId, terms \in Terms :
            world' = [world EXCEPT !.terms[service] = terms]
      BY <2>2 DEF RegistryMoves
    <3>2. QED
      BY <3>1 DEF WorldOK, WorldShape
  <2>3. QED
    BY <2>1, <2>2
<1>2. /\ \A x : DebitsIn(world', x) = DebitsIn(world, x)
      /\ \A x : AmountsIn(world', x) = AmountsIn(world, x)
      /\ \A x, last : Burst(world', x, last) = Burst(world, x, last)
      /\ TimesIn(world') = TimesIn(world) /\ BalancesIn(world') = BalancesIn(world)
  BY <1>1 DEF DebitsIn, AmountsIn, Burst, TimesIn, BalancesIn
<1>3. PoliciesOK(world') /\ BooksOK(world') /\ TimesOK(world', t)
  BY <1>1, <1>2 DEF WorldOK, PoliciesOK, BooksOK, TimesOK
<1>4. MoneyOK(world') /\ RingsOK(world') /\ RatesOK(world')
  BY <1>1, <1>2 DEF WorldOK, MoneyOK, RingsOK, RatesOK
<1>5. QED
  BY <1>1, <1>3, <1>4 DEF WorldOK

\* Time passes over a world.
LEMMA LaterOK ==
  ASSUME NEW t \in Nat, NEW w, WorldOK(w, t)
  PROVE  WorldOK(w, t + 1)
<1>1. TimesOK(w, t + 1)
  BY DebitsTyped DEF WorldOK, TimesOK
<1>2. QED
  BY <1>1 DEF WorldOK

-----------------------------------------------------------------------------
(***************************************************************************)
(* The stack of worlds to return to.                                       *)
(***************************************************************************)

\* A call keeps the world it starts from.
LEMMA CallOutOK ==
  ASSUME GuardInv, NEW after, CallOut(after), UNCHANGED now
  PROVE  FramesOK'
<1>1. PICK S : frames \in Seq(S)
  BY DEF GuardInv, FramesOK
<1>2. frames \in Seq(S \cup {world}) /\ world \in S \cup {world}
  BY <1>1
<1>3. frames' = Append(frames, world) /\ Len(frames) < MaxDepth
  BY DEF CallOut
<1>4. /\ frames' \in Seq(S \cup {world}) /\ Len(frames') <= MaxDepth
      /\ \A i \in DOMAIN frames' :
           \/ i \in DOMAIN frames /\ frames'[i] = frames[i]
           \/ frames'[i] = world
  BY <1>2, <1>3, BoundAssumption
<1>5. \A i \in DOMAIN frames' : WorldOK(frames'[i], now)
  BY <1>4 DEF GuardInv, FramesOK
<1>6. QED
  BY <1>4, <1>5 DEF FramesOK

\* A call that ends leaves the worlds below it.
LEMMA ReturnOK ==
  ASSUME GuardInv, frames # <<>>, frames' = SubSeq(frames, 1, Len(frames) - 1),
         UNCHANGED now
  PROVE  FramesOK' /\ WorldOK(frames[Len(frames)], now)
<1>1. PICK S : frames \in Seq(S)
  BY DEF GuardInv, FramesOK
<1>2. Len(frames) \in DOMAIN frames /\ Len(frames) <= MaxDepth
  BY <1>1 DEF GuardInv, FramesOK
<1>3. /\ frames' \in Seq(S) /\ Len(frames') <= MaxDepth
      /\ \A i \in DOMAIN frames' : i \in DOMAIN frames /\ frames'[i] = frames[i]
  BY <1>1, <1>2, BoundAssumption
<1>4. \A i \in DOMAIN frames' : WorldOK(frames'[i], now)
  BY <1>3 DEF GuardInv, FramesOK
<1>5. QED
  BY <1>2, <1>3, <1>4 DEF GuardInv, FramesOK

\* No step breaks the invariant.
LEMMA NextGuardInv == GuardInv /\ [Next]_vars => GuardInv'
<1> SUFFICES ASSUME GuardInv, [Next]_vars PROVE GuardInv'
  OBVIOUS
<1> USE DEF GuardInv
<1>1. ASSUME WorldOK(world', now), UNCHANGED <<now, frames>> PROVE GuardInv'
  BY <1>1 DEF FramesOK
<1>2. ASSUME NEW sender \in Account, NEW c \in Config, OpenPolicy(sender, c) PROVE GuardInv'
  BY <1>1, <1>2, OpenPolicyOK DEF OpenPolicy
<1>3. ASSUME NEW id \in PolicyId, NEW value \in Amount, Deposit(id, value) PROVE GuardInv'
  BY <1>1, <1>3, DepositOK DEF Deposit
<1>4. ASSUME NEW sender \in Account, NEW payTo \in Account, NEW id \in PolicyId,
             NEW service \in ServiceId, NEW amount \in Amount, NEW nonce \in Nonce,
             Debit(sender, id, service, amount, payTo, nonce)
      PROVE  GuardInv'
  <2>1. UNCHANGED now /\ now \in Nat
    BY <1>4, BoundAssumption DEF Debit
  <2>2. WorldOK(world', now)
    BY <1>4, <2>1, DebitOK
  <2>3. FramesOK'
    BY <1>4, <2>1, CallOutOK DEF Debit
  <2>4. QED
    BY <2>1, <2>2, <2>3
<1>5. ASSUME NEW sender \in Account, NEW to \in Account, NEW id \in PolicyId,
             NEW amount \in Amount, Withdraw(sender, id, amount, to)
      PROVE  GuardInv'
  <2>1. WorldOK(world', now) /\ UNCHANGED now
    BY <1>5, WithdrawOK DEF Withdraw
  <2>2. FramesOK'
    BY <1>5, <2>1, CallOutOK DEF Withdraw
  <2>3. QED
    BY <2>1, <2>2
<1>6. CASE CallReturns
  BY <1>6, ReturnOK DEF CallReturns
<1>7. CASE CallReverts
  BY <1>7, ReturnOK DEF CallReverts
<1>8. ASSUME NEW sender \in Account, NEW id \in PolicyId, NEW paused \in BOOLEAN,
             Pause(sender, id, paused)
      PROVE  GuardInv'
  BY <1>1, <1>8, PauseOK DEF Pause
<1>9. ASSUME NEW sender \in Account, NEW id \in PolicyId, NEW service \in ServiceId,
             NEW allowed \in BOOLEAN, SetServiceAllowed(sender, id, service, allowed)
      PROVE  GuardInv'
  BY <1>1, <1>9, OtherOK DEF SetServiceAllowed
<1>10. ASSUME NEW service \in ServiceId, NEW terms \in Terms, RegistryMoves(service, terms)
       PROVE  GuardInv'
  BY <1>1, <1>10, OtherOK DEF RegistryMoves
<1>11. CASE Tick
  <2>1. /\ now' = now + 1 /\ now \in Nat /\ now' \in 0 .. MaxTime
        /\ UNCHANGED <<world, frames>>
    BY <1>11, BoundAssumption DEF Tick
  <2>2. WorldOK(world, now + 1)
    BY <2>1, LaterOK
  <2>3. \A i \in DOMAIN frames : WorldOK(frames[i], now + 1)
    BY <2>1, LaterOK DEF FramesOK
  <2>4. QED
    BY <2>1, <2>2, <2>3 DEF FramesOK
<1>12. CASE UNCHANGED vars
  BY <1>12 DEF vars, FramesOK
<1>13. QED
  BY <1>2, <1>3, <1>4, <1>5, <1>6, <1>7, <1>8, <1>9, <1>10, <1>11, <1>12 DEF Next

-----------------------------------------------------------------------------
(***************************************************************************)
(* The theorems about tiers, which need no invariant.                      *)
(***************************************************************************)

\* The tier the contract enforces is the badge the dashboard shows, for every
\* score the registry can hold (it never has more successes than calls).
THEOREM TierMatchesBadge ==
  ASSUME NEW total \in Nat, NEW success \in 0 .. total
  PROVE  TierOf(total, success) = Badge(total, success)
  BY DEF TierOf, Badge

\* A served call never costs a service its tier: recordAttestation adds one to
\* both counters, and both ratios and both lengths only move towards it.
THEOREM SuccessNeverLowersTier ==
  ASSUME NEW total \in Nat, NEW success \in 0 .. total
  PROVE  TierOf(total + 1, success + 1) >= TierOf(total, success)
<1>1. CASE total >= 25 /\ success * 100 >= total * 95
  <2>1. (success + 1) * 100 >= (total + 1) * 95
    BY <1>1
  <2>2. QED
    BY <1>1, <2>1 DEF TierOf
<1>2. CASE /\ total >= 5 /\ success * 10 >= total * 9
           /\ ~(total >= 25 /\ success * 100 >= total * 95)
  <2>1. (success + 1) * 10 >= (total + 1) * 9
    BY <1>2
  <2>2. QED
    BY <1>2, <2>1 DEF TierOf
<1>3. CASE TierOf(total, success) = 0
  BY <1>3 DEF TierOf
<1>4. QED
  BY <1>1, <1>2, <1>3 DEF TierOf

\* One failed call, which recordAttestation counts in totalCalls alone, costs a
\* service one tier at most: what was trusted is still reliable.
THEOREM FailureCostsOneTier ==
  ASSUME NEW total \in Nat, NEW success \in 0 .. total
  PROVE  TierOf(total + 1, success) >= TierOf(total, success) - 1
<1>1. CASE total >= 25 /\ success * 100 >= total * 95
  <2>1. success * 10 >= (total + 1) * 9
    BY <1>1
  <2>2. QED
    BY <1>1, <2>1 DEF TierOf
<1>2. CASE ~(total >= 25 /\ success * 100 >= total * 95)
  BY <1>2 DEF TierOf
<1>3. QED
  BY <1>1, <1>2

-----------------------------------------------------------------------------
(***************************************************************************)
(* The theorems.                                                           *)
(***************************************************************************)

\* The invariant holds throughout, the recipients' calls back included.
THEOREM GuardInvariant == Spec => []GuardInv
<1>1. Init => GuardInv
  BY InitGuardInv
<1>2. GuardInv /\ [Next]_vars => GuardInv'
  BY NextGuardInv
<1>3. QED
  BY <1>1, <1>2, PTL DEF Spec

\* However debits nest and revert, the router's settlements by the guard are its
\* approved debits, one each (debit of SpendGuard and pay of PaymentRouter).
THEOREM DebitsSettleOnce == Spec => []EveryDebitSettlesOnce
BY GuardInvariant, GuardInvImplies, PTL

\* What the contract holds is what it owes its policies, at every moment of
\* every nesting of calls back (deposit, debit and _withdraw).
THEOREM EscrowCovered == Spec => []EscrowIsCovered
BY GuardInvariant, GuardInvImplies, PTL

\* No policy ever spends more than its budget, and what it counts as spent is
\* what its approved debits moved, calls back and undone calls included.
THEOREM BudgetsHold == Spec => []SpendingWithinBudget
BY GuardInvariant, GuardInvImplies, PTL

\* For any cap, window and history, the ring's one read answers exactly the
\* question of the rate rule (_debit's look at the slot it will overwrite).
THEOREM RateCheckExact == Spec => []RateCheckIsExact
BY GuardInvariant, GuardInvImplies, PTL

\* No stretch of time as long as a policy's window ever holds more of its
\* approved debits than its cap.
THEOREM RateCaps == Spec => []RateCapHolds
BY GuardInvariant, GuardInvImplies, PTL

\* Types, the bounds, and the shape of every ring.
THEOREM GuardTypes == Spec => []TypeOK
BY GuardInvariant, GuardInvImplies, PTL

=============================================================================
