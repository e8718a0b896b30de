---------------------------- MODULE OrderProofs ----------------------------
(***************************************************************************)
(* Proof that the store evicts the entry whose last use is longest ago,    *)
(* when its policy is LRU: the list of the evictor, which also holds the   *)
(* keys of deleted entries, has the keys of entries in the order that the  *)
(* history of the calls says.                                              *)
(***************************************************************************)
EXTENDS EvictionOrder, CacheLibProofs

USE CacheAssumption

\* What holds of an LRU list, and of two keys in it.
NoRepeats(order) == \A i, j \in 1..Len(order) : order[i] = order[j] => i = j

Before(order, a, b) ==
    \E i, j \in 1..Len(order) : i < j /\ order[i] = a /\ order[j] = b

\* A touch repeats no key, puts its key behind all others, and leaves the
\* others in their order.
LEMMA TouchOrders ==
    ASSUME NEW S, NEW order \in Seq(S), NoRepeats(order), NEW k \in S
    PROVE  LET new == LruTouch(order, k)
           IN  /\ NoRepeats(new)
               /\ \A a, b : a # k /\ b # k /\ Before(order, a, b) => Before(new, a, b)
               /\ \A a \in Tracked(order) \ {k} : Before(new, a, k)
<1>. DEFINE new == LruTouch(order, k)
            n == Len(order)
<1>0. n \in Nat
  OBVIOUS
<1>1. CASE \A i \in 1..n : order[i] # k
  <2>1. new = Append(order, k)
    BY <1>1, RemoveAbsent DEF LruTouch
  <2>2. /\ Len(new) = n + 1 /\ new[n + 1] = k
        /\ \A i \in 1..n : new[i] = order[i]
    BY <2>1
  <2>. HIDE DEF new
  <2>3. NoRepeats(new)
    BY <1>0, <1>1, <2>2 DEF NoRepeats
  <2>4. \A a, b : Before(order, a, b) => Before(new, a, b)
    BY <1>0, <2>2 DEF Before
  <2>5. \A a \in Tracked(order) : Before(new, a, k)
    BY <1>0, <2>2 DEF Before, Tracked
  <2>. QED
    BY <2>3, <2>4, <2>5 DEF new
<1>2. CASE \E i \in 1..n : order[i] = k
  <2>1. PICK i \in 1..n : order[i] = k
    BY <1>2
  <2>2. new = Append(RemoveAt(order, i), order[i])
    <3>1. \A j \in 1..Len(order) : order[j] = order[i] => j = i
      BY <2>1 DEF NoRepeats
    <3>2. RemoveFirst(order, order[i]) = RemoveAt(order, i)
      BY <2>1, <3>1, RemoveOnlyOccurrence
    <3>. QED
      BY <2>1, <3>2 DEF LruTouch
  <2>3. /\ Len(new) = n /\ new[n] = k
        /\ \A j \in 1..i - 1 : new[j] = order[j]
        /\ \A j \in i..n - 1 : new[j] = order[j + 1]
    <3>1. order \in Seq(S) /\ i \in 1..Len(order)
      OBVIOUS
    <3>. DEFINE t == Append(RemoveAt(order, i), order[i])
    <3>2. /\ Len(t) = Len(order) /\ t[Len(order)] = order[i]
          /\ \A j \in 1..i - 1 : t[j] = order[j]
          /\ \A j \in i..Len(order) - 1 : t[j] = order[j + 1]
      BY ONLY <3>1, MoveToBack
    <3>. HIDE DEF t
    <3>3. new = t
      BY <2>2 DEF t
    <3>. HIDE DEF new
    <3>. QED
      BY <2>1, <3>2, <3>3
  <2>. HIDE DEF new
  <2>. DEFINE to(j) == IF j < i THEN j ELSE j - 1
              at(j) == IF j = n THEN i ELSE IF j < i THEN j ELSE j + 1
  <2>4. \A j \in 1..n : at(j) \in 1..n /\ new[j] = order[at(j)]
    BY <1>0, <2>1, <2>3
  <2>5. \A j \in 1..n : j # i => to(j) \in 1..n - 1 /\ new[to(j)] = order[j]
    BY <1>0, <2>1, <2>3
  <2>6. NoRepeats(new)
    <3>1. ASSUME NEW j \in 1..n, NEW l \in 1..n, new[j] = new[l]
          PROVE  j = l
      <4>1. at(j) = at(l)
        BY <2>4, <3>1 DEF NoRepeats
      <4>. QED
        BY <1>0, <2>1, <4>1
    <3>. QED
      BY <2>3, <3>1 DEF NoRepeats
  <2>7. ASSUME NEW a, NEW b, a # k, b # k, Before(order, a, b)
        PROVE  Before(new, a, b)
    <3>1. PICK j, l \in 1..n : j < l /\ order[j] = a /\ order[l] = b
      BY <2>7 DEF Before
    <3>2. j # i /\ l # i
      BY <2>1, <2>7, <3>1
    <3>3. to(j) \in 1..n /\ to(l) \in 1..n /\ to(j) < to(l)
      BY <1>0, <2>1, <3>1, <3>2
    <3>4. new[to(j)] = a /\ new[to(l)] = b
      BY <2>5, <3>1, <3>2
    <3>. HIDE DEF to
    <3>. QED
      BY <2>3, <3>3, <3>4 DEF Before
  <2>8. ASSUME NEW a \in Tracked(order), a # k
        PROVE  Before(new, a, k)
    <3>1. PICK j \in 1..n : order[j] = a
      BY <2>8 DEF Tracked
    <3>2. to(j) \in 1..n /\ n \in 1..n /\ to(j) < n /\ new[to(j)] = a
      BY <1>0, <2>1, <2>5, <2>8, <3>1
    <3>. HIDE DEF to
    <3>. QED
      BY <2>3, <3>2 DEF Before
  <2>. QED
    BY <2>6, <2>7, <2>8 DEF new
<1>. QED
  BY <1>1, <1>2

\* Nothing comes before the head, and what is left behind it stays in order.
LEMMA HeadLeaves ==
    ASSUME NEW S, NEW order \in Seq(S), NoRepeats(order), order # <<>>
    PROVE  /\ NoRepeats(Tail(order))
           /\ \A a : ~ Before(order, a, Head(order))
           /\ \A a, b : a # Head(order) /\ Before(order, a, b) => Before(Tail(order), a, b)
<1>. DEFINE n == Len(order)
            new == Tail(order)
<1>1. /\ n \in Nat \ {0} /\ 1 \in 1..n /\ Head(order) = order[1]
      /\ Len(new) = n - 1 /\ \A j \in 1..n - 1 : new[j] = order[j + 1]
  OBVIOUS
<1>. HIDE DEF new
<1>2. NoRepeats(new)
  <2>1. ASSUME NEW j \in 1..n - 1, NEW l \in 1..n - 1, new[j] = new[l]
        PROVE  j = l
    <3>1. j + 1 \in 1..n /\ l + 1 \in 1..n /\ order[j + 1] = order[l + 1]
      BY <1>1, <2>1
    <3>2. j + 1 = l + 1
      BY <3>1 DEF NoRepeats
    <3>. QED
      BY <3>2
  <2>. QED
    BY <1>1, <2>1 DEF NoRepeats
<1>3. ASSUME NEW a, Before(order, a, order[1])
      PROVE  FALSE
  <2>1. PICK j, l \in 1..n : j < l /\ order[l] = order[1]
    BY <1>3 DEF Before
  <2>2. l = 1
    BY <1>1, <2>1 DEF NoRepeats
  <2>. QED
    BY <2>1, <2>2
<1>4. ASSUME NEW a, NEW b, a # order[1], Before(order, a, b)
      PROVE  Before(new, a, b)
  <2>1. PICK j, l \in 1..n : j < l /\ order[j] = a /\ order[l] = b
    BY <1>4 DEF Before
  <2>2. j # 1
    BY <1>4, <2>1
  <2>3. /\ j - 1 \in 1..n - 1 /\ l - 1 \in 1..n - 1 /\ j - 1 < l - 1
        /\ (j - 1) + 1 = j /\ (l - 1) + 1 = l
    BY <1>1, <2>1, <2>2
  <2>4. new[j - 1] = a /\ new[l - 1] = b
    BY <1>1, <2>1, <2>3
  <2>. QED
    BY <1>1, <2>3, <2>4 DEF Before
<1>. QED
  BY <1>1, <1>2, <1>3, <1>4 DEF new

\* Without an element of a sequence, or without nothing.
LEMMA RemoveFirstStays ==
    ASSUME NEW S, NEW order \in Seq(S), NEW k
    PROVE  RemoveFirst(order, k) \in Seq(S)
<1>1. CASE \A i \in 1..Len(order) : order[i] # k
  BY <1>1, RemoveAbsent
<1>2. CASE \E i \in 1..Len(order) : order[i] = k
  <2>1. PICK i \in 1..Len(order) : RemoveFirst(order, k) = RemoveAt(order, i)
    BY <1>2, RemoveFirstIsRemoveAt
  <2>. QED
    BY <2>1, RemoveAtEntries
<1>. QED
  BY <1>1, <1>2

\* What a touch puts last tells which key it touched.
LEMMA LruTouchEndsWith ==
    ASSUME NEW S, NEW order \in Seq(S), NEW j \in S, NEW k \in S,
           LruTouch(order, j) = LruTouch(order, k)
    PROVE  j = k
<1>1. \A s \in Seq(S), e \in S : Append(s, e)[Len(Append(s, e))] = e
  OBVIOUS
<1>2. RemoveFirst(order, j) \in Seq(S) /\ RemoveFirst(order, k) \in Seq(S)
  BY RemoveFirstStays
<1>. QED
  BY <1>1, <1>2 DEF LruTouch

----------------------------------------------------------------------------
\* Any two entries were used one before the other, and the evictor has them in
\* that order.
Ordered ==
    /\ NoRepeats(evictor)
    /\ \A a, b \in Present(vals) :
          a # b => <<a, b>> \in usedBefore \/ <<b, a>> \in usedBefore
    /\ \A a, b \in Present(vals) :
          <<a, b>> \in usedBefore => a # b /\ Before(evictor, a, b)

OInv == Structure /\ Ordered

\* What the history says after a step.
LEMMA RecallSays ==
    ASSUME Recall
    PROVE  \A a, b \in Present(vals)' :
              <<a, b>> \in usedBefore' <=>
                 a # b /\ (Uses(b) \/ (~Uses(a) /\ <<a, b>> \in usedBefore))
<1>. DEFINE now == {k \in Key : Uses(k)}
<1>1. usedBefore' = {p \in EntryPairs' : p[2] \in now \/ (p[1] \notin now /\ p \in usedBefore)}
  BY DEF Recall
<1>2. \A a, b \in Present(vals)' : (a \in now <=> Uses(a)) /\ (<<a, b>> \in EntryPairs' <=> a # b)
  BY DEF Present, EntryPairs
<1>. HIDE DEF now
<1>. QED
  BY <1>1, <1>2

\* The maps have the same keys.
LEMMA SameEntriesInBoth == Structure => Present(sizes) = Present(vals)
<1>1. SizeOf \in [Val -> Size] /\ Absent \notin Size
  BY DEF CacheAssumption, Size
<1>. QED
  BY <1>1 DEF Structure, MapsInStep, TypeOK, Present

\* A use touches its key, which then has an entry.
LEMMA UseTouches ==
    ASSUME Policy = "lru", TypeOK, NEW k \in Key, Uses(k)
    PROVE  /\ evictor' = LruTouch(evictor, k)
           /\ Present(vals)' = Present(vals) \cup {k}
<1>1. evictor' = LruTouch(evictor, k)
  BY DEF Uses, SetFits, SetAfterEvictions, GetHit, Store, Touched
<1>2. CASE \E v \in Val : vals' = [vals EXCEPT ![k] = v]
  BY <1>1, <1>2 DEF TypeOK, Present, CacheAssumption
<1>3. CASE vals' = vals /\ vals[k] # Absent
  BY <1>1, <1>3 DEF Present
<1>4. (\E v \in Val : vals' = [vals EXCEPT ![k] = v]) \/ (vals' = vals /\ vals[k] # Absent)
  <2>1. CASE \E v \in Val : SetFits(k, v)
    BY <2>1 DEF SetFits, Store
  <2>2. CASE SetAfterEvictions /\ op.key = k
    <3>1. op \in SetCall
      BY <2>2 DEF TypeOK, SetAfterEvictions, LoopDone
    <3>2. op.val \in Val /\ vals' = [vals EXCEPT ![k] = op.val]
      BY <2>2, <3>1 DEF SetCall, SetAfterEvictions, Store
    <3>. QED
      BY <3>2
  <2>3. CASE GetHit(k)
    BY <2>3 DEF GetHit
  <2>. QED
    BY <2>1, <2>2, <2>3 DEF Uses
<1>. QED
  BY <1>1, <1>2, <1>3, <1>4

\* Any other step is a round of the loop, or leaves the evictor alone and adds
\* no entry.
LEMMA OtherSteps ==
    ASSUME TypeOK, [Next]_cacheVars, \A k \in Key : ~ Uses(k)
    PROVE  EvictOne \/ (evictor' = evictor /\ Present(vals)' \subseteq Present(vals))
<1>1. CASE UNCHANGED cacheVars
  BY <1>1 DEF cacheVars, Present
<1>2. ASSUME NEW k \in Key, NEW v \in Val,
             \/ SetTooLarge(k, v)
             \/ SetRejected(k, v)
             \/ SetMustEvict(k, v)
      PROVE  evictor' = evictor /\ vals' = vals
  BY <1>2 DEF SetTooLarge, SetRejected, SetMustEvict, storeVars, cacheVars
<1>3. ASSUME NEW k \in Key, NEW v \in Val, SetFits(k, v)
      PROVE  FALSE
  BY <1>3 DEF Uses
<1>4. ASSUME NEW k \in Key, GetHit(k)
      PROVE  FALSE
  BY <1>4 DEF Uses
<1>5. ASSUME NEW k \in Key, GetMiss(k) \/ DelMiss(k)
      PROVE  evictor' = evictor /\ vals' = vals
  BY <1>5 DEF GetMiss, DelMiss, cacheVars
<1>6. ASSUME NEW k \in Key, DelHit(k)
      PROVE  evictor' = evictor /\ Present(vals)' \subseteq Present(vals)
  BY <1>6 DEF DelHit, Erased, Present
<1>7. CASE Reset
  BY <1>7 DEF Reset, Present
<1>8. CASE SetAfterEvictions
  <2>1. op.key \in Key
    BY <1>8 DEF SetAfterEvictions, LoopDone, TypeOK, SetCall
  <2>. QED
    BY <1>8, <2>1 DEF Uses
<1>9. CASE SetThroughDanglingIterator
  BY <1>9 DEF SetThroughDanglingIterator, storeVars, Present
<1>10. vals' = vals => Present(vals)' \subseteq Present(vals)
  BY DEF Present
<1>. QED
  BY <1>1, <1>2, <1>3, <1>4, <1>5, <1>6, <1>7, <1>8, <1>9, <1>10 DEF Next, Call, SetStep

\* An eviction takes the head of the list, and only its entry.
LEMMA EvictionTakesHead ==
    ASSUME Policy = "lru", Structure, EvictOne, NEW k \in Key, vals[k] # Absent
    PROVE  /\ evictor \in Seq(Key) /\ evictor # <<>> /\ evictor' = Tail(evictor)
           /\ vals'[k] = IF k = Head(evictor) THEN Absent ELSE vals[k]
<1>1. k \in Present(sizes)
  BY SameEntriesInBoth DEF Present
<1>2. evictor \in Seq(Key) /\ evictor # <<>>
  BY <1>1 DEF Structure, TypeOK, EvictorKnowsEntries, Tracked
<1>. QED
  BY <1>2 DEF EvictOne, Discard, Erased, Victim, AfterEvict
----------------------------------------------------------------------------
LEMMA OInvInit == OrderInit => OInv
<1>. SUFFICES ASSUME OrderInit PROVE OInv
  OBVIOUS
<1>1. Structure
  BY StructureInit DEF OrderInit
<1>2. Ordered
  BY DEF OrderInit, Init, Ordered, NoRepeats, Present
<1>. QED
  BY <1>1, <1>2 DEF OInv

LEMMA OInvStep ==
    ASSUME Policy = "lru"
    PROVE  OInv /\ [OrderNext]_orderVars => OInv'
<1>. SUFFICES ASSUME OInv, [OrderNext]_orderVars PROVE OInv'
  OBVIOUS
<1>0. Structure /\ Ordered /\ TypeOK /\ Structure' /\ [Next]_cacheVars
  BY StructureStep DEF OInv, Structure, OrderNext, orderVars, cacheVars
<1>1. CASE UNCHANGED orderVars
  <2>1. Ordered'
    BY <1>0, <1>1 DEF Ordered, NoRepeats, Before, Present, orderVars, cacheVars
  <2>. QED
    BY <1>0, <2>1 DEF OInv
<1>2. ASSUME Recall, NEW k \in Key, Uses(k)
      PROVE  Ordered'
  <2>1. evictor' = LruTouch(evictor, k) /\ Present(vals)' = Present(vals) \cup {k}
    BY <1>0, <1>2, UseTouches
  <2>2. \A j \in Key : Uses(j) => j = k
    <3>1. ASSUME NEW j \in Key, Uses(j)
          PROVE  j = k
      <4>1. LruTouch(evictor, j) = LruTouch(evictor, k)
        BY <1>0, <2>1, <3>1, UseTouches
      <4>. QED
        BY <1>0, <4>1, LruTouchEndsWith DEF TypeOK
    <3>. QED
      BY <3>1
  <2>3. /\ NoRepeats(evictor')
        /\ \A a, b : a # k /\ b # k /\ Before(evictor, a, b) => Before(evictor', a, b)
        /\ \A a \in Tracked(evictor) \ {k} : Before(evictor', a, k)
    BY <1>0, <2>1, TouchOrders DEF TypeOK, Ordered
  <2>4. \A a \in Present(vals) : a \in Tracked(evictor) /\ a \in Key
    BY <1>0, SameEntriesInBoth DEF Structure, EvictorKnowsEntries, Present
  <2>5. \A a, b \in Present(vals)' :
           <<a, b>> \in usedBefore' <=>
              a # b /\ (b = k \/ (a # k /\ <<a, b>> \in usedBefore))
    BY <1>2, <2>1, <2>2, <2>4, RecallSays
  <2>6. ASSUME NEW a \in Present(vals)', NEW b \in Present(vals)', a # b
        PROVE  <<a, b>> \in usedBefore' \/ <<b, a>> \in usedBefore'
    BY <1>0, <2>1, <2>5, <2>6 DEF Ordered
  <2>7. ASSUME NEW a \in Present(vals)', NEW b \in Present(vals)', <<a, b>> \in usedBefore'
        PROVE  a # b /\ Before(evictor', a, b)
    <3>1. a # b /\ (b = k \/ (a # k /\ <<a, b>> \in usedBefore))
      BY <2>5, <2>7
    <3>2. CASE b = k
      BY <2>1, <2>3, <2>4, <3>1, <3>2
    <3>3. CASE b # k
      BY <1>0, <2>1, <2>3, <3>1, <3>3 DEF Ordered
    <3>. QED
      BY <3>1, <3>2, <3>3
  <2>. QED
    BY <2>3, <2>6, <2>7 DEF Ordered, NoRepeats, Before
<1>3. ASSUME Recall, \A k \in Key : ~ Uses(k)
      PROVE  Ordered'
  <2>1. \A a, b \in Present(vals)' :
           <<a, b>> \in usedBefore' <=> a # b /\ <<a, b>> \in usedBefore
    BY <1>3, RecallSays DEF Present
  <2>2. CASE evictor' = evictor /\ Present(vals)' \subseteq Present(vals)
    <3>1. NoRepeats(evictor)'
      BY <1>0, <2>2 DEF Ordered, NoRepeats
    <3>2. \A a, b : Before(evictor, a, b)' <=> Before(evictor, a, b)
      BY <2>2 DEF Before
    <3>. QED
      BY <1>0, <2>1, <2>2, <3>1, <3>2 DEF Ordered
  <2>3. CASE EvictOne
    <3>1. CASE Present(vals) = {}
      <4>1. Present(vals)' = {}
        BY <2>3, <3>1 DEF EvictOne, Discard, Erased, Present
      <4>2. NoRepeats(evictor)'
        <5>1. CASE evictor = <<>>
          BY <1>0, <2>3, <5>1 DEF EvictOne, AfterEvict, Ordered, NoRepeats
        <5>2. CASE evictor # <<>>
          BY <1>0, <2>3, <5>2, HeadLeaves
             DEF EvictOne, AfterEvict, Ordered, NoRepeats, TypeOK
        <5>. QED
          BY <5>1, <5>2
      <4>. QED
        BY <4>1, <4>2 DEF Ordered
    <3>2. CASE Present(vals) # {}
      <4>1. /\ evictor \in Seq(Key) /\ evictor # <<>> /\ evictor' = Tail(evictor)
            /\ \A k \in Present(vals) :
                  vals'[k] = IF k = Head(evictor) THEN Absent ELSE vals[k]
        BY <1>0, <2>3, <3>2, EvictionTakesHead DEF Present
      <4>2. /\ NoRepeats(evictor')
            /\ \A a, b : a # Head(evictor) /\ Before(evictor, a, b)
                            => Before(evictor', a, b)
        BY <1>0, <4>1, HeadLeaves DEF Ordered
      <4>3. Present(vals)' \subseteq Present(vals) \ {Head(evictor)}
        <5>1. Present(vals)' \subseteq Present(vals)
          BY <2>3 DEF EvictOne, Discard, Erased, Present
        <5>. QED
          BY <4>1, <5>1 DEF Present
      <4>4. NoRepeats(evictor)' /\ \A a, b : Before(evictor', a, b) <=> Before(evictor, a, b)'
        BY <4>2 DEF NoRepeats, Before
      <4>. QED
        BY <1>0, <2>1, <4>2, <4>3, <4>4 DEF Ordered
    <3>. QED
      BY <3>1, <3>2
  <2>. QED
    BY <1>0, <1>3, <2>2, <2>3, OtherSteps
<1>. QED
  BY <1>0, <1>1, <1>2, <1>3 DEF OInv, OrderNext

LEMMA OInvariant ==
    ASSUME Policy = "lru"
    PROVE  OrderSpec => []OInv
  BY OInvInit, OInvStep, PTL DEF OrderSpec

\* With the LRU policy every eviction takes the entry that was set or got the
\* longest time ago, through any mix of overwrites, deletions, resets and
\* evictions of keys without an entry.
THEOREM LeastRecentlyUsedGoesFirst ==
    ASSUME Policy = "lru"
    PROVE  OrderSpec => EvictsLeastRecentlyUsed
<1>. DEFINE Turn == \A k \in Key : Evicts(k) =>
                       \A j \in Present(vals) \ {k} : <<k, j>> \in usedBefore
<1>1. OInv => Turn
  <2>. SUFFICES ASSUME OInv, NEW k \in Key, Evicts(k), NEW j \in Present(vals), j # k
                PROVE  <<k, j>> \in usedBefore
    OBVIOUS
  <2>1. k = Head(evictor) /\ evictor \in Seq(Key) /\ evictor # <<>>
    BY EvictionTakesHead DEF OInv, Evicts
  <2>2. ~ Before(evictor, j, k)
    BY <2>1, HeadLeaves DEF OInv, Ordered
  <2>3. k \in Present(vals)
    BY DEF Evicts, Present
  <2>. QED
    BY <2>2, <2>3 DEF OInv, Ordered
<1>. QED
  BY <1>1, OInvariant, PTL DEF OrderSpec, EvictsLeastRecentlyUsed
============================================================================
