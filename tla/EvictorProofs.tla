---------------------------- MODULE EvictorProofs ----------------------------
(***************************************************************************)
(* Which keys an evictor may still return, after a touch and after an      *)
(* eviction: the part of both policies that the cache relies on.           *)
(***************************************************************************)
EXTENDS Evictors, WellFoundedInduction, TLAPS

\* The head of a queue is tracked, and nothing else leaves with it (a FIFO
\* deque may keep other entries of the same key).
LEMMA TrackedAfterEvict ==
    ASSUME NEW S, NEW order \in Seq(S), order # <<>>
    PROVE  /\ Tail(order) \in Seq(S)
           /\ Head(order) \in S
           /\ Tracked(order) = Tracked(Tail(order)) \cup {Head(order)}
  BY DEF Tracked

\* A FIFO touch adds its key.
LEMMA TrackedAfterFifoTouch ==
    ASSUME NEW S, NEW order \in Seq(S), NEW k \in S
    PROVE  /\ FifoTouch(order, k) \in Seq(S)
           /\ Tracked(FifoTouch(order, k)) = Tracked(order) \cup {k}
  BY DEF FifoTouch, Tracked

\* Taking one entry out of a sequence, and which entries are left.
LEMMA RemoveAtEntries ==
    ASSUME NEW S, NEW s \in Seq(S), NEW i \in 1..Len(s)
    PROVE  /\ RemoveAt(s, i) \in Seq(S)
           /\ Len(RemoveAt(s, i)) = Len(s) - 1
           /\ \A j \in 1..i - 1 : RemoveAt(s, i)[j] = s[j]
           /\ \A j \in i..Len(s) - 1 : RemoveAt(s, i)[j] = s[j + 1]
<1>. DEFINE front == SubSeq(s, 1, i - 1)
            rest == SubSeq(s, i + 1, Len(s))
<1>0. Len(s) \in Nat /\ i \in Int /\ 1 <= i /\ i <= Len(s)
  OBVIOUS
<1>1. /\ front \in Seq(S)
      /\ Len(front) = i - 1
      /\ \A j \in 1..i - 1 : front[j] = s[j]
  OBVIOUS
<1>2. /\ rest \in Seq(S)
      /\ Len(rest) = Len(s) - i
      /\ \A j \in 1..Len(s) - i : rest[j] = s[j + i]
  OBVIOUS
<1>3. RemoveAt(s, i) = front \o rest
  BY DEF RemoveAt
<1>. HIDE DEF front, rest
<1>4. front \o rest \in Seq(S) /\ Len(front \o rest) = Len(s) - 1
  <2>0. front \in Seq(S) /\ rest \in Seq(S)
    BY <1>1, <1>2
  <2>1. front \o rest \in Seq(S)
    BY <2>0
  <2>2. Len(front \o rest) = Len(front) + Len(rest)
    BY <2>0
  <2>. QED
    BY <2>1, <2>2, <1>0, <1>1, <1>2
<1>5. ASSUME NEW j \in 1..i - 1
      PROVE  (front \o rest)[j] = s[j]
  BY <1>0, <1>1, <1>2
<1>6. ASSUME NEW j \in i..Len(s) - 1
      PROVE  (front \o rest)[j] = s[j + 1]
  <2>1. (front \o rest)[j] = rest[j - (i - 1)]
    BY <1>0, <1>1, <1>2
  <2>2. j - (i - 1) \in 1..Len(s) - i /\ (j - (i - 1)) + i = j + 1
    BY <1>0
  <2>. QED
    BY <2>1, <2>2, <1>2
<1>. QED
  BY <1>3, <1>4, <1>5, <1>6

\* Moving one entry to the back.
LEMMA MoveToBack ==
    ASSUME NEW S, NEW s \in Seq(S), NEW i \in 1..Len(s)
    PROVE  LET t == Append(RemoveAt(s, i), s[i])
           IN  /\ t \in Seq(S) /\ Len(t) = Len(s) /\ t[Len(s)] = s[i]
               /\ \A j \in 1..i - 1 : t[j] = s[j]
               /\ \A j \in i..Len(s) - 1 : t[j] = s[j + 1]
<1>. DEFINE u == RemoveAt(s, i)
            t == Append(u, s[i])
<1>1. /\ u \in Seq(S) /\ Len(u) = Len(s) - 1 /\ Len(s) \in Nat /\ s[i] \in S
      /\ \A j \in 1..i - 1 : u[j] = s[j]
      /\ \A j \in i..Len(s) - 1 : u[j] = s[j + 1]
  BY RemoveAtEntries
<1>. HIDE DEF u
<1>2. /\ t \in Seq(S) /\ Len(t) = Len(u) + 1 /\ t[Len(u) + 1] = s[i]
      /\ \A j \in 1..Len(u) : t[j] = u[j]
  BY <1>1
<1>. HIDE DEF t
<1>3. t \in Seq(S) /\ Len(t) = Len(s) /\ t[Len(s)] = s[i]
  BY <1>1, <1>2
<1>4. \A j \in 1..Len(s) - 1 : t[j] = u[j]
  BY <1>1, <1>2
<1>. QED
  BY <1>1, <1>3, <1>4 DEF t, u

\* A set of natural numbers that is not empty has a least member.
LEMMA LeastMember ==
    ASSUME NEW I \in SUBSET Nat, I # {}
    PROVE  Min(I) \in I /\ \A y \in I : Min(I) <= y
<1>. DEFINE R == OpToRel(<, Nat)
<1>1. PICK x \in I : \A y \in I : ~ (<<y, x>> \in R)
  <2>. HIDE DEF R
  <2>1. IsWellFoundedOn(R, Nat)
    BY NatLessThanWellFounded DEF R
  <2>. QED
    BY <2>1, WFMin
<1>2. ASSUME NEW y \in I
      PROVE  x <= y
  <2>1. y < x => <<y, x>> \in {p \in Nat \X Nat : p[1] < p[2]}
    OBVIOUS
  <2>2. <<y, x>> \notin {p \in Nat \X Nat : p[1] < p[2]}
    BY <1>1 DEF OpToRel
  <2>. QED
    BY <2>1, <2>2
<1>. QED
  BY <1>2 DEF Min

\* RemoveFirst takes out an occurrence of its element, if there is one.
LEMMA RemoveFirstIsRemoveAt ==
    ASSUME NEW S, NEW s \in Seq(S), NEW e, \E i \in 1..Len(s) : s[i] = e
    PROVE  \E i \in 1..Len(s) : s[i] = e /\ RemoveFirst(s, e) = RemoveAt(s, i)
<1>. DEFINE I == {i \in 1..Len(s) : s[i] = e}
<1>1. RemoveFirst(s, e) = RemoveAt(s, Min(I))
  BY DEF RemoveFirst, SelectInSeq
<1>2. Min(I) \in I
  <2>1. I \in SUBSET Nat /\ I # {}
    OBVIOUS
  <2>. QED
    BY <2>1, LeastMember
<1>. QED
  BY <1>1, <1>2

\* The element that is taken out of a sequence where it occurs once, and of one
\* where it does not occur.
LEMMA RemoveOnlyOccurrence ==
    ASSUME NEW S, NEW s \in Seq(S), NEW i \in 1..Len(s),
           \A j \in 1..Len(s) : s[j] = s[i] => j = i
    PROVE  RemoveFirst(s, s[i]) = RemoveAt(s, i)
  BY RemoveFirstIsRemoveAt

LEMMA RemoveAbsent ==
    ASSUME NEW S, NEW s \in Seq(S), NEW e, \A j \in 1..Len(s) : s[j] # e
    PROVE  RemoveFirst(s, e) = s
  BY DEF RemoveFirst

\* A function on 1..n with the entries of a sequence of that length is the
\* sequence.
LEMMA FunctionIsSequence ==
    ASSUME NEW S, NEW t \in Seq(S), NEW n \in Nat, Len(t) = n, NEW f,
           f = [j \in 1..n |-> f[j]], \A j \in 1..n : f[j] = t[j]
    PROVE  f = t
  OBVIOUS

\* An LRU touch adds its key and loses none: taking the key out of the list
\* and putting it back leaves every other key where it can be evicted.
LEMMA TrackedAfterLruTouch ==
    ASSUME NEW S, NEW order \in Seq(S), NEW k \in S
    PROVE  /\ LruTouch(order, k) \in Seq(S)
           /\ Tracked(LruTouch(order, k)) = Tracked(order) \cup {k}
<1>. DEFINE left == RemoveFirst(order, k)
<1>1. left \in Seq(S) /\ Tracked(left) \cup {k} = Tracked(order) \cup {k}
  <2>1. CASE \A i \in 1..Len(order) : order[i] # k
    BY <2>1 DEF RemoveFirst
  <2>2. CASE \E i \in 1..Len(order) : order[i] = k
    <3>1. PICK i \in 1..Len(order) : order[i] = k /\ left = RemoveAt(order, i)
      BY <2>2, RemoveFirstIsRemoveAt
    <3>. HIDE DEF left
    <3>2. /\ left \in Seq(S)
          /\ Len(left) = Len(order) - 1
          /\ \A j \in 1..i - 1 : left[j] = order[j]
          /\ \A j \in i..Len(order) - 1 : left[j] = order[j + 1]
      BY <3>1, RemoveAtEntries
    <3>3. ASSUME NEW j \in 1..Len(left)
          PROVE  left[j] \in Tracked(order)
      <4>1. CASE j < i
        BY <4>1, <3>2 DEF Tracked
      <4>2. CASE j >= i
        BY <4>2, <3>2 DEF Tracked
      <4>. QED
        BY <4>1, <4>2, <3>2
    <3>4. ASSUME NEW j \in 1..Len(order), j # i
          PROVE  order[j] \in Tracked(left)
      <4>1. CASE j < i
        <5>1. j \in 1..Len(left) /\ left[j] = order[j]
          BY <4>1, <3>2
        <5>. QED
          BY <5>1 DEF Tracked
      <4>2. CASE j > i
        <5>1. j - 1 \in 1..Len(left) /\ left[j - 1] = order[j]
          BY <4>2, <3>2
        <5>. QED
          BY <5>1 DEF Tracked
      <4>. QED
        BY <4>1, <4>2, <3>4
    <3>5. Tracked(left) \subseteq Tracked(order)
      BY <3>3 DEF Tracked
    <3>6. Tracked(order) \subseteq Tracked(left) \cup {k}
      BY <3>1, <3>4 DEF Tracked
    <3>7. k \in Tracked(order)
      BY <3>1 DEF Tracked
    <3>. QED
      BY <3>2, <3>5, <3>6, <3>7
  <2>. QED
    BY <2>1, <2>2
<1>2. LruTouch(order, k) = FifoTouch(left, k)
  BY DEF LruTouch, FifoTouch
<1>. HIDE DEF left
<1>. QED
  BY <1>1, <1>2, TrackedAfterFifoTouch
============================================================================
