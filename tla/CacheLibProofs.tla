--------------------------- MODULE CacheLibProofs ---------------------------
(***************************************************************************)
(* Proofs about Cache::Impl, for every set of keys and values, every       *)
(* allowance and every policy.                                             *)
(***************************************************************************)
EXTENDS CacheLib, EvictorProofs, FiniteSetTheorems, TLAPS

----------------------------------------------------------------------------
(* How the space of a size table changes when one entry is added, dropped  *)
(* or overwritten.                                                         *)

\* A size table with finitely many storage units.
SizeTable(sz) ==
    /\ sz \in [Key -> Nat \cup {Absent}]
    /\ Absent \notin Nat
    /\ IsFiniteSet(Bytes(sz))

\* An entry of size n takes n units of storage.
LEMMA RowSize ==
    ASSUME NEW k, NEW n \in Nat
    PROVE  IsFiniteSet(Row(k, n)) /\ Cardinality(Row(k, n)) = n
<1>1. IsFiniteSet({k}) /\ Cardinality({k}) = 1
  BY FS_Singleton
<1>2. IsFiniteSet(1..n) /\ Cardinality(1..n) = n
  BY FS_Interval
<1>3. /\ IsFiniteSet({k} \X (1..n))
      /\ Cardinality({k} \X (1..n)) = Cardinality({k}) * Cardinality(1..n)
  BY <1>1, <1>2, FS_Product
<1>. QED
  BY <1>1, <1>2, <1>3 DEF Row

\* A table without entries takes no space.
LEMMA SpaceOfEmpty ==
    ASSUME Absent \notin Nat
    PROVE  LET sz == [k \in Key |-> Absent]
           IN  SizeTable(sz) /\ SpaceOf(sz) = 0
<1>. DEFINE sz == [k \in Key |-> Absent]
<1>1. Bytes(sz) = {}
  BY DEF Bytes, Present
<1>. QED
  BY <1>1, FS_EmptySet DEF SizeTable, SpaceOf

\* Adding an entry of size n under a key without one takes n more units.
LEMMA SpaceOfInsert ==
    ASSUME NEW sz, SizeTable(sz),
           NEW k \in Key, sz[k] = Absent,
           NEW n \in Nat
    PROVE  LET new == [sz EXCEPT ![k] = n]
           IN  SizeTable(new) /\ SpaceOf(new) = SpaceOf(sz) + n
<1>. DEFINE new == [sz EXCEPT ![k] = n]
<1>0. new \in [Key -> Nat \cup {Absent}]
  BY DEF SizeTable
<1>1. Present(new) = Present(sz) \cup {k}
  BY DEF Present, SizeTable
<1>2. Bytes(new) = Bytes(sz) \cup Row(k, n)
  <2>1. \A j \in Present(sz) : j # k /\ Row(j, new[j]) = Row(j, sz[j])
    BY DEF Present, SizeTable
  <2>2. new[k] = n
    BY DEF SizeTable
  <2>. QED
    BY <1>1, <2>1, <2>2 DEF Bytes
<1>3. Bytes(sz) \cap Row(k, n) = {}
  BY DEF Bytes, Row, Present
<1>4. /\ IsFiniteSet(Bytes(new))
      /\ Cardinality(Bytes(new)) = Cardinality(Bytes(sz)) + n
  <2>1. IsFiniteSet(Bytes(sz)) /\ Cardinality(Bytes(sz)) \in Nat
    BY FS_CardinalityType DEF SizeTable
  <2>2. IsFiniteSet(Row(k, n)) /\ Cardinality(Row(k, n)) = n
    BY RowSize
  <2>3. /\ IsFiniteSet(Bytes(sz) \cup Row(k, n))
        /\ Cardinality(Bytes(sz) \cup Row(k, n))
             = Cardinality(Bytes(sz)) + Cardinality(Row(k, n)) - Cardinality({})
    BY <1>3, <2>1, <2>2, FS_Union
  <2>4. Cardinality({}) = 0
    BY FS_EmptySet
  <2>. HIDE DEF new
  <2>. QED
    BY <1>2, <2>1, <2>2, <2>3, <2>4
<1>. QED
  BY <1>0, <1>4 DEF SizeTable, SpaceOf

\* Dropping an entry gives back exactly its size, which the table had.
LEMMA SpaceOfDrop ==
    ASSUME NEW sz, SizeTable(sz),
           NEW k \in Key, sz[k] # Absent
    PROVE  LET new == [j \in Key |-> IF j = k THEN Absent ELSE sz[j]]
           IN  /\ SizeTable(new)
               /\ sz[k] \in Nat
               /\ SpaceOf(new) \in Nat
               /\ SpaceOf(sz) = SpaceOf(new) + sz[k]
<1>. DEFINE new == [j \in Key |-> IF j = k THEN Absent ELSE sz[j]]
<1>0. new \in [Key -> Nat \cup {Absent}] /\ new[k] = Absent /\ sz[k] \in Nat
  BY DEF SizeTable
<1>1. Bytes(new) \subseteq Bytes(sz)
  <2>1. Present(new) \subseteq Present(sz)
    BY DEF Present
  <2>2. \A j \in Present(new) : Row(j, new[j]) = Row(j, sz[j])
    BY DEF Present
  <2>. QED
    BY <2>1, <2>2 DEF Bytes
<1>2. SizeTable(new)
  BY <1>0, <1>1, FS_Subset DEF SizeTable
<1>3. [new EXCEPT ![k] = sz[k]] = sz
  BY <1>0 DEF SizeTable
<1>4. SpaceOf(sz) = SpaceOf(new) + sz[k]
  BY <1>0, <1>2, <1>3, SpaceOfInsert
<1>5. SpaceOf(new) \in Nat
  BY <1>2, FS_CardinalityType DEF SizeTable, SpaceOf
<1>. QED
  BY <1>0, <1>2, <1>4, <1>5
----------------------------------------------------------------------------
(* Unsigned arithmetic.                                                    *)

USE CacheAssumption

\* A sum that stays below the modulus is exact, one that reaches it wraps.
LEMMA AddWraps ==
    ASSUME NEW a \in Size, NEW b \in Size
    PROVE  /\ Add(a, b) \in Size
           /\ a + b < SizeMod => Add(a, b) = a + b
           /\ a + b >= SizeMod => Add(a, b) = a + b - SizeMod
  BY DEF Add, Size

\* A difference is exact unless it is negative, when it wraps.
LEMMA SubWraps ==
    ASSUME NEW a \in Size, NEW b \in Size
    PROVE  /\ Sub(a, b) \in Size
           /\ b <= a => Sub(a, b) = a - b
           /\ b > a => Sub(a, b) = a - b + SizeMod
  BY DEF Sub, Size

\* A number is a multiple of the modulus and its remainder.
LEMMA Division ==
    ASSUME NEW a \in Int
    PROVE  \E q \in Int : a = SizeMod * q + (a % SizeMod) /\ a % SizeMod \in Size
<1>1. a % SizeMod \in Size /\ a \div SizeMod \in Int
  BY DEF Size
<1>2. a = SizeMod * (a \div SizeMod) + (a % SizeMod)
  OBVIOUS
<1>. QED
  BY <1>1, <1>2

\* The only multiple of the modulus between minus it and it is zero.
LEMMA OnlyZeroIsNear ==
    ASSUME NEW q \in Int, -SizeMod < SizeMod * q, SizeMod * q < SizeMod
    PROVE  q = 0
<1>1. CASE q >= 1
  <2>1. SizeMod * q >= SizeMod
    BY <1>1
  <2>. QED
    BY <2>1
<1>2. CASE q <= -1
  <2>1. -q \in Nat /\ -q >= 1
    BY <1>2
  <2>2. SizeMod * (-q) >= SizeMod
    BY <2>1
  <2>3. SizeMod * (-q) = -(SizeMod * q)
    OBVIOUS
  <2>. QED
    BY <2>2, <2>3
<1>. QED
  BY <1>1, <1>2

\* So there is one way only to write a number like that.
LEMMA RemainderIsUnique ==
    ASSUME NEW a \in Int, NEW r \in Size, \E q \in Int : a = SizeMod * q + r
    PROVE  a % SizeMod = r
<1>. DEFINE s == a % SizeMod
<1>0. PICK q \in Int : a = SizeMod * q + r
  OBVIOUS
<1>1. PICK p \in Int : a = SizeMod * p + s /\ s \in Size
  BY Division
<1>. HIDE DEF s
<1>2. SizeMod * (q - p) = s - r
  BY <1>0, <1>1 DEF Size
<1>3. q - p = 0
  <2>1. -SizeMod < SizeMod * (q - p) /\ SizeMod * (q - p) < SizeMod
    BY <1>1, <1>2 DEF Size
  <2>. QED
    BY <2>1, OnlyZeroIsNear
<1>4. SizeMod * (q - p) = 0
  BY <1>3
<1>. QED
  BY <1>1, <1>2, <1>4 DEF s, Size

\* A counter that has wrapped around goes on counting: sums and differences of
\* remainders are the remainders of sums and differences.
LEMMA AddModulo ==
    ASSUME NEW a \in Int, NEW b \in Size
    PROVE  Add(a % SizeMod, b) = (a + b) % SizeMod
<1>. DEFINE r == a % SizeMod
<1>1. PICK q \in Int : a = SizeMod * q + r /\ r \in Size
  BY Division
<1>. HIDE DEF r
<1>2. CASE r + b < SizeMod
  <2>1. a + b = SizeMod * q + (r + b) /\ r + b \in Size
    BY <1>1, <1>2 DEF Size
  <2>2. a + b \in Int /\ q \in Int
    BY DEF Size
  <2>3. (a + b) % SizeMod = r + b
    BY <2>1, <2>2, RemainderIsUnique
  <2>. QED
    BY <1>1, <1>2, <2>3, AddWraps DEF r
<1>3. CASE r + b >= SizeMod
  <2>1. a + b = SizeMod * (q + 1) + (r + b - SizeMod) /\ r + b - SizeMod \in Size
    BY <1>1, <1>3 DEF Size
  <2>2. a + b \in Int /\ (q + 1) \in Int
    BY DEF Size
  <2>3. (a + b) % SizeMod = r + b - SizeMod
    BY <2>1, <2>2, RemainderIsUnique
  <2>. QED
    BY <1>1, <1>3, <2>3, AddWraps DEF r
<1>. QED
  BY <1>1, <1>2, <1>3 DEF Size

LEMMA SubModulo ==
    ASSUME NEW a \in Int, NEW b \in Size
    PROVE  Sub(a % SizeMod, b) = (a - b) % SizeMod
<1>. DEFINE r == a % SizeMod
<1>1. PICK q \in Int : a = SizeMod * q + r /\ r \in Size
  BY Division
<1>. HIDE DEF r
<1>2. CASE b <= r
  <2>1. a - b = SizeMod * q + (r - b) /\ r - b \in Size
    BY <1>1, <1>2 DEF Size
  <2>2. a - b \in Int /\ q \in Int
    BY DEF Size
  <2>3. (a - b) % SizeMod = r - b
    BY <2>1, <2>2, RemainderIsUnique
  <2>. QED
    BY <1>1, <1>2, <2>3, SubWraps DEF r
<1>3. CASE b > r
  <2>1. a - b = SizeMod * (q - 1) + (r - b + SizeMod) /\ r - b + SizeMod \in Size
    BY <1>1, <1>3 DEF Size
  <2>2. a - b \in Int /\ (q - 1) \in Int
    BY DEF Size
  <2>3. (a - b) % SizeMod = r - b + SizeMod
    BY <2>1, <2>2, RemainderIsUnique
  <2>. QED
    BY <1>1, <1>3, <2>3, SubWraps DEF r
<1>. QED
  BY <1>1, <1>2, <1>3 DEF Size

\* What an overwrite adds: the new size, less the old one.
LEMMA OverwriteModulo ==
    ASSUME NEW a \in Int, NEW b \in Size, NEW c \in Size
    PROVE  Add((a + b) % SizeMod, Sub(c, b)) = (a + c) % SizeMod
<1>1. a + b \in Int /\ Sub(c, b) \in Size
  BY SubWraps DEF Size
<1>2. Add((a + b) % SizeMod, Sub(c, b)) = (a + b + Sub(c, b)) % SizeMod
  BY <1>1, AddModulo
<1>3. CASE b <= c
  <2>1. a + b + Sub(c, b) = a + c
    BY <1>3, SubWraps DEF Size
  <2>. QED
    BY <1>2, <2>1
<1>4. CASE b > c
  <2>1. a + b + Sub(c, b) = a + c + SizeMod
    BY <1>4, SubWraps DEF Size
  <2>2. a + c \in Int /\ a + c + SizeMod \in Int
    BY DEF Size
  <2>3. PICK q \in Int : a + c = SizeMod * q + ((a + c) % SizeMod) /\ (a + c) % SizeMod \in Size
    BY <2>2, Division
  <2>. DEFINE r == (a + c) % SizeMod
  <2>4. a + c + SizeMod = SizeMod * (q + 1) + r /\ r \in Size /\ q + 1 \in Int
    BY <2>2, <2>3 DEF Size
  <2>. HIDE DEF r
  <2>5. (a + c + SizeMod) % SizeMod = r
    BY <2>2, <2>4, RemainderIsUnique
  <2>. QED
    BY <1>2, <2>1, <2>5 DEF r
<1>. QED
  BY <1>3, <1>4 DEF Size
----------------------------------------------------------------------------
(* The steps that several actions share.                                   *)

\* Whatever the policy, a touch keeps the evictor's type.
LEMMA TouchedType ==
    ASSUME TypeOK, NEW k \in Key
    PROVE  Touched(k) \in Seq(Key)
<1>. evictor \in Seq(Key)
  BY DEF TypeOK
<1>1. CASE Policy = "none"
  BY <1>1 DEF Touched
<1>2. CASE Policy = "lru"
  BY <1>2, TrackedAfterLruTouch DEF Touched
<1>3. CASE Policy = "fifo"
  BY <1>3, TrackedAfterFifoTouch DEF Touched
<1>. QED
  BY <1>1, <1>2, <1>3

\* A touch adds its key to what the evictor knows, if there is an evictor.
LEMMA TouchedTracks ==
    ASSUME TypeOK, NEW k \in Key, Policy # "none"
    PROVE  Tracked(Touched(k)) = Tracked(evictor) \cup {k}
<1>. evictor \in Seq(Key)
  BY DEF TypeOK
<1>1. CASE Policy = "lru"
  <2>1. Touched(k) = LruTouch(evictor, k)
    BY <1>1 DEF Touched
  <2>. QED
    BY <2>1, TrackedAfterLruTouch
<1>2. CASE Policy = "fifo"
  <2>1. Touched(k) = FifoTouch(evictor, k)
    BY <1>2 DEF Touched
  <2>. QED
    BY <2>1, TrackedAfterFifoTouch
<1>. QED
  BY <1>1, <1>2

\* Storing an entry keeps the types.
LEMMA StoreType ==
    ASSUME TypeOK, NEW k \in Key, NEW v \in Val, NEW need \in Size,
           Store(k, v, need)
    PROVE  /\ vals' \in [Key -> Val \cup {Absent}]
           /\ sizes' \in [Key -> Size \cup {Absent}]
           /\ current' \in Size
           /\ evictor' \in Seq(Key)
           /\ getVal' \in Val \cup {Absent}
  BY TouchedType, AddWraps DEF TypeOK, Store

\* So does discarding whatever key an evictor returned.
LEMMA DiscardType ==
    ASSUME TypeOK, NEW victim, Discard(victim)
    PROVE  /\ vals' \in [Key -> Val \cup {Absent}]
           /\ sizes' \in [Key -> Size \cup {Absent}]
           /\ current' \in Size
<1>1. CASE victim \in Present(sizes)
  BY <1>1, SubWraps DEF TypeOK, Discard, Erased, Present
<1>2. CASE victim \notin Present(sizes)
  BY <1>2 DEF TypeOK, Discard, Erased
<1>. QED
  BY <1>1, <1>2

\* The size difference of a set is a size_type.
LEMMA NeedType ==
    ASSUME TypeOK, MapsInStep, NEW k \in Key, NEW v \in Val
    PROVE  Need(k, v) \in Size
  BY SubWraps DEF TypeOK, MapsInStep, Need
----------------------------------------------------------------------------
(* What holds at any size of the counter, wrapped around or not.           *)

Structure == TypeOK /\ MapsInStep /\ EvictorKnowsEntries

LEMMA StructureInit == Init => Structure
  BY DEF Init, Structure, TypeOK, MapsInStep, EvictorKnowsEntries, Present, Size

\* Every step keeps the maps in step and every entry within reach of the
\* evictor.
LEMMA StructureStep == Structure /\ [Next]_cacheVars => Structure'
<1>. SUFFICES ASSUME Structure, [Next]_cacheVars
              PROVE  Structure'
  OBVIOUS
<1>. USE DEF Structure
<1>1. ASSUME NEW k \in Key, NEW v \in Val, SetTooLarge(k, v) \/ SetRejected(k, v)
      PROVE  Structure'
  BY <1>1 DEF SetTooLarge, SetRejected, cacheVars, TypeOK, MapsInStep,
              EvictorKnowsEntries, Present
<1>2. ASSUME NEW k \in Key, NEW v \in Val, NEW need \in Size, Store(k, v, need),
             UNCHANGED status, op' \in SetCall \cup {NoCall}
      PROVE  Structure'
  <2>1. TypeOK'
    BY <1>2, StoreType DEF TypeOK
  <2>2. MapsInStep'
    BY <1>2 DEF Store, MapsInStep, TypeOK
  <2>3. EvictorKnowsEntries'
    <3>1. Present(sizes') \subseteq Present(sizes) \cup {k}
      BY <1>2 DEF Store, Present, TypeOK
    <3>. QED
      BY <1>2, <3>1, TouchedTracks DEF EvictorKnowsEntries, Store
  <2>. QED
    BY <2>1, <2>2, <2>3
<1>3. ASSUME NEW k \in Key, NEW v \in Val, SetFits(k, v)
      PROVE  Structure'
  BY <1>3, <1>2, NeedType DEF SetFits, TypeOK
<1>4. ASSUME NEW k \in Key, NEW v \in Val, SetMustEvict(k, v)
      PROVE  Structure'
  <2>1. op' \in SetCall
    BY <1>4, NeedType DEF SetMustEvict, SetCall
  <2>. QED
    BY <1>4, <2>1 DEF SetMustEvict, storeVars, TypeOK, MapsInStep,
                      EvictorKnowsEntries, Present
<1>5. ASSUME NEW victim, Discard(victim), evictor' \in Seq(Key),
             Policy # "none" => Tracked(evictor) \subseteq Tracked(evictor') \cup {victim},
             UNCHANGED <<getVal, op>>, status' \in {"running", "undefined"}
      PROVE  Structure'
  <2>1. TypeOK'
    BY <1>5, DiscardType DEF TypeOK
  <2>2. MapsInStep'
    BY <1>5 DEF Discard, Erased, MapsInStep, TypeOK
  <2>3. Present(sizes') \subseteq Present(sizes) \ {victim}
    BY <1>5 DEF Discard, Erased, Present
  <2>4. EvictorKnowsEntries'
    BY <1>5, <2>3 DEF EvictorKnowsEntries
  <2>. QED
    BY <2>1, <2>2, <2>4
<1>6. CASE EvictOne
  <2>1. evictor \in Seq(Key) /\ status \in {"running", "undefined"}
    BY DEF TypeOK
  <2>2. /\ evictor' \in Seq(Key)
        /\ Tracked(evictor) \subseteq Tracked(evictor') \cup {Victim(evictor, NoKey)}
    BY <1>6, <2>1, TrackedAfterEvict DEF EvictOne, Victim, AfterEvict
  <2>. QED
    BY <1>6, <2>1, <2>2, <1>5 DEF EvictOne
<1>8. CASE SetThroughDanglingIterator
  BY <1>8 DEF SetThroughDanglingIterator, storeVars, TypeOK,
              MapsInStep, EvictorKnowsEntries, Present
<1>9. CASE SetAfterEvictions
  <2>1. op \in SetCall
    BY <1>9 DEF SetAfterEvictions, LoopDone, TypeOK
  <2>2. op.key \in Key /\ op.val \in Val /\ op.need \in Size
    BY <2>1 DEF SetCall
  <2>. QED
    BY <1>9, <2>2, <1>2 DEF SetAfterEvictions
<1>10. ASSUME NEW k \in Key, GetMiss(k) \/ DelMiss(k)
       PROVE  Structure'
  BY <1>10 DEF GetMiss, DelMiss, cacheVars, TypeOK, MapsInStep,
               EvictorKnowsEntries, Present
<1>11. ASSUME NEW k \in Key, GetHit(k)
       PROVE  Structure'
  <2>1. TypeOK'
    BY <1>11, TouchedType DEF GetHit, TypeOK
  <2>2. MapsInStep'
    BY <1>11 DEF GetHit, MapsInStep
  <2>3. EvictorKnowsEntries'
    BY <1>11, TouchedTracks DEF GetHit, EvictorKnowsEntries, Present
  <2>. QED
    BY <2>1, <2>2, <2>3
<1>12. ASSUME NEW k \in Key, DelHit(k)
       PROVE  Structure'
  <2>1. k \in Present(sizes)
    BY <1>12 DEF DelHit, Present, MapsInStep, TypeOK, Size
  <2>2. Discard(k)
    BY <1>12, <2>1 DEF DelHit, Discard, Present
  <2>3. evictor' = evictor /\ evictor \in Seq(Key)
        /\ UNCHANGED <<getVal, op>> /\ status' \in {"running", "undefined"}
    BY <1>12 DEF DelHit, TypeOK
  <2>. QED
    BY <2>2, <2>3, <1>5
<1>13. CASE Reset
  BY <1>13 DEF Reset, TypeOK, MapsInStep, EvictorKnowsEntries, Present, Size
<1>14. CASE UNCHANGED cacheVars
  BY <1>14 DEF cacheVars, TypeOK, MapsInStep, EvictorKnowsEntries, Present
<1>. QED
  BY <1>1, <1>3, <1>4, <1>6, <1>8, <1>9, <1>10, <1>11, <1>12, <1>13, <1>14
     DEF Next, Call, SetStep

LEMMA StructureInvariant == Spec => []Structure
  BY StructureInit, StructureStep, PTL DEF Spec

\* Type correctness.
THEOREM TypeCorrect == Spec => []TypeOK
  BY StructureInvariant, PTL DEF Structure

\* The two maps never fall out of step, whatever is evicted or overwritten.
THEOREM MapsStayInStep == Spec => []MapsInStep
  BY StructureInvariant, PTL DEF Structure

\* The evictor never loses the key of an entry.
THEOREM EntriesStayEvictable == Spec => []EvictorKnowsEntries
  BY StructureInvariant, PTL DEF Structure
----------------------------------------------------------------------------
(* What the counter counts, wrapped around or not.                         *)

\* A set in its loop will add what storing its value adds to the space, modulo
\* the counter's width.
LoopNeedModulo ==
    op # NoCall =>
        /\ ~op.existed => vals[op.key] = Absent /\ op.need = SizeOf[op.val]
        /\ op.existed /\ vals[op.key] # Absent =>
              op.need = Sub(SizeOf[op.val], sizes[op.key])

CInv == Structure /\ IsFiniteSet(Bytes(sizes)) /\ Accounting /\ LoopNeedModulo

\* A table of which the counter holds the space, modulo its width.
LEMMA CountedModulo ==
    ASSUME Structure, IsFiniteSet(Bytes(sizes)), Accounting
    PROVE  /\ SizeTable(sizes) /\ SpaceOf(sizes) \in Nat
           /\ current = SpaceOf(sizes) % SizeMod
           /\ \A k \in Key : sizes[k] = Absent <=> vals[k] = Absent
           /\ \A k \in Key : sizes[k] # Absent => sizes[k] \in Size
<1>1. SizeTable(sizes)
  BY DEF Structure, TypeOK, SizeTable, Size
<1>. QED
  BY <1>1, FS_CardinalityType DEF Structure, TypeOK, MapsInStep, SizeTable, SpaceOf,
                                  Accounting, Size

LEMMA CInvInit == Init => CInv
<1>. SUFFICES ASSUME Init PROVE CInv
  OBVIOUS
<1>1. SizeTable(sizes) /\ SpaceOf(sizes) = 0
  BY SpaceOfEmpty DEF Init
<1>2. 0 % SizeMod = 0
  OBVIOUS
<1>. QED
  BY <1>1, <1>2, StructureInit DEF Init, CInv, Accounting, SizeTable, LoopNeedModulo

\* Storing a value with the right size difference.
LEMMA StoreCountsModulo ==
    ASSUME Structure, IsFiniteSet(Bytes(sizes)), Accounting,
           NEW k \in Key, NEW v \in Val, NEW need, Store(k, v, need),
           need = IF sizes[k] = Absent THEN SizeOf[v] ELSE Sub(SizeOf[v], sizes[k])
    PROVE  IsFiniteSet(Bytes(sizes'))  /\ Accounting'
<1>. DEFINE n == SizeOf[v]
            base == [j \in Key |-> IF j = k THEN Absent ELSE sizes[j]]
<1>1. /\ SizeTable(sizes) /\ n \in Size /\ n \in Nat
      /\ sizes' = [sizes EXCEPT ![k] = n] /\ current' = Add(current, need)
      /\ current = SpaceOf(sizes) % SizeMod /\ SpaceOf(sizes) \in Nat
  BY CountedModulo DEF Store, Size
<1>. HIDE DEF n
<1>2. CASE sizes[k] = Absent
  <2>1. SizeTable(sizes') /\ SpaceOf(sizes') = SpaceOf(sizes) + n
    BY <1>1, <1>2, SpaceOfInsert
  <2>2. Add(SpaceOf(sizes) % SizeMod, n) = (SpaceOf(sizes) + n) % SizeMod
    BY <1>1, AddModulo
  <2>. QED
    BY <1>1, <1>2, <2>1, <2>2 DEF Accounting, SizeTable, n
<1>3. CASE sizes[k] # Absent
  <2>1. /\ SizeTable(base) /\ sizes[k] \in Size /\ SpaceOf(base) \in Nat
        /\ SpaceOf(sizes) = SpaceOf(base) + sizes[k]
    BY <1>1, <1>3, SpaceOfDrop, CountedModulo
  <2>2. sizes' = [base EXCEPT ![k] = n] /\ base[k] = Absent
    BY <1>1 DEF SizeTable
  <2>. HIDE DEF base
  <2>3. /\ SizeTable([base EXCEPT ![k] = n])
        /\ SpaceOf([base EXCEPT ![k] = n]) = SpaceOf(base) + n
    <3>1. n \in Nat
      BY <1>1
    <3>. QED
      BY <2>1, <2>2, <3>1, SpaceOfInsert
  <2>4. \A a \in Int, b \in Size :
           Add((a + b) % SizeMod, Sub(n, b)) = (a + n) % SizeMod
    BY <1>1, OverwriteModulo
  <2>5. Add((SpaceOf(base) + sizes[k]) % SizeMod, Sub(n, sizes[k])) = (SpaceOf(base) + n) % SizeMod
    BY <2>1, <2>4
  <2>. QED
    BY <1>1, <1>3, <2>1, <2>2, <2>3, <2>5 DEF Accounting, SizeTable, n
<1>. QED
  BY <1>2, <1>3

\* Discarding an evicted key, and what the loop knows of the others.
LEMMA DiscardCountsModulo ==
    ASSUME CInv, NEW victim, Discard(victim), op' = op \/ op' = NoCall
    PROVE  IsFiniteSet(Bytes(sizes')) /\ Accounting' /\ LoopNeedModulo'
<1>. USE DEF CInv
<1>1. IsFiniteSet(Bytes(sizes')) /\ Accounting'
  <2>1. CASE victim \in Present(sizes)
    <3>1. /\ SizeTable(sizes) /\ victim \in Key
          /\ sizes[victim] # Absent /\ sizes[victim] \in Size
      BY <2>1, CountedModulo DEF Present
    <3>2. /\ SizeTable(sizes') /\ SpaceOf(sizes') \in Nat
          /\ SpaceOf(sizes) = SpaceOf(sizes') + sizes[victim]
      BY <3>1, SpaceOfDrop DEF Discard, Erased
    <3>3. current' = Sub(SpaceOf(sizes) % SizeMod, sizes[victim])
      BY <2>1 DEF Discard, Accounting
    <3>4. SpaceOf(sizes) \in Int /\ SpaceOf(sizes) - sizes[victim] = SpaceOf(sizes')
      BY <3>1, <3>2 DEF Size
    <3>. QED
      BY <3>1, <3>2, <3>3, <3>4, SubModulo DEF Accounting, SizeTable
  <2>2. CASE victim \notin Present(sizes)
    <3>1. sizes' = sizes /\ current' = current
      BY <2>2 DEF Discard, Erased, Present, Structure, TypeOK
    <3>. QED
      BY <3>1 DEF Accounting
  <2>. QED
    BY <2>1, <2>2
<1>2. LoopNeedModulo'
  <2>1. /\ \A k \in Key : \/ vals'[k] = Absent
                          \/ vals'[k] = vals[k] /\ sizes'[k] = sizes[k]
        /\ \A k \in Key : vals[k] = Absent => vals'[k] = Absent
    BY DEF Discard, Erased
  <2>2. op # NoCall => op \in SetCall /\ op.key \in Key
    BY DEF Structure, TypeOK, SetCall
  <2>3. CASE op' = op
    BY <2>1, <2>2, <2>3 DEF LoopNeedModulo
  <2>4. CASE op' = NoCall
    BY <2>4 DEF LoopNeedModulo
  <2>. QED
    BY <2>3, <2>4
<1>. QED
  BY <1>1, <1>2

\* Every step keeps the counter right, also when it wraps around.
LEMMA CInvStep == CInv /\ [Next]_cacheVars => CInv'
<1>. SUFFICES ASSUME CInv, [Next]_cacheVars
              PROVE  IsFiniteSet(Bytes(sizes')) /\ Accounting' /\ LoopNeedModulo'
  BY StructureStep DEF CInv
<1>. USE DEF CInv
<1>. DEFINE Counts == IsFiniteSet(Bytes(sizes')) /\ Accounting' /\ LoopNeedModulo'
<1>1. ASSUME UNCHANGED <<vals, sizes, current>>, op' = op \/ op' = NoCall
      PROVE  Counts
  BY <1>1 DEF Accounting, LoopNeedModulo
<1>2. ASSUME NEW k \in Key, NEW v \in Val
      PROVE  /\ sizes[k] = Absent <=> vals[k] = Absent
             /\ Need(k, v) = IF sizes[k] = Absent THEN SizeOf[v] ELSE Sub(SizeOf[v], sizes[k])
  BY CountedModulo DEF Need
<1>3. ASSUME NEW k \in Key, NEW v \in Val, SetFits(k, v)
      PROVE  Counts
  BY <1>2, <1>3, StoreCountsModulo DEF SetFits, Ready, LoopNeedModulo
<1>4. ASSUME NEW k \in Key, NEW v \in Val, SetMustEvict(k, v)
      PROVE  Counts
  <2>1. /\ op' = [key |-> k, val |-> v, need |-> Need(k, v), existed |-> vals[k] # Absent]
        /\ UNCHANGED <<vals, sizes, current>>
    BY <1>4 DEF SetMustEvict, storeVars
  <2>. QED
    BY <1>2, <2>1 DEF Accounting, LoopNeedModulo
<1>5. ASSUME NEW victim, Discard(victim), op' = op \/ op' = NoCall
      PROVE  Counts
  BY <1>5, DiscardCountsModulo
<1>6. CASE SetAfterEvictions
  <2>1. /\ op \in SetCall /\ op # NoCall /\ op' = NoCall
        /\ Store(op.key, op.val, op.need)
        /\ op.existed => vals[op.key] # Absent
    BY <1>6 DEF SetAfterEvictions, LoopDone, Structure, TypeOK
  <2>2. op.key \in Key /\ op.val \in Val /\ op.existed \in BOOLEAN
    BY <2>1 DEF SetCall
  <2>3. op.need = IF sizes[op.key] = Absent THEN SizeOf[op.val]
                                            ELSE Sub(SizeOf[op.val], sizes[op.key])
    BY <1>2, <2>1, <2>2 DEF LoopNeedModulo
  <2>. QED
    BY <2>1, <2>2, <2>3, StoreCountsModulo DEF LoopNeedModulo
<1>7. ASSUME NEW k \in Key, DelHit(k)
      PROVE  Counts
  <2>1. Discard(k)
    BY <1>7, CountedModulo DEF DelHit, Discard, Present
  <2>. QED
    BY <1>5, <1>7, <2>1 DEF DelHit
<1>8. CASE Reset
  <2>1. SizeTable(sizes') /\ SpaceOf(sizes') = 0
    BY <1>8, SpaceOfEmpty DEF Reset
  <2>2. 0 % SizeMod = 0
    OBVIOUS
  <2>. QED
    BY <1>8, <2>1, <2>2 DEF Reset, Ready, Accounting, SizeTable, LoopNeedModulo
<1>9. CASE SetStep
  BY <1>1, <1>5, <1>6, <1>9 DEF SetStep, EvictOne, SetThroughDanglingIterator, storeVars
<1>10. ASSUME NEW k \in Key,
              \/ GetMiss(k) \/ GetHit(k) \/ DelMiss(k)
              \/ \E v \in Val : SetTooLarge(k, v) \/ SetRejected(k, v)
       PROVE  Counts
  BY <1>1, <1>10 DEF GetMiss, GetHit, DelMiss, SetTooLarge, SetRejected, cacheVars
<1>11. CASE UNCHANGED cacheVars
  BY <1>1, <1>11 DEF cacheVars
<1>. QED
  BY <1>3, <1>4, <1>7, <1>8, <1>9, <1>10, <1>11 DEF Next, Call

\* The counter is the sum of the sizes that the maps hold, modulo its width, at
\* every point between two rounds of the eviction loop, for any allowance: it
\* recovers from every wrap-around.
THEOREM CounterIsExact == Spec => []Accounting
<1>1. CInv => Accounting
  BY DEF CInv
<1>. QED
  BY <1>1, CInvInit, CInvStep, PTL DEF Spec
----------------------------------------------------------------------------
(* What holds when no sum of two sizes wraps around.                       *)

Counted ==
    /\ IsFiniteSet(Bytes(sizes))
    /\ current = SpaceOf(sizes)
    /\ current <= MaxMem

IInv == Structure /\ Counted /\ LoopKnowsItsNeed

\* An entry, its size and the counter, in the terms of the lemmas on tables.
LEMMA CountedTable ==
    ASSUME Structure, Counted
    PROVE  /\ SizeTable(sizes)
           /\ \A k \in Key : sizes[k] = Absent <=> vals[k] = Absent
           /\ \A k \in Key : sizes[k] # Absent => sizes[k] \in Size
           /\ current \in Nat /\ MaxMem \in Nat /\ SizeMod \in Nat
  BY DEF Structure, Counted, TypeOK, MapsInStep, SizeTable, Size

LEMMA IInvInit == Init => IInv
<1>. SUFFICES ASSUME Init PROVE IInv
  OBVIOUS
<1>1. SizeTable(sizes) /\ SpaceOf(sizes) = 0
  BY SpaceOfEmpty DEF Init
<1>. QED
  BY <1>1, StructureInit DEF Init, IInv, Counted, SizeTable, LoopKnowsItsNeed, Size

\* Storing a value whose size difference is right keeps the counter exact.
LEMMA StoreCounts ==
    ASSUME NoOverflow, Structure, Counted,
           NEW k \in Key, NEW v \in Val, NEW need \in Size,
           Store(k, v, need), Fits(need), SizeOf[v] <= MaxMem,
           sizes[k] = Absent => need = SizeOf[v],
           sizes[k] # Absent =>
              need \in {SizeOf[v] - sizes[k], SizeOf[v] - sizes[k] + SizeMod}
    PROVE  Counted'
<1>. DEFINE n == SizeOf[v]
            base == [j \in Key |-> IF j = k THEN Absent ELSE sizes[j]]
<1>1. /\ SizeTable(sizes) /\ n \in Size /\ n \in Nat
      /\ sizes' = [sizes EXCEPT ![k] = n] /\ current' = Add(current, need)
      /\ current = SpaceOf(sizes) /\ current \in Size /\ SizeMod \in Nat /\ MaxMem \in Nat
  BY CountedTable DEF Counted, Structure, TypeOK, Store, Size
<1>2. current' <= MaxMem
  BY <1>1 DEF Fits
<1>. HIDE DEF n
<1>3. current <= MaxMem /\ n <= MaxMem
  BY DEF Counted, n
<1>4. CASE sizes[k] = Absent
  <2>1. SizeTable(sizes') /\ SpaceOf(sizes') = SpaceOf(sizes) + n
    BY <1>1, <1>4, SpaceOfInsert
  <2>2. need = n
    BY <1>4 DEF n
  <2>3. current' = current + n
    <3>1. current + need < SizeMod
      BY <1>1, <1>3, <2>2 DEF NoOverflow
    <3>. QED
      BY <1>1, <2>2, <3>1, AddWraps
  <2>. QED
    BY <1>1, <1>2, <2>1, <2>3 DEF Counted, SizeTable
<1>5. CASE sizes[k] # Absent
  <2>1. /\ SizeTable(base) /\ sizes[k] \in Nat /\ SpaceOf(base) \in Nat
        /\ SpaceOf(sizes) = SpaceOf(base) + sizes[k]
    BY <1>1, <1>5, SpaceOfDrop
  <2>2. sizes' = [base EXCEPT ![k] = n] /\ base[k] = Absent
    BY <1>1 DEF SizeTable
  <2>. HIDE DEF base
  <2>3. SizeTable([base EXCEPT ![k] = n])
        /\ SpaceOf([base EXCEPT ![k] = n]) = SpaceOf(base) + n
    <3>1. n \in Nat
      BY <1>1
    <3>. QED
      BY <2>1, <2>2, <3>1, SpaceOfInsert
  <2>4. need \in {n - sizes[k], n - sizes[k] + SizeMod}
    BY <1>5 DEF n
  <2>5. current' = current + n - sizes[k]
    <3>1. CASE need = n - sizes[k]
      <4>1. current + need < SizeMod
        BY <1>1, <1>3, <2>1, <3>1 DEF NoOverflow
      <4>. QED
        BY <1>1, <2>1, <3>1, <4>1, AddWraps
    <3>2. CASE need = n - sizes[k] + SizeMod
      <4>1. current + need >= SizeMod
        BY <1>1, <2>1, <3>2
      <4>. QED
        BY <1>1, <2>1, <3>2, <4>1, AddWraps
    <3>. QED
      BY <2>4, <3>1, <3>2
  <2>6. SizeTable(sizes') /\ SpaceOf(sizes') = SpaceOf(base) + n
    BY <2>2, <2>3
  <2>7. current' = SpaceOf(sizes')
    BY <1>1, <2>1, <2>5, <2>6
  <2>. QED
    BY <1>2, <2>6, <2>7 DEF Counted, SizeTable
<1>. QED
  BY <1>4, <1>5

\* Discarding an evicted key takes exactly its size off the counter.
LEMMA DiscardCounts ==
    ASSUME Structure, Counted, NEW victim, Discard(victim)
    PROVE  Counted' /\ current' <= current
<1>1. CASE victim \in Present(sizes)
  <2>1. /\ SizeTable(sizes) /\ current \in Size /\ MaxMem \in Nat
        /\ victim \in Key /\ sizes[victim] # Absent /\ sizes[victim] \in Size
    BY <1>1, CountedTable DEF Present, Structure, TypeOK
  <2>2. /\ SizeTable(sizes') /\ SpaceOf(sizes') \in Nat /\ sizes[victim] \in Nat
        /\ SpaceOf(sizes) = SpaceOf(sizes') + sizes[victim]
    BY <2>1, SpaceOfDrop DEF Discard, Erased
  <2>3. current' = current - sizes[victim]
    <3>1. current = SpaceOf(sizes)
      BY DEF Counted
    <3>2. sizes[victim] <= current
      BY <2>2, <3>1
    <3>3. current' = Sub(current, sizes[victim])
      BY <1>1 DEF Discard
    <3>. QED
      BY <2>1, <3>2, <3>3, SubWraps
  <2>. QED
    BY <2>1, <2>2, <2>3 DEF Counted, SizeTable, Size
<1>2. CASE victim \notin Present(sizes)
  <2>1. sizes' = sizes /\ current' = current
    BY <1>2 DEF Discard, Erased, Present, Structure, TypeOK
  <2>. QED
    BY <2>1 DEF Counted, Structure, TypeOK, Size
<1>. QED
  BY <1>1, <1>2

\* A difference that is zero or negative wraps around twice, in Sub and in
\* Add, and so always fits.
LEMMA ShrinkFits ==
    ASSUME NoOverflow, Structure, Counted,
           NEW k \in Key, NEW v \in Val, sizes[k] # Absent, SizeOf[v] <= sizes[k]
    PROVE  Fits(Need(k, v))
<1>. DEFINE n == SizeOf[v]
            old == sizes[k]
<1>1. /\ n \in Size /\ old \in Size /\ current \in Size
      /\ SizeMod \in Nat /\ MaxMem \in Nat /\ current <= MaxMem
      /\ Need(k, v) = Sub(n, old)
  BY CountedTable DEF Structure, TypeOK, Counted, Need
<1>2. old <= current
  <2>1. PICK rest \in Nat : current = rest + old
    BY CountedTable, SpaceOfDrop DEF Counted
  <2>. QED
    BY <1>1, <2>1 DEF Size
<1>3. n <= old
  OBVIOUS
<1>. HIDE DEF n, old
<1>4. CASE n = old
  <2>1. Sub(n, old) = 0
    BY <1>1, <1>4, SubWraps DEF Size
  <2>2. Add(current, 0) = current
    BY <1>1, AddWraps DEF Size
  <2>. QED
    BY <1>1, <2>1, <2>2 DEF Fits
<1>5. CASE n < old
  <2>1. Sub(n, old) = n - old + SizeMod /\ Sub(n, old) \in Size
    BY <1>1, <1>5, SubWraps DEF Size
  <2>2. Add(current, Sub(n, old)) = current + Sub(n, old) - SizeMod
    <3>1. current + Sub(n, old) >= SizeMod
      BY <1>1, <1>2, <2>1 DEF Size
    <3>. QED
      BY <1>1, <2>1, <3>1, AddWraps
  <2>3. Add(current, Sub(n, old)) <= MaxMem
    BY <1>1, <1>3, <2>1, <2>2 DEF Size
  <2>. QED
    BY <1>1, <2>3 DEF Fits
<1>. QED
  BY <1>1, <1>3, <1>4, <1>5 DEF Size

\* The size difference of a set is what Store needs it to be.
LEMMA NeedIsRight ==
    ASSUME Structure, NEW k \in Key, NEW v \in Val
    PROVE  /\ Need(k, v) \in Size
           /\ sizes[k] = Absent => Need(k, v) = SizeOf[v]
           /\ sizes[k] # Absent =>
                 /\ sizes[k] \in Size
                 /\ sizes[k] <= SizeOf[v] => Need(k, v) = SizeOf[v] - sizes[k]
                 /\ sizes[k] > SizeOf[v] => Need(k, v) = SizeOf[v] - sizes[k] + SizeMod
<1>1. SizeOf[v] \in Size
  OBVIOUS
<1>2. CASE sizes[k] = Absent
  <2>1. vals[k] = Absent
    BY <1>2 DEF Structure, TypeOK, MapsInStep, Size
  <2>. QED
    BY <1>1, <1>2, <2>1 DEF Need
<1>3. CASE sizes[k] # Absent
  <2>1. sizes[k] \in Size /\ vals[k] # Absent
    BY <1>3 DEF Structure, TypeOK, MapsInStep
  <2>. QED
    BY <1>1, <1>3, <2>1, SubWraps DEF Need
<1>. QED
  BY <1>2, <1>3

\* A set enters its loop only with a positive difference, at most the value's size.
LEMMA LoopEntry ==
    ASSUME NoOverflow, Structure, Counted,
           NEW k \in Key, NEW v \in Val, SetMustEvict(k, v)
    PROVE  LoopKnowsItsNeed'
<1>. DEFINE n == SizeOf[v]
            need == Need(k, v)
<1>1. /\ n \in Size /\ n <= MaxMem /\ current \in Size /\ current <= MaxMem
      /\ SizeMod \in Nat /\ MaxMem \in Nat /\ need \in Size
      /\ ~(Add(current, need) <= MaxMem)
      /\ sizes[k] = Absent <=> vals[k] = Absent
  BY NeedIsRight, CountedTable DEF SetMustEvict, Structure, TypeOK, Counted, Fits
<1>2. Add(current, 0) = current
  BY <1>1, AddWraps DEF Size
<1>3. /\ need \in 1..n
      /\ vals[k] = Absent => need = n
      /\ vals[k] # Absent => need + sizes[k] = n
  <2>1. CASE sizes[k] = Absent
    <3>1. need = n
      BY <2>1, NeedIsRight
    <3>. QED
      BY <1>1, <1>2, <2>1, <3>1 DEF Size
  <2>2. CASE sizes[k] # Absent
    <3>1. sizes[k] \in Size
      BY <2>2, NeedIsRight
    <3>2. ~(n <= sizes[k])
      BY <2>2, ShrinkFits DEF SetMustEvict
    <3>3. need = n - sizes[k]
      BY <1>1, <2>2, <3>1, <3>2, NeedIsRight DEF Size
    <3>. HIDE DEF need, n
    <3>. QED
      BY <1>1, <1>2, <2>2, <3>1, <3>2, <3>3 DEF Size
  <2>. QED
    BY <2>1, <2>2
<1>4. /\ op' = [key |-> k, val |-> v, need |-> need, existed |-> vals[k] # Absent]
      /\ vals' = vals /\ sizes' = sizes /\ Policy # "none"
  BY DEF SetMustEvict, storeVars
<1>. HIDE DEF need
<1>. QED
  BY <1>1, <1>3, <1>4 DEF LoopKnowsItsNeed

\* Discarding a key leaves the locals of the loop right.
LEMMA LoopDiscard ==
    ASSUME Structure, LoopKnowsItsNeed, NEW victim, Discard(victim), op' = op
    PROVE  LoopKnowsItsNeed'
<1>1. \A k \in Key : \/ vals'[k] = Absent
                     \/ vals'[k] = vals[k] /\ sizes'[k] = sizes[k]
  BY DEF Discard, Erased
<1>2. op # NoCall => op \in SetCall /\ op.key \in Key
  BY DEF Structure, TypeOK, SetCall
<1>3. \A k \in Key : vals[k] = Absent => vals'[k] = Absent
  BY DEF Discard, Erased
<1>. QED
  BY <1>1, <1>2, <1>3 DEF LoopKnowsItsNeed

\* Every step keeps the counter exact and within the allowance.
LEMMA IInvStep ==
    ASSUME NoOverflow, IInv, [Next]_cacheVars
    PROVE  IInv'
<1>. USE DEF IInv
<1>1. Structure'
  BY StructureStep
<1>2. SUFFICES Counted' /\ LoopKnowsItsNeed'
  BY <1>1
<1>3. ASSUME UNCHANGED <<vals, sizes, current>>,
             op' = op \/ op' = NoCall
      PROVE  Counted' /\ LoopKnowsItsNeed'
  BY <1>3 DEF Counted, LoopKnowsItsNeed
<1>4. ASSUME NEW k \in Key, NEW v \in Val, SetFits(k, v)
      PROVE  Counted' /\ LoopKnowsItsNeed'
  <2>1. /\ Store(k, v, Need(k, v)) /\ Fits(Need(k, v)) /\ SizeOf[v] <= MaxMem
        /\ op' = NoCall
    BY <1>4 DEF SetFits, Ready
  <2>2. /\ Need(k, v) \in Size
        /\ sizes[k] = Absent => Need(k, v) = SizeOf[v]
    BY NeedIsRight
  <2>3. ASSUME sizes[k] # Absent
        PROVE  Need(k, v) \in {SizeOf[v] - sizes[k], SizeOf[v] - sizes[k] + SizeMod}
    <3>1. sizes[k] \in Size /\ SizeOf[v] \in Size
      BY <2>3, NeedIsRight
    <3>. QED
      BY <2>3, <3>1, NeedIsRight DEF Size
  <2>4. Counted'
    BY <2>1, <2>2, <2>3, StoreCounts
  <2>. QED
    BY <2>1, <2>4 DEF LoopKnowsItsNeed
<1>5. ASSUME NEW k \in Key, NEW v \in Val, SetMustEvict(k, v)
      PROVE  Counted' /\ LoopKnowsItsNeed'
  <2>1. Counted'
    BY <1>5 DEF SetMustEvict, storeVars, Counted
  <2>. QED
    BY <1>5, <2>1, LoopEntry
<1>6. ASSUME NEW victim, Discard(victim), op' = op
      PROVE  Counted' /\ LoopKnowsItsNeed'
  BY <1>6, DiscardCounts, LoopDiscard
<1>7. CASE SetAfterEvictions
  <2>1. /\ op \in SetCall /\ op # NoCall /\ op' = NoCall
        /\ Store(op.key, op.val, op.need) /\ Fits(op.need)
        /\ op.existed => vals[op.key] # Absent
    BY <1>7 DEF SetAfterEvictions, LoopDone, Structure, TypeOK
  <2>2. op.key \in Key /\ op.val \in Val /\ op.need \in Size
    BY <2>1 DEF SetCall
  <2>3. /\ sizes[op.key] = Absent <=> vals[op.key] = Absent
        /\ sizes[op.key] # Absent => sizes[op.key] \in Size
    BY <2>2, CountedTable
  <2>4. SizeOf[op.val] <= MaxMem /\ SizeOf[op.val] \in Size
    BY <2>1, <2>2 DEF LoopKnowsItsNeed
  <2>5. sizes[op.key] = Absent => op.need = SizeOf[op.val]
    BY <2>1, <2>3 DEF LoopKnowsItsNeed
  <2>6. ASSUME sizes[op.key] # Absent
        PROVE  op.need = SizeOf[op.val] - sizes[op.key]
    <3>1. op.existed /\ vals[op.key] # Absent
      BY <2>1, <2>2, <2>3, <2>6 DEF LoopKnowsItsNeed, SetCall
    <3>2. op.need + sizes[op.key] = SizeOf[op.val]
      BY <2>1, <3>1 DEF LoopKnowsItsNeed
    <3>. QED
      BY <2>2, <2>3, <2>4, <2>6, <3>2 DEF Size
  <2>7. Counted'
    BY <2>1, <2>2, <2>4, <2>5, <2>6, StoreCounts
  <2>. QED
    BY <2>1, <2>7 DEF LoopKnowsItsNeed
<1>8. ASSUME NEW k \in Key, DelHit(k)
      PROVE  Counted' /\ LoopKnowsItsNeed'
  <2>1. sizes[k] # Absent
    BY <1>8, CountedTable DEF DelHit
  <2>2. Discard(k)
    BY <1>8, <2>1 DEF DelHit, Discard, Present
  <2>. QED
    BY <1>8, <2>2, <1>6 DEF DelHit
<1>9. CASE Reset
  <2>1. SizeTable(sizes') /\ SpaceOf(sizes') = 0
    BY <1>9, SpaceOfEmpty DEF Reset
  <2>. QED
    BY <1>9, <2>1 DEF Reset, Ready, Counted, SizeTable, LoopKnowsItsNeed, Size
<1>10. CASE SetStep
  BY <1>10, <1>3, <1>6, <1>7 DEF SetStep, EvictOne,
              SetThroughDanglingIterator, storeVars
<1>11. ASSUME NEW k \in Key,
              \/ GetMiss(k) \/ GetHit(k) \/ DelMiss(k)
              \/ \E v \in Val : SetTooLarge(k, v) \/ SetRejected(k, v)
       PROVE  Counted' /\ LoopKnowsItsNeed'
  BY <1>11, <1>3 DEF GetMiss, GetHit, DelMiss, SetTooLarge, SetRejected, cacheVars
<1>12. CASE UNCHANGED cacheVars
  BY <1>12, <1>3 DEF cacheVars
<1>. QED
  BY <1>4, <1>5, <1>8, <1>9, <1>10, <1>11, <1>12 DEF Next, Call

\* Without wrap-around IInv is an invariant.
THEOREM Invariance ==
    ASSUME NoOverflow
    PROVE  Spec => []IInv
<1>1. Init => IInv
  BY IInvInit
<1>2. IInv /\ [Next]_cacheVars => IInv'
  BY IInvStep
<1>. QED
  BY <1>1, <1>2, PTL DEF Spec

\* The values held never take more than the allowance.
THEOREM BudgetKept ==
    ASSUME NoOverflow
    PROVE  Spec => []WithinBudget
<1>1. IInv => WithinBudget
  BY DEF IInv, Counted, WithinBudget
<1>. QED
  BY <1>1, Invariance, PTL

\* A set in its loop still waits for just the space that its value needs beyond
\* what its key holds, however many entries it has evicted.
THEOREM LoopNeedIsExact ==
    ASSUME NoOverflow
    PROVE  Spec => []LoopKnowsItsNeed
  BY Invariance, PTL DEF IInv

\* The eviction loop never runs out of keys while the value does not fit:
\* the entries that fill the cache are all within reach of the evictor.
THEOREM EvictorNeverEmpty ==
    ASSUME NoOverflow
    PROVE  Spec => []NeverEvictsFromEmpty
<1>1. IInv => NeverEvictsFromEmpty
  <2>. SUFFICES ASSUME IInv, InLoop
                PROVE  evictor # <<>>
    BY DEF NeverEvictsFromEmpty
  <2>0. op # NoCall /\ SizeOf[op.val] \in Size
    BY DEF InLoop, IInv, Structure, TypeOK, SetCall
  <2>1. /\ current \in Size /\ current = SpaceOf(sizes)
        /\ op.need \in 1..MaxMem /\ Policy # "none"
        /\ SizeMod \in Nat /\ MaxMem \in Nat /\ MaxMem < SizeMod
        /\ ~(Add(current, op.need) <= MaxMem)
    BY <2>0 DEF IInv, Structure, TypeOK, Counted, LoopKnowsItsNeed, InLoop, Fits, Size
  <2>2. current # 0
    <3>. SUFFICES ASSUME current = 0 PROVE FALSE
      OBVIOUS
    <3>1. op.need \in Size
      BY <2>1 DEF Size
    <3>2. Add(0, op.need) = op.need
      BY <3>1 DEF Add, Size
    <3>. QED
      BY <2>1, <3>2
  <2>3. Present(sizes) # {}
    <3>. SUFFICES ASSUME Present(sizes) = {} PROVE FALSE
      OBVIOUS
    <3>1. Bytes(sizes) = {}
      BY DEF Bytes
    <3>. QED
      BY <2>1, <2>2, <3>1, FS_EmptySet DEF SpaceOf
  <2>4. Tracked(evictor) # {}
    BY <2>1, <2>3 DEF IInv, Structure, EvictorKnowsEntries
  <2>. QED
    BY <2>4 DEF Tracked
<1>. QED
  BY <1>1, Invariance, PTL

\* An overwrite with a value that is not larger evicts and rejects nothing.
THEOREM ShrinkNeverEvicts ==
    ASSUME NoOverflow
    PROVE  Spec => []ShrinkAlwaysFits
<1>1. IInv => ShrinkAlwaysFits
  <2>1. ASSUME IInv, NEW k \in Present(sizes), NEW v \in Val, SizeOf[v] <= sizes[k]
        PROVE  Fits(Need(k, v))
    BY <2>1, ShrinkFits DEF IInv, Present
  <2>. QED
    BY <2>1 DEF ShrinkAlwaysFits
<1>. QED
  BY <1>1, Invariance, PTL
----------------------------------------------------------------------------
(* The promise of cache.hh.                                                *)

\* Every step of the implementation is a step of the bounded store, or leaves
\* its entries alone.
LEMMA StepKeepsPromise ==
    ASSUME IInv, IInv', [Next]_cacheVars
    PROVE  [Promise!Next]_vals
<1>1. /\ Promise!SizesIn(vals) = sizes
      /\ Promise!SizesIn(vals') = sizes'
  BY DEF IInv, Structure, MapsInStep, TypeOK, Promise!SizesIn
<1>2. vals \in [Key -> Val \cup {Absent}]
  BY DEF IInv, Structure, TypeOK
<1>3. ASSUME NEW k \in Key, NEW v \in Val, NEW need, Store(k, v, need)
      PROVE  Promise!Put(k, v)
  <2>1. SpaceOf(sizes') <= MaxMem
    BY DEF IInv, Counted
  <2>2. Promise!Bytes(sizes') = Bytes(sizes')
    BY DEF Promise!Bytes, Bytes, Promise!Present, Present, Promise!Row, Row
  <2>3. Promise!SpaceOf(sizes') = SpaceOf(sizes')
    BY <2>2 DEF Promise!SpaceOf, SpaceOf, Promise!Cardinality, Cardinality
  <2>. QED
    BY <1>1, <1>3, <2>1, <2>3 DEF Store, Promise!Put
<1>4. ASSUME NEW victim, vals' = Erased(vals, victim)
      PROVE  (\E k \in Key : Promise!Drop(k)) \/ vals' = vals
  BY <1>2, <1>4 DEF Erased, Promise!Drop
<1>5. CASE \E k \in Key, v \in Val : SetFits(k, v)
  BY <1>3, <1>5 DEF SetFits, Promise!Next
<1>6. CASE SetAfterEvictions
  <2>1. op \in SetCall
    BY <1>6 DEF SetAfterEvictions, LoopDone, IInv, Structure, TypeOK
  <2>2. op.key \in Key /\ op.val \in Val
    BY <2>1 DEF SetCall
  <2>. QED
    BY <1>3, <1>6, <2>2 DEF SetAfterEvictions, Promise!Next
<1>7. CASE EvictOne \/ \E k \in Key : DelHit(k)
  BY <1>4, <1>7 DEF EvictOne, DelHit, Discard, Promise!Next
<1>8. CASE Reset
  BY <1>8 DEF Reset, Promise!Clear, Promise!Next
<1>9. ASSUME vals' = vals
      PROVE  [Promise!Next]_vals
  BY <1>9
<1>. QED
  BY <1>5, <1>6, <1>7, <1>8, <1>9 DEF Next, Call, SetStep, SetTooLarge, SetRejected,
     SetMustEvict, SetThroughDanglingIterator, GetMiss, GetHit,
     DelMiss, cacheVars, storeVars

\* Counter, wrap-around, eviction order and loop implement the bounded store.
THEOREM Refinement ==
    ASSUME NoOverflow
    PROVE  Spec => KeepsPromise
<1>1. Init => Promise!Init
  BY DEF Init, Promise!Init
<1>2. IInv /\ IInv' /\ [Next]_cacheVars => [Promise!Next]_vals
  BY StepKeepsPromise
<1>. QED
  BY <1>1, <1>2, Invariance, PTL DEF Spec, KeepsPromise, Promise!Spec
============================================================================
