----------------------------- MODULE LruProofs -----------------------------
(***************************************************************************)
(* Proofs about the list and map of LRU_Evictor, for every set of keys and *)
(* every memory: its pointers, its nodes, and the order of its keys.  That *)
(* the list holds together is said with a sequence of its nodes, in which  *)
(* next_ leads from each place to the next; what following next_ from the  *)
(* root comes to (Walk) is proved from that.                               *)
(***************************************************************************)
EXTENDS LruEvictor, EvictorProofs, FiniteSetTheorems, TLAPS

USE LruEvictorAssumption

\* The map: a node for each of its keys, and no other node.
Mapped ==
    /\ alive = {map[k] : k \in Key} \ {Null}
    /\ \A k \in Key : map[k] # Null => keyOf[map[k]] = k
    /\ \A x \in Node \ alive : next[x] = Null /\ prev[x] = Null

\* The list: next_ and prev_ undo each other, and only its ends lack one.
Chained ==
    /\ {root, back} \subseteq alive \cup {Null}
    /\ alive # {} => root # Null /\ back # Null
    /\ \A x \in alive :
          /\ {next[x], prev[x]} \subseteq alive \cup {Null}
          /\ next[x] = Null <=> x = back
          /\ prev[x] = Null <=> x = root
          /\ next[x] # Null => prev[next[x]] = x
          /\ prev[x] # Null => next[prev[x]] = x

\* The nodes are one chain and not several: s lists them from the first to the
\* last.
Listed(s) ==
    /\ s \in Seq(Node)
    /\ alive = {s[i] : i \in 1..Len(s)}
    /\ \A i, j \in 1..Len(s) : s[i] = s[j] => i = j
    /\ s = <<>> => root = Null /\ back = Null
    /\ s # <<>> => root = s[1] /\ back = s[Len(s)]
    /\ \A i \in 1..Len(s) - 1 : next[s[i]] = s[i + 1]

Standing(s) == Mapped /\ Chained /\ Listed(s)

\* After the destructor.
Buried == alive = {} /\ \A k \in Key : map[k] = Null

LInv == TypeOK /\ IF gone THEN Buried ELSE \E s : Standing(s)
----------------------------------------------------------------------------
\* The nodes S are those of the map, and nothing points to any other node.
Accounted(nodes, p, n, r, b, m, S) ==
    /\ S = {m[k] : k \in Key} \ {Null}
    /\ S \subseteq nodes
    /\ {r, b} \subseteq S \cup {Null}
    /\ \A y \in nodes : {p[y], n[y]} \cap nodes \subseteq S

\* Then they are what survives an operation.
LEMMA OwnedByTheMap ==
    ASSUME NEW nodes \in SUBSET Node, NEW p, NEW n, NEW r, NEW b, NEW m, NEW S,
           Accounted(nodes, p, n, r, b, m, S)
    PROVE  Owned(nodes, p, n, r, b, m) = S
<1>1. S \subseteq Owned(nodes, p, n, r, b, m)
  BY DEF Owned, Accounted
<1>2. ASSUME NEW x \in Owned(nodes, p, n, r, b, m)
      PROVE  x \in S
  <2>1. PICK keep \in SUBSET nodes :
           /\ x \in keep
           /\ \A z \in keep :
                 \/ z \in {r, b}
                 \/ \E k \in Key : m[k] = z
                 \/ \E y \in keep : z \in {p[y], n[y]}
    BY <1>2 DEF Owned
  <2>. QED
    BY <2>1 DEF Accounted
<1>. QED
  BY <1>1, <1>2

----------------------------------------------------------------------------
LEMMA StandingInit == Init => LInv
<1>. SUFFICES ASSUME Init PROVE Standing(<<>>) /\ TypeOK
  BY DEF LInv, Init
<1>1. TypeOK /\ Mapped /\ Chained
  BY DEF Init, TypeOK, Pointer, Mapped, Chained
<1>2. Listed(<<>>)
  BY DEF Init, Listed
<1>. QED
  BY <1>1, <1>2 DEF Standing

\* What a list says of its ends.
LEMMA ListEnds ==
    ASSUME TypeOK, NEW s, Standing(s)
    PROVE  /\ Len(s) \in Nat /\ alive \subseteq Node /\ Null \notin alive
           /\ \A i \in 1..Len(s) : s[i] \in alive /\ s[i] # Null
           /\ \A i \in 1..Len(s) : s[i] = back <=> i = Len(s)
           /\ \A i \in 1..Len(s) : s[i] = root <=> i = 1
           /\ \A x \in alive : \E i \in 1..Len(s) : s[i] = x
           /\ \A i \in 1..Len(s) : i # 1 => prev[s[i]] = s[i - 1]
           /\ s = <<>> <=> root = Null
<1>1. Len(s) \in Nat /\ alive \subseteq Node /\ Null \notin alive
  BY DEF Standing, Listed, TypeOK
<1>2. /\ \A i \in 1..Len(s) : s[i] \in alive /\ s[i] # Null
      /\ \A x \in alive : \E i \in 1..Len(s) : s[i] = x
  BY <1>1 DEF Standing, Listed
<1>3. ASSUME NEW i \in 1..Len(s)
      PROVE  (s[i] = back <=> i = Len(s)) /\ (s[i] = root <=> i = 1) /\ s # <<>>
  BY <1>1 DEF Standing, Listed
<1>4. ASSUME NEW i \in 1..Len(s), i # 1
      PROVE  prev[s[i]] = s[i - 1]
  <2>1. i - 1 \in 1..Len(s) - 1 /\ i - 1 \in 1..Len(s) /\ (i - 1) + 1 = i
    BY <1>1, <1>4
  <2>2. next[s[i - 1]] = s[i]
    BY <2>1 DEF Standing, Listed
  <2>. QED
    BY <1>2, <2>1, <2>2 DEF Standing, Chained
<1>5. s = <<>> <=> root = Null
  <2>1. CASE s = <<>>
    BY <2>1 DEF Standing, Listed
  <2>2. CASE s # <<>>
    <3>1. 1 \in 1..Len(s) /\ root = s[1]
      BY <1>1, <2>2 DEF Standing, Listed
    <3>. QED
      BY <1>2, <2>2, <3>1
  <2>. QED
    BY <2>1, <2>2
<1>. QED
  BY <1>1, <1>2, <1>3, <1>4, <1>5

LEMMA TouchNewStep ==
    ASSUME TypeOK, NEW s, Standing(s), NEW k \in Key, NEW new \in Node, TouchNew(k, new)
    PROVE  /\ TypeOK' /\ Standing(Append(s, new))'
           /\ \A x \in alive : keyOf'[x] = keyOf[x]
           /\ keyOf'[new] = k
<1>. DEFINE S == alive \cup {new}
            p == [prev EXCEPT ![new] = back]
            n == IF back = Null THEN next ELSE [next EXCEPT ![back] = new]
            m == [map EXCEPT ![k] = new]
            r == IF root = Null THEN new ELSE root
<1>1. Mapped /\ Chained
  BY DEF Standing
<1>2. map[k] = Null /\ new \notin alive /\ new # Null
  BY DEF TouchNew
<1>3. S = {m[j] : j \in Key} \ {Null} /\ S \in SUBSET Node
  BY <1>1, <1>2 DEF Mapped, TypeOK
<1>4. Accounted(S, p, n, r, new, m, S)
  <2>1. {r, new} \subseteq S \cup {Null}
    BY <1>1 DEF Chained
  <2>. QED
    BY <1>3, <2>1 DEF Accounted
<1>5. /\ alive' = S
      /\ keyOf' = [x \in Node |-> IF x \in S THEN [keyOf EXCEPT ![new] = k][x] ELSE NoKey]
      /\ prev' = [x \in Node |-> IF x \in S THEN p[x] ELSE Null]
      /\ next' = [x \in Node |-> IF x \in S THEN n[x] ELSE Null]
      /\ root' = r /\ back' = new /\ map' = m
  <2>1. Settle(S, [keyOf EXCEPT ![new] = k], p, n, r, new, m)
    BY DEF TouchNew
  <2>. HIDE DEF S, p, n, m, r
  <2>2. Owned(S, p, n, r, new, m) = S
    BY <1>3, <1>4, OwnedByTheMap
  <2>. QED
    BY <2>1, <2>2 DEF Settle
<1>6. TypeOK'
  BY <1>1, <1>2, <1>3, <1>5 DEF TouchNew, TypeOK, Pointer, Chained
<1>7. Mapped'
  BY <1>1, <1>2, <1>3, <1>5 DEF Mapped, TypeOK
<1>8. /\ \A x \in alive \ {back} : next'[x] = next[x]
      /\ \A x \in alive : prev'[x] = prev[x]
      /\ back # Null => next'[back] = new
      /\ next'[new] = Null /\ prev'[new] = back
  BY <1>1, <1>2, <1>5 DEF Mapped, Chained, TypeOK
<1>9. Chained'
  <2>1. {root', back'} \subseteq alive' \cup {Null} /\ root' # Null /\ back' # Null
    BY <1>1, <1>2, <1>5 DEF Chained
  <2>2. ASSUME NEW x \in alive'
        PROVE  /\ {next'[x], prev'[x]} \subseteq alive' \cup {Null}
               /\ next'[x] = Null <=> x = back'
               /\ prev'[x] = Null <=> x = root'
               /\ next'[x] # Null => prev'[next'[x]] = x
               /\ prev'[x] # Null => next'[prev'[x]] = x
    <3>1. CASE x = new
      BY <1>1, <1>2, <1>5, <1>8, <3>1 DEF Chained
    <3>2. CASE x = back
      BY <1>1, <1>2, <1>5, <1>8, <3>2 DEF Chained
    <3>3. CASE x \in alive \ {back}
      <4>1. /\ next'[x] = next[x] /\ next[x] \in alive /\ prev'[x] = prev[x]
            /\ root' = root /\ prev'[next[x]] = x
        BY <1>1, <1>5, <1>8, <3>3 DEF Chained
      <4>2. prev[x] # Null => prev[x] \in alive \ {back} /\ next[prev[x]] = x
        BY <1>1, <1>2, <3>3 DEF Chained, Mapped
      <4>. QED
        BY <1>1, <1>2, <1>5, <1>8, <3>3, <4>1, <4>2 DEF Chained
    <3>. QED
      BY <1>5, <2>2, <3>1, <3>2, <3>3
  <2>. QED
    BY <2>1, <2>2 DEF Chained
<1>10. Listed(Append(s, new))'
  <2>. DEFINE t == Append(s, new)
  <2>1. /\ s \in Seq(Node) /\ Len(s) \in Nat
        /\ t \in Seq(Node) /\ Len(t) = Len(s) + 1 /\ t[Len(s) + 1] = new
        /\ \A i \in 1..Len(s) : t[i] = s[i]
    BY DEF Standing, Listed
  <2>. HIDE DEF t
  <2>2. /\ \A i \in 1..Len(s) : s[i] \in alive /\ s[i] # new
        /\ \A i \in 1..Len(s) : s[i] = back <=> i = Len(s)
        /\ \A x \in alive : \E i \in 1..Len(s) : s[i] = x
        /\ s = <<>> <=> root = Null
    BY <1>2, ListEnds
  <2>3. alive' = {t[i] : i \in 1..Len(t)}
    <3>1. \A i \in 1..Len(s) : i \in 1..Len(t)
      BY <2>1
    <3>2. Len(t) \in 1..Len(t)
      BY <2>1
    <3>3. S \subseteq {t[i] : i \in 1..Len(t)}
      BY <2>1, <2>2, <3>1, <3>2
    <3>4. \A i \in 1..Len(t) : t[i] \in S
      BY <2>1, <2>2
    <3>. QED
      BY <1>5, <3>3, <3>4
  <2>4. \A i, j \in 1..Len(t) : t[i] = t[j] => i = j
    BY <2>1, <2>2 DEF Standing, Listed
  <2>5. t # <<>> /\ root' = t[1] /\ back' = t[Len(t)]
    <3>1. t # <<>> /\ back' = t[Len(t)]
      BY <1>5, <2>1
    <3>2. CASE s = <<>>
      BY <1>5, <2>1, <2>2, <3>2
    <3>3. CASE s # <<>>
      <4>1. 1 \in 1..Len(s) /\ root = s[1] /\ root # Null
        BY <2>1, <2>2, <3>3 DEF Standing, Listed
      <4>. QED
        BY <1>5, <2>1, <3>1, <4>1
    <3>. QED
      BY <3>1, <3>2, <3>3
  <2>6. ASSUME NEW i \in 1..Len(t) - 1
        PROVE  next'[t[i]] = t[i + 1]
    <3>1. i \in 1..Len(s) /\ t[i] = s[i] /\ s[i] \in alive
      BY <2>1, <2>2
    <3>2. CASE i = Len(s)
      BY <1>8, <2>1, <2>2, <3>1, <3>2, ListEnds
    <3>3. CASE i # Len(s)
      <4>1. i \in 1..Len(s) - 1 /\ i + 1 \in 1..Len(s)
        BY <2>1, <3>1, <3>3
      <4>. QED
        BY <1>8, <2>1, <2>2, <3>1, <3>3, <4>1 DEF Standing, Listed
    <3>. QED
      BY <3>2, <3>3
  <2>. QED
    BY <2>1, <2>3, <2>4, <2>5, <2>6 DEF Listed, t
<1>11. (\A x \in alive : keyOf'[x] = keyOf[x]) /\ keyOf'[new] = k
  BY <1>2, <1>5 DEF TypeOK
<1>. QED
  BY <1>6, <1>7, <1>9, <1>10, <1>11 DEF Standing

LEMMA TouchOldStep ==
    ASSUME TypeOK, NEW s, Standing(s), NEW k \in Key, TouchOld(k),
           NEW i \in 1..Len(s), s[i] = map[k]
    PROVE  /\ TypeOK' /\ Standing(Append(RemoveAt(s, i), s[i]))'
           /\ \A x \in alive : keyOf'[x] = keyOf[x]
<1>. DEFINE N == map[k]
            next1 == IF root = N THEN next ELSE [next EXCEPT ![prev[N]] = next[N]]
            prev1 == [prev EXCEPT ![next1[N]] = prev[N]]
            next2 == [next1 EXCEPT ![back] = N]
            prev2 == [prev1 EXCEPT ![N] = back]
            next3 == [next2 EXCEPT ![N] = Null]
            r == IF root = N THEN next[N] ELSE root
<1>1. Mapped /\ Chained
  BY DEF Standing
<1>2. /\ s \in Seq(Node) /\ Len(s) \in Nat
      /\ \A j \in 1..Len(s) : s[j] \in alive
      /\ \A j, l \in 1..Len(s) : s[j] = s[l] => j = l
      /\ \A x \in alive : \E j \in 1..Len(s) : s[j] = x
      /\ \A j \in 1..Len(s) - 1 : next[s[j]] = s[j + 1]
  BY ListEnds DEF Standing, Listed
<1>3. /\ N \in alive /\ N # back /\ N # Null /\ back \in alive /\ root \in alive
      /\ next[N] \in alive /\ next[N] # N /\ prev[next[N]] = N
      /\ prev[N] # N /\ prev[N] # next[N]
      /\ N # root => prev[N] \in alive /\ next[prev[N]] = N
      /\ alive \subseteq Node /\ Null \notin alive
  <2>1. N \in alive /\ N # back /\ N # Null /\ alive \subseteq Node
    BY <1>1 DEF TouchOld, Mapped, TypeOK
  <2>2. /\ back \in alive /\ root \in alive
        /\ next[N] \in alive /\ next[N] # Null /\ prev[next[N]] = N
        /\ N # root => prev[N] \in alive /\ prev[N] # Null /\ next[prev[N]] = N
        /\ N = root => prev[N] = Null
    BY <1>1, <2>1 DEF Chained
  <2>3. next[N] # N /\ prev[N] # next[N]
    <3>1. i # Len(s)
      BY <2>1, ListEnds
    <3>2. i \in 1..Len(s) - 1 /\ i + 1 \in 1..Len(s)
      BY <1>2, <3>1
    <3>3. next[s[i]] = s[i + 1] /\ s[i + 1] # s[i]
      BY <1>2, <3>2
    <3>4. CASE i = 1
      BY <2>2, <3>3, <3>4, ListEnds
    <3>5. CASE i # 1
      <4>1. i - 1 \in 1..Len(s) /\ i - 1 # i + 1 /\ prev[s[i]] = s[i - 1]
        BY <1>2, <3>5, ListEnds
      <4>. QED
        BY <1>2, <3>2, <3>3, <4>1
    <3>. QED
      BY <3>3, <3>4, <3>5
  <2>4. prev[N] # N
    BY <2>1, <2>2, <2>3
  <2>. QED
    BY <2>1, <2>2, <2>3, <2>4
<1>4. Accounted(alive, prev2, next3, r, N, map, alive)
  BY <1>1, <1>3 DEF Mapped, Accounted
<1>5. /\ alive' = alive
      /\ keyOf' = [x \in Node |-> IF x \in alive THEN keyOf[x] ELSE NoKey]
      /\ prev' = [x \in Node |-> IF x \in alive THEN prev2[x] ELSE Null]
      /\ next' = [x \in Node |-> IF x \in alive THEN next3[x] ELSE Null]
      /\ root' = r /\ back' = N /\ map' = map
  <2>1. Settle(alive, keyOf, prev2, next3, r, N, map)
    BY DEF TouchOld
  <2>. HIDE DEF next3, prev2, r, N
  <2>2. Owned(alive, prev2, next3, r, N, map) = alive
    BY <1>3, <1>4, OwnedByTheMap
  <2>. QED
    BY <2>1, <2>2 DEF Settle
<1>6. /\ next'[N] = Null /\ prev'[N] = back /\ next'[back] = N
      /\ prev'[next[N]] = prev[N]
      /\ N # root => next'[prev[N]] = next[N]
      /\ \A x \in alive \ {N, back} : (N = root \/ x # prev[N]) => next'[x] = next[x]
      /\ \A x \in alive \ {N, next[N]} : prev'[x] = prev[x]
  <2>1. next1[N] = next[N]
    BY <1>3 DEF TypeOK
  <2>2. N # root => prev[N] # back
    BY <1>1, <1>3 DEF Chained
  <2>. QED
    BY <1>1, <1>3, <1>5, <2>1, <2>2 DEF TypeOK
<1>. HIDE DEF N, next1, next2, next3, prev1, prev2
<1>7. \A x \in alive : next'[x] \in alive \cup {Null} /\ prev'[x] \in alive \cup {Null}
  BY <1>1, <1>3, <1>6 DEF Chained
<1>8. TypeOK'
  <2>1. root' \in Pointer /\ back' \in Pointer
    BY <1>3, <1>5 DEF Pointer
  <2>2. next' \in [Node -> Pointer] /\ prev' \in [Node -> Pointer]
    BY <1>3, <1>5, <1>7 DEF Pointer
  <2>. QED
    BY <1>5, <2>1, <2>2 DEF TouchOld, TypeOK
<1>9. Mapped'
  BY <1>1, <1>5 DEF Mapped, TypeOK
<1>10. Chained'
  <2>1. {root', back'} \subseteq alive' \cup {Null} /\ root' # Null /\ back' # Null
    BY <1>1, <1>3, <1>5 DEF Mapped
  <2>2. ASSUME NEW x \in alive
        PROVE  /\ next'[x] = Null <=> x = back'
               /\ prev'[x] = Null <=> x = root'
               /\ next'[x] # Null => prev'[next'[x]] = x
               /\ prev'[x] # Null => next'[prev'[x]] = x
    <3>1. /\ next[x] \in alive \cup {Null} /\ prev[x] \in alive \cup {Null}
          /\ next[x] = Null <=> x = back
          /\ prev[x] = Null <=> x = root
          /\ next[x] # Null => prev[next[x]] = x
          /\ prev[x] # Null => next[prev[x]] = x
          /\ next[back] = Null /\ prev[root] = Null
          /\ prev[N] = Null <=> N = root
      BY <1>1, <1>3 DEF Chained
    <3>2. CASE x = N
      BY <1>3, <1>5, <1>6, <3>2 DEF r
    <3>3. CASE x = next[N]
      <4>1. x # N /\ prev[x] = N /\ prev'[x] = prev[N] /\ (x = root' <=> N = root)
        BY <1>1, <1>3, <1>5, <1>6, <3>3 DEF r, Chained
      <4>2. N # root => next'[prev[N]] = x
        BY <1>6, <3>3
      <4>3. CASE x = back
        BY <1>3, <1>5, <1>6, <3>1, <4>1, <4>2, <4>3
      <4>4. CASE x # back
        <5>1. next'[x] = next[x]
          BY <1>3, <1>6, <3>3, <4>1, <4>4
        <5>2. next[x] # Null /\ next[x] \in alive /\ prev[next[x]] = x
          BY <3>1, <4>4
        <5>3. next[x] # N /\ next[x] # next[N]
          BY <1>3, <3>3, <4>1, <5>2
        <5>4. prev'[next[x]] = x
          BY <1>6, <5>2, <5>3
        <5>. QED
          BY <1>5, <3>1, <4>1, <4>2, <5>1, <5>2, <5>4
      <4>. QED
        BY <4>3, <4>4
    <3>4. CASE x # N /\ x # next[N]
      <4>1. prev'[x] = prev[x] /\ (x = root' <=> x = root)
        BY <1>3, <1>5, <1>6, <3>1, <3>4 DEF r
      <4>2. prev[x] # Null => next'[prev[x]] = x
        BY <1>3, <1>6, <3>1, <3>4
      <4>3. /\ next'[x] = Null <=> x = back'
            /\ next'[x] # Null => prev'[next'[x]] = x
        <5>1. CASE x = back
          BY <1>3, <1>5, <1>6, <3>4, <5>1
        <5>2. CASE N # root /\ x = prev[N]
          BY <1>3, <1>5, <1>6, <3>4, <5>2
        <5>3. CASE x # back /\ (N = root \/ x # prev[N])
          <6>1. next'[x] = next[x]
            BY <1>6, <3>4, <5>3
          <6>2. next[x] # Null /\ next[x] \in alive /\ prev[next[x]] = x
            BY <3>1, <5>3
          <6>3. next[x] # N /\ next[x] # next[N]
            BY <1>3, <3>1, <3>4, <5>3, <6>2
          <6>4. prev'[next[x]] = x
            BY <1>6, <6>2, <6>3
          <6>. QED
            BY <1>5, <3>4, <6>1, <6>2, <6>4
        <5>. QED
          BY <5>1, <5>2, <5>3
      <4>. QED
        BY <3>1, <4>1, <4>2, <4>3
    <3>. QED
      BY <3>2, <3>3, <3>4
  <2>. QED
    BY <1>5, <1>7, <2>1, <2>2 DEF Chained
<1>11. Listed(Append(RemoveAt(s, i), s[i]))'
  <2>. DEFINE t == Append(RemoveAt(s, i), s[i])
              n == Len(s)
  <2>0. s[i] = N /\ n \in Nat /\ i \in 1..n
    BY <1>2 DEF N
  <2>1. /\ t \in Seq(Node) /\ Len(t) = n /\ t[n] = N
        /\ \A j \in 1..i - 1 : t[j] = s[j]
        /\ \A j \in i..n - 1 : t[j] = s[j + 1]
    <3>1. s \in Seq(Node) /\ i \in 1..Len(s)
      BY <1>2
    <3>2. /\ t \in Seq(Node) /\ Len(t) = Len(s) /\ t[Len(s)] = s[i]
          /\ \A j \in 1..i - 1 : t[j] = s[j]
          /\ \A j \in i..Len(s) - 1 : t[j] = s[j + 1]
      BY ONLY <3>1, MoveToBack
    <3>. QED
      BY <2>0, <3>2
  <2>2. /\ i # n /\ back = s[n]
        /\ N = root <=> i = 1
        /\ i # 1 => prev[N] = s[i - 1]
    BY <1>3, <2>0, ListEnds
  <2>. HIDE DEF t, N
  <2>3. alive' = {t[j] : j \in 1..Len(t)}
    <3>1. ASSUME NEW j \in 1..n
          PROVE  s[j] \in {t[m] : m \in 1..n}
      <4>1. CASE j < i
        BY <2>0, <2>1, <4>1
      <4>2. CASE j = i
        BY <2>0, <2>1, <4>2
      <4>3. CASE j > i
        <5>1. j - 1 \in i..n - 1 /\ j - 1 \in 1..n /\ (j - 1) + 1 = j
          BY <2>0, <4>3
        <5>. QED
          BY <2>1, <5>1
      <4>. QED
        BY <2>0, <4>1, <4>2, <4>3
    <3>2. ASSUME NEW j \in 1..n
          PROVE  t[j] \in alive
      BY <1>2, <1>3, <2>0, <2>1
    <3>3. \A x \in alive : \E m \in 1..n : t[m] = x
      BY <1>2, <3>1
    <3>. QED
      BY <1>5, <2>1, <3>2, <3>3
  <2>4. ASSUME NEW j \in 1..n, NEW m \in 1..n, t[j] = t[m]
        PROVE  j = m
    <3>. DEFINE at(a) == IF a = n THEN i ELSE IF a < i THEN a ELSE a + 1
    <3>1. \A a \in 1..n : at(a) \in 1..n /\ t[a] = s[at(a)]
      BY <2>0, <2>1
    <3>2. at(j) = at(m)
      BY <1>2, <2>4, <3>1
    <3>. QED
      BY <2>0, <3>2
  <2>5. t # <<>> /\ root' = t[1] /\ back' = t[Len(t)]
    <3>1. t # <<>> /\ back' = t[Len(t)]
      BY <1>5, <2>0, <2>1
    <3>2. CASE i = 1
      <4>1. next[N] = s[2] /\ t[1] = s[2]
        BY <1>2, <2>0, <2>1, <2>2, <3>2
      <4>. QED
        BY <1>5, <2>2, <3>1, <3>2, <4>1 DEF r
    <3>3. CASE i # 1
      <4>1. t[1] = s[1] /\ root = s[1]
        BY <2>0, <2>1, <3>3 DEF Standing, Listed
      <4>. QED
        BY <1>5, <2>2, <3>1, <3>3, <4>1 DEF r
    <3>. QED
      BY <3>2, <3>3
  <2>6. ASSUME NEW j \in 1..n - 1
        PROVE  next'[t[j]] = t[j + 1]
    <3>1. CASE j = n - 1
      <4>1. t[j] = back /\ t[j + 1] = N
        BY <2>0, <2>1, <2>2, <3>1
      <4>. QED
        BY <1>6, <4>1
    <3>2. CASE j # n - 1 /\ j >= i
      <4>1. /\ j + 1 \in 1..n - 1 /\ j + 1 \in 1..n /\ j + 1 # i /\ j + 1 # n
            /\ t[j] = s[j + 1] /\ t[j + 1] = s[(j + 1) + 1]
            /\ i # 1 => j + 1 # i - 1 /\ i - 1 \in 1..n
        BY <2>0, <2>1, <3>2
      <4>2. /\ s[j + 1] \in alive \ {N, back} /\ next[s[j + 1]] = s[(j + 1) + 1]
            /\ N = root \/ s[j + 1] # prev[N]
        BY <1>2, <2>0, <2>2, <4>1
      <4>. QED
        BY <1>6, <4>1, <4>2
    <3>3. CASE j = i - 1
      <4>1. t[j] = prev[N] /\ N # root /\ t[j + 1] = s[i + 1] /\ next[N] = s[i + 1]
        BY <1>2, <2>0, <2>1, <2>2, <3>3
      <4>. QED
        BY <1>6, <4>1
    <3>4. CASE j < i - 1
      <4>1. /\ j \in 1..n - 1 /\ j \in 1..n /\ j # i /\ j # n
            /\ t[j] = s[j] /\ t[j + 1] = s[j + 1]
            /\ i - 1 \in 1..n /\ j # i - 1 /\ i # 1
        BY <2>0, <2>1, <3>4
      <4>2. /\ s[j] \in alive \ {N, back} /\ next[s[j]] = s[j + 1]
            /\ s[j] # prev[N]
        BY <1>2, <2>0, <2>2, <4>1
      <4>. QED
        BY <1>6, <4>1, <4>2
    <3>. QED
      BY <2>0, <3>1, <3>2, <3>3, <3>4
  <2>. QED
    BY <2>1, <2>3, <2>4, <2>5, <2>6 DEF Listed, t
<1>12. \A x \in alive : keyOf'[x] = keyOf[x]
  BY <1>3, <1>5
<1>. QED
  BY <1>8, <1>9, <1>10, <1>11, <1>12 DEF Standing

LEMMA EvictStep ==
    ASSUME TypeOK, NEW s, Standing(s), Evict
    PROVE  /\ TypeOK' /\ s # <<>> /\ Standing(Tail(s))'
           /\ \A x \in alive \ {root} : keyOf'[x] = keyOf[x]
           /\ answer' = keyOf[s[1]]
<1>. DEFINE N == root
            S == alive \ {N}
            p == IF next[N] = Null THEN prev ELSE [prev EXCEPT ![next[N]] = Null]
            b == IF back = N THEN Null ELSE back
            m == [map EXCEPT ![keyOf[N]] = Null]
<1>1. Mapped /\ Chained
  BY DEF Standing
<1>2. /\ s \in Seq(Node) /\ Len(s) \in Nat \ {0} /\ root = s[1]
      /\ \A j \in 1..Len(s) : s[j] \in alive
      /\ \A j, l \in 1..Len(s) : s[j] = s[l] => j = l
      /\ \A x \in alive : \E j \in 1..Len(s) : s[j] = x
      /\ \A j \in 1..Len(s) - 1 : next[s[j]] = s[j + 1]
      /\ back = s[Len(s)]
  <2>1. s # <<>>
    BY ListEnds DEF Evict
  <2>. QED
    BY <2>1, ListEnds DEF Standing, Listed
<1>3. /\ N \in alive /\ N # Null /\ back \in alive /\ prev[N] = Null
      /\ next[N] # N /\ next[N] \in alive \cup {Null}
      /\ next[N] = Null <=> N = back
      /\ next[N] # Null => prev[next[N]] = N
      /\ alive \subseteq Node /\ Null \notin alive
  <2>1. next[N] # N
    <3>1. CASE Len(s) = 1
      BY <1>1, <1>2, <3>1 DEF Chained, Evict
    <3>2. CASE Len(s) # 1
      <4>0. \A n \in Nat \ {0} : n # 1 => 1 \in 1..n - 1 /\ 1 \in 1..n /\ 2 \in 1..n
        OBVIOUS
      <4>1. 1 \in 1..Len(s) - 1 /\ 1 \in 1..Len(s) /\ 2 \in 1..Len(s)
        BY <1>2, <3>2, <4>0
      <4>2. next[s[1]] = s[2] /\ s[2] # s[1]
        BY <1>2, <4>1
      <4>. QED
        BY <1>2, <4>2
    <3>. QED
      BY <3>1, <3>2
  <2>. QED
    BY <1>1, <2>1 DEF Evict, Mapped, Chained, TypeOK
<1>4. S = {m[j] : j \in Key} \ {Null} /\ keyOf[N] \in Key
  <2>1. PICK k \in Key : N = map[k] /\ keyOf[N] = k
    BY <1>1, <1>3 DEF Mapped
  <2>2. \A j \in Key \ {k} : map[j] # N
    BY <1>1, <1>3, <2>1 DEF Mapped
  <2>3. m[k] = Null /\ \A j \in Key \ {k} : m[j] = map[j]
    BY <2>1 DEF TypeOK
  <2>. QED
    BY <1>1, <2>1, <2>2, <2>3 DEF Mapped
<1>5. Accounted(alive, p, next, next[N], b, m, S)
  <2>1. {next[N], b} \subseteq S \cup {Null}
    BY <1>3
  <2>2. ASSUME NEW y \in alive
        PROVE  {p[y], next[y]} \cap alive \subseteq S
    BY <1>1, <1>3, <2>2 DEF Chained, TypeOK
  <2>. HIDE DEF p, b, m, S
  <2>3. S \subseteq alive
    BY DEF S
  <2>. QED
    BY <1>4, <2>1, <2>2, <2>3 DEF Accounted
<1>6. /\ alive' = S
      /\ keyOf' = [x \in Node |-> IF x \in S THEN keyOf[x] ELSE NoKey]
      /\ prev' = [x \in Node |-> IF x \in S THEN p[x] ELSE Null]
      /\ next' = [x \in Node |-> IF x \in S THEN next[x] ELSE Null]
      /\ root' = next[N] /\ back' = b /\ map' = m
  <2>1. Settle(alive, keyOf, p, next, next[N], b, m)
    BY DEF Evict
  <2>. HIDE DEF p, b, m, S
  <2>2. Owned(alive, p, next, next[N], b, m) = S
    BY <1>3, <1>5, OwnedByTheMap
  <2>. QED
    BY <2>1, <2>2 DEF Settle
<1>7. /\ \A x \in S : next'[x] = next[x]
      /\ \A x \in S \ {next[N]} : prev'[x] = prev[x]
      /\ next[N] # Null => prev'[next[N]] = Null
  BY <1>3, <1>6 DEF TypeOK
<1>8. \A x \in S : next'[x] \in S \cup {Null} /\ prev'[x] \in S \cup {Null}
  BY <1>1, <1>3, <1>7 DEF Chained
<1>9. TypeOK'
  <2>1. root' \in Pointer /\ back' \in Pointer
    BY <1>3, <1>6 DEF Pointer
  <2>2. next' \in [Node -> Pointer] /\ prev' \in [Node -> Pointer]
    BY <1>3, <1>6, <1>8 DEF Pointer
  <2>3. map' \in [Key -> Pointer]
    BY <1>4, <1>6 DEF TypeOK, Pointer
  <2>. QED
    BY <1>3, <1>6, <2>1, <2>2, <2>3 DEF Evict, TypeOK
<1>10. Mapped'
  <2>1. alive' = {map'[j] : j \in Key} \ {Null}
    BY <1>4, <1>6
  <2>2. \A x \in Node \ alive' : next'[x] = Null /\ prev'[x] = Null
    BY <1>6
  <2>3. ASSUME NEW j \in Key, map'[j] # Null
        PROVE  keyOf'[map'[j]] = j
    <3>1. map'[j] = map[j] /\ map[j] \in S /\ map[j] \in Node
      BY <1>3, <1>4, <1>6, <2>3 DEF TypeOK
    <3>. QED
      BY <1>1, <1>6, <2>3, <3>1 DEF Mapped
  <2>. QED
    BY <2>1, <2>2, <2>3 DEF Mapped
<1>11. Listed(Tail(s))'
  <2>. DEFINE t == Tail(s)
              n == Len(s)
  <2>1. /\ t \in Seq(Node) /\ Len(t) = n - 1 /\ n \in Nat \ {0}
        /\ \A j \in 1..n - 1 : t[j] = s[j + 1] /\ j + 1 \in 1..n
    BY <1>2
  <2>. HIDE DEF t, S
  <2>2. alive' = {t[j] : j \in 1..Len(t)}
    <3>1. \A x \in S : \E j \in 1..n - 1 : t[j] = x
      <4>1. ASSUME NEW x \in S
            PROVE  \E j \in 1..n - 1 : t[j] = x
        <5>1. PICK j \in 1..n : s[j] = x /\ j # 1
          BY <1>2 DEF S
        <5>2. j - 1 \in 1..n - 1 /\ (j - 1) + 1 = j
          BY <2>1, <5>1
        <5>. QED
          BY <2>1, <5>1, <5>2
      <4>. QED
        BY <4>1
    <3>2. \A j \in 1..n - 1 : t[j] \in S
      BY <1>2, <2>1 DEF S
    <3>. QED
      BY <1>6, <2>1, <3>1, <3>2
  <2>3. \A j, l \in 1..Len(t) : t[j] = t[l] => j = l
    BY <1>2, <2>1
  <2>4. CASE n = 1
    <3>1. t = <<>> /\ N = back
      BY <1>2, <2>1, <2>4
    <3>. QED
      <4>1. root' = Null /\ back' = Null
        BY <1>3, <1>6, <3>1
      <4>2. Len(t) = 0
        BY <2>1, <2>4
      <4>3. \A j \in 1..Len(t) - 1 : FALSE
        BY <4>2
      <4>. QED
        BY <2>1, <2>2, <2>3, <3>1, <4>1, <4>3 DEF Listed, t
  <2>5. CASE n # 1
    <3>1. t # <<>> /\ t[1] = s[2] /\ t[n - 1] = back /\ next[N] = s[2] /\ back # N
      BY <1>2, <2>1, <2>5
    <3>2. root' = t[1] /\ back' = t[Len(t)]
      BY <1>6, <2>1, <3>1
    <3>3. ASSUME NEW j \in 1..Len(t) - 1
          PROVE  next'[t[j]] = t[j + 1]
      <4>1. j \in 1..n - 1 /\ j + 1 \in 1..n - 1 /\ j + 1 # 1 /\ j + 1 \in 1..n
        BY <2>1
      <4>2. t[j] = s[j + 1] /\ t[j + 1] = s[(j + 1) + 1] /\ next[s[j + 1]] = s[(j + 1) + 1]
        BY <1>2, <2>1, <4>1
      <4>3. t[j] \in S
        BY <1>6, <2>1, <2>2, <4>1
      <4>. QED
        BY <1>7, <4>2, <4>3
    <3>. QED
      BY <2>1, <2>2, <2>3, <3>1, <3>2, <3>3 DEF Listed, t
  <2>. QED
    BY <2>4, <2>5
<1>12. Chained'
  <2>1. alive' # {} => root' # Null /\ back' # Null
    <3>1. ASSUME N = back, NEW x \in S
          PROVE  FALSE
      <4>1. PICK j \in 1..Len(s) : s[j] = x
        BY <1>2
      <4>2. 1 \in 1..Len(s) /\ Len(s) \in 1..Len(s) /\ s[1] = s[Len(s)]
        BY <1>2, <3>1
      <4>3. Len(s) = 1 /\ j = 1
        BY <1>2, <4>1, <4>2
      <4>. QED
        BY <1>2, <4>1, <4>3
    <3>. QED
      BY <1>3, <1>6, <3>1
  <2>2. {root', back'} \subseteq alive' \cup {Null}
    BY <1>3, <1>6
  <2>3. ASSUME NEW x \in S
        PROVE  /\ next'[x] = Null <=> x = back'
               /\ prev'[x] = Null <=> x = root'
               /\ next'[x] # Null => prev'[next'[x]] = x
               /\ prev'[x] # Null => next'[prev'[x]] = x
    <3>1. /\ next[x] \in alive \cup {Null} /\ prev[x] \in alive \cup {Null}
          /\ next[x] = Null <=> x = back
          /\ prev[x] = Null <=> x = root
          /\ next[x] # Null => prev[next[x]] = x
          /\ prev[x] # Null => next[prev[x]] = x
      BY <1>1 DEF Chained
    <3>2. CASE x = next[N]
      BY <1>3, <1>6, <1>7, <1>8, <3>1, <3>2
    <3>3. CASE x # next[N]
      BY <1>3, <1>6, <1>7, <1>8, <3>1, <3>3
    <3>. QED
      BY <3>2, <3>3
  <2>. HIDE DEF S
  <2>. QED
    BY <1>6, <1>8, <2>1, <2>2, <2>3 DEF Chained
<1>13. (\A x \in alive \ {root} : keyOf'[x] = keyOf[x]) /\ answer' = keyOf[s[1]]
  BY <1>2, <1>3, <1>6 DEF Evict
<1>. QED
  BY <1>2, <1>9, <1>10, <1>11, <1>12, <1>13 DEF Standing

----------------------------------------------------------------------------
\* A list is no longer than the memory.
LEMMA ListFits ==
    ASSUME TypeOK, NEW s, Standing(s)
    PROVE  Cardinality(Node) \in Nat /\ Len(s) \in Nat /\ Len(s) <= Cardinality(Node)
<1>. DEFINE f == [i \in 1..Len(s) |-> s[i]]
<1>1. Len(s) \in Nat /\ s \in Seq(Node)
  BY DEF Standing, Listed
<1>2. f \in Injection(1..Len(s), Node)
  <2>1. f \in [1..Len(s) -> Node]
    BY <1>1
  <2>2. \A i, j \in 1..Len(s) : f[i] = f[j] => i = j
    BY DEF Standing, Listed
  <2>. QED
    BY <2>1, <2>2 DEF Injection, IsInjective
<1>. HIDE DEF f
<1>3. Cardinality(1..Len(s)) <= Cardinality(Node)
  BY <1>2, FS_Injection DEF LruEvictorAssumption
<1>4. Cardinality(1..Len(s)) = Len(s)
  <2>1. \A n \in Nat : Cardinality(1..n) = n
    BY FS_Interval
  <2>. QED
    BY <1>1, <2>1
<1>5. Cardinality(Node) \in Nat
  BY FS_CardinalityType DEF LruEvictorAssumption
<1>. QED
  BY <1>1, <1>3, <1>4, <1>5

\* Following next_ from the root passes the nodes of the list in their order,
\* and then nothing.
LEMMA WalkIs ==
    ASSUME TypeOK, NEW s, Standing(s)
    PROVE  \A i \in 0..Cardinality(Node) :
              Walk[i] = IF i < Len(s) THEN s[i + 1] ELSE Null
<1>. DEFINE c == Cardinality(Node)
            w == [i \in 0..c |-> IF i < Len(s) THEN s[i + 1] ELSE Null]
            F(g) == [i \in 0..c |-> IF i = 0 THEN root
                                    ELSE IF g[i - 1] = Null THEN Null ELSE next[g[i - 1]]]
<1>1. c \in Nat /\ Len(s) \in Nat /\ Len(s) <= c
  BY ListFits
<1>. HIDE DEF c
<1>2. w = F(w)
  <2>1. w[0] = root
    <3>1. 0 \in 0..c
      BY <1>1
    <3>2. CASE s = <<>>
      BY <3>1, <3>2, ListEnds
    <3>3. CASE s # <<>>
      <4>1. 0 < Len(s) /\ 0 + 1 = 1
        BY <3>3 DEF Standing, Listed
      <4>2. root = s[1]
        BY <3>3 DEF Standing, Listed
      <4>. QED
        BY <3>1, <4>1, <4>2
    <3>. QED
      BY <3>2, <3>3
  <2>2. ASSUME NEW i \in 0..c, i # 0
        PROVE  w[i] = IF w[i - 1] = Null THEN Null ELSE next[w[i - 1]]
    <3>1. i - 1 \in 0..c /\ (i - 1) + 1 = i
      BY <1>1, <2>2
    <3>2. w[i - 1] = IF i - 1 < Len(s) THEN s[i] ELSE Null
      BY <3>1
    <3>3. w[i] = IF i < Len(s) THEN s[i + 1] ELSE Null
      OBVIOUS
    <3>. HIDE DEF w
    <3>4. CASE i < Len(s)
      <4>1. i \in 1..Len(s) - 1 /\ i \in 1..Len(s) /\ i - 1 < Len(s)
        BY <1>1, <2>2, <3>4
      <4>2. s[i] # Null /\ next[s[i]] = s[i + 1]
        BY <4>1, ListEnds DEF Standing, Listed
      <4>. QED
        BY <3>2, <3>3, <3>4, <4>1, <4>2
    <3>5. CASE i = Len(s)
      <4>1. i \in 1..Len(s) /\ i - 1 < Len(s) /\ ~ (i < Len(s))
        BY <1>1, <2>2, <3>5
      <4>2. s[i] \in alive /\ s[i] # Null /\ s[i] = back
        BY <3>5, <4>1, ListEnds
      <4>3. next[s[i]] = Null
        BY <4>2 DEF Standing, Chained
      <4>. QED
        BY <3>2, <3>3, <4>1, <4>2, <4>3
    <3>6. CASE i > Len(s)
      <4>1. ~ (i - 1 < Len(s)) /\ ~ (i < Len(s))
        BY <1>1, <3>6
      <4>. QED
        BY <3>2, <3>3, <4>1
    <3>. QED
      BY <1>1, <3>4, <3>5, <3>6
  <2>3. w = [i \in 0..c |-> w[i]]
    OBVIOUS
  <2>. HIDE DEF w
  <2>. QED
    BY <2>1, <2>2, <2>3
<1>. HIDE DEF w
<1>3. Walk = F(Walk)
  <2>1. Walk = CHOOSE g : g = F(g)
    BY DEF Walk, c
  <2>. HIDE DEF F
  <2>. QED
    BY <1>2, <2>1
<1>4. \A i \in 0..c : Walk[i] = w[i]
  <2>. DEFINE D == {i \in 0..c : Walk[i] # w[i]}
  <2>1. SUFFICES ASSUME D # {} PROVE FALSE
    OBVIOUS
  <2>2. D \in SUBSET Nat
    OBVIOUS
  <2>3. PICK i \in D : \A j \in D : i <= j
    BY <2>1, <2>2, LeastMember
  <2>4. i \in 0..c /\ Walk[i] # w[i]
    BY <2>3
  <2>5. CASE i = 0
    BY <1>2, <1>3, <2>4, <2>5
  <2>6. CASE i # 0
    <3>1. i - 1 \in 0..c /\ ~ (i <= i - 1)
      BY <1>1, <2>4, <2>6
    <3>2. Walk[i - 1] = w[i - 1]
      BY <2>3, <3>1
    <3>3. /\ w[i] = IF w[i - 1] = Null THEN Null ELSE next[w[i - 1]]
          /\ Walk[i] = IF Walk[i - 1] = Null THEN Null ELSE next[Walk[i - 1]]
      <4>1. \A g : F(g)[i] = IF g[i - 1] = Null THEN Null ELSE next[g[i - 1]]
        BY <2>4, <2>6
      <4>. HIDE DEF F
      <4>. QED
        BY <1>2, <1>3, <4>1
    <3>. QED
      BY <2>4, <3>2, <3>3
  <2>. QED
    BY <2>5, <2>6
<1>. QED
  BY <1>4 DEF w, c

\* So the walk finds every node, and their keys in the order of the list.
LEMMA OrderIs ==
    TypeOK => \A s : Standing(s) =>
        InList = alive /\ Order = [i \in 1..Len(s) |-> keyOf[s[i]]]
<1>. SUFFICES ASSUME TypeOK, NEW s, Standing(s)
     PROVE  InList = alive /\ Order = [i \in 1..Len(s) |-> keyOf[s[i]]]
  OBVIOUS
<1>. DEFINE c == Cardinality(Node)
<1>1. c \in Nat /\ Len(s) \in Nat /\ Len(s) <= c
  BY ListFits
<1>2. \A i \in 0..c : Walk[i] = IF i < Len(s) THEN s[i + 1] ELSE Null
  BY WalkIs
<1>. HIDE DEF c
<1>3. \A i \in 1..Len(s) : i - 1 \in 0..c /\ Walk[i - 1] = s[i] /\ s[i] # Null
  <2>1. \A i \in 1..Len(s) : i - 1 \in 0..c /\ i - 1 < Len(s) /\ (i - 1) + 1 = i
    BY <1>1
  <2>. QED
    BY <1>2, <2>1, ListEnds
<1>4. \A i \in 0..c : IF i < Len(s) THEN i + 1 \in 1..Len(s) /\ Walk[i] = s[i + 1]
                                    ELSE Walk[i] = Null
  BY <1>1, <1>2
<1>5. InList = alive
  <2>1. \A x \in alive : x \in InList
    BY <1>3, ListEnds DEF InList, c
  <2>2. \A x \in InList : x \in alive
    BY <1>4, ListEnds DEF InList, c
  <2>. QED
    BY <2>1, <2>2
<1>6. {i \in 0..c : Walk[i] # Null} = 0..Len(s) - 1
  <2>1. ASSUME NEW i \in 0..c, Walk[i] # Null
        PROVE  i \in 0..Len(s) - 1
    BY <1>1, <1>4, <2>1
  <2>2. ASSUME NEW i \in 0..Len(s) - 1
        PROVE  i \in 0..c /\ Walk[i] # Null
    <3>1. i + 1 \in 1..Len(s) /\ (i + 1) - 1 = i
      BY <1>1
    <3>. QED
      BY <1>3, <3>1
  <2>. QED
    BY <2>1, <2>2
<1>7. Cardinality({i \in 0..c : Walk[i] # Null}) = Len(s)
  <2>1. \A n \in Nat : Cardinality(0..n - 1) = n
    BY FS_Interval
  <2>. QED
    BY <1>1, <1>6, <2>1
<1>8. Order = [i \in 1..Len(s) |-> keyOf[Walk[i - 1]]]
  BY <1>7 DEF Order, c
<1>. QED
  BY <1>3, <1>5, <1>8

\* The destructor destroys every node: with the prev_ pointers cut, nothing
\* holds the first of any nodes that would be left.
LEMMA DestroyStep ==
    ASSUME TypeOK, NEW s, Standing(s), Destroy
    PROVE  TypeOK' /\ gone' /\ Buried'
<1>. DEFINE p == [x \in Node |-> IF x \in InList \ {root} THEN Null ELSE prev[x]]
            m == [k \in Key |-> Null]
<1>1. /\ Len(s) \in Nat /\ alive \subseteq Node /\ Null \notin alive
      /\ \A x \in alive : \E i \in 1..Len(s) : s[i] = x
      /\ \A i \in 1..Len(s) : s[i] \in alive
      /\ \A i \in 1..Len(s) : s[i] = back <=> i = Len(s)
  BY ListEnds
<1>2. \A x \in alive : p[x] = Null
  <2>1. InList = alive
    BY OrderIs
  <2>. QED
    BY <1>1, <2>1 DEF Standing, Chained
<1>. HIDE DEF p
<1>3. Owned(alive, p, next, Null, Null, m) = {}
  <2>1. SUFFICES ASSUME NEW keep \in SUBSET alive, keep # {},
                        \A x \in keep :
                           \/ x \in {Null, Null}
                           \/ \E k \in Key : m[k] = x
                           \/ \E y \in keep : x \in {p[y], next[y]}
                 PROVE  FALSE
    <3>. HIDE DEF m
    <3>. QED
      BY DEF Owned
  <2>. DEFINE I == {i \in 1..Len(s) : s[i] \in keep}
  <2>2. I \in SUBSET Nat /\ I # {}
    <3>1. PICK x \in keep : x \in alive
      BY <2>1
    <3>. QED
      BY <1>1, <3>1
  <2>3. PICK i \in I : \A j \in I : i <= j
    BY <2>2, LeastMember
  <2>4. i \in 1..Len(s) /\ s[i] \in keep /\ s[i] \in alive /\ s[i] # Null
    BY <1>1, <2>3
  <2>5. PICK y \in keep : s[i] = next[y]
    BY <1>2, <2>1, <2>4
  <2>6. PICK j \in 1..Len(s) : s[j] = y /\ y \in alive
    BY <1>1
  <2>7. j # Len(s)
    BY <1>1, <2>4, <2>5, <2>6 DEF Standing, Chained
  <2>8. j \in 1..Len(s) - 1 /\ j + 1 \in 1..Len(s) /\ ~ (j + 1 <= j)
    BY <1>1, <2>7
  <2>9. j + 1 = i
    BY <2>4, <2>5, <2>6, <2>8 DEF Standing, Listed
  <2>10. j \in I
    BY <2>6
  <2>. QED
    BY <2>3, <2>8, <2>9, <2>10
<1>4. /\ alive' = {}
      /\ keyOf' = [x \in Node |-> NoKey]
      /\ prev' = [x \in Node |-> Null]
      /\ next' = [x \in Node |-> Null]
      /\ root' = Null /\ back' = Null /\ map' = m /\ gone' = TRUE /\ answer' = answer
  <2>1. /\ Settle(alive, keyOf, p, next, Null, Null, m)
        /\ gone' = TRUE /\ answer' = answer
    BY DEF Destroy, p
  <2>. HIDE DEF m
  <2>. QED
    BY <1>3, <2>1 DEF Settle
<1>. QED
  BY <1>4 DEF TypeOK, Pointer, Buried

----------------------------------------------------------------------------
\* A step that changes no pointer.
LEMMA StandingKept ==
    ASSUME NEW s, Standing(s), UNCHANGED <<alive, keyOf, prev, next, root, back, map>>
    PROVE  Standing(s)'
<1>1. Mapped'
  BY DEF Standing, Mapped
<1>2. Chained'
  BY DEF Standing, Chained
<1>3. Listed(s)'
  BY DEF Standing, Listed
<1>. QED
  BY <1>1, <1>2, <1>3 DEF Standing

LEMMA LInvStep == LInv /\ [Next]_vars => LInv'
<1>. SUFFICES ASSUME LInv, [Next]_vars PROVE LInv'
  OBVIOUS
<1>1. TypeOK
  BY DEF LInv
<1>2. CASE UNCHANGED vars
  <2>1. TypeOK' /\ (Buried => Buried') /\ gone' = gone
    BY <1>1, <1>2 DEF vars, TypeOK, Buried
  <2>2. ASSUME NEW s, Standing(s)
        PROVE  Standing(s)'
    BY <1>2, <2>2, StandingKept DEF vars
  <2>. QED
    BY <2>1, <2>2 DEF LInv
<1>3. CASE ~ UNCHANGED vars
  <2>1. ~gone /\ Next
    BY <1>3 DEF Next, TouchNew, TouchBack, TouchOld, Evict, EvictEmpty, Destroy
  <2>2. PICK s : Standing(s)
    BY <2>1 DEF LInv
  <2>3. ASSUME NEW k \in Key, NEW new \in Node, TouchNew(k, new)
        PROVE  LInv'
    <3>1. TypeOK' /\ Standing(Append(s, new))'
      BY <1>1, <2>2, <2>3, TouchNewStep
    <3>2. ~gone'
      BY <2>1, <2>3 DEF TouchNew
    <3>. QED
      BY <3>1, <3>2 DEF LInv
  <2>4. ASSUME NEW k \in Key, TouchOld(k)
        PROVE  LInv'
    <3>1. PICK i \in 1..Len(s) : s[i] = map[k]
      <4>1. map[k] \in alive
        BY <2>2, <2>4 DEF Standing, Mapped, TouchOld
      <4>. QED
        BY <1>1, <2>2, <4>1, ListEnds
    <3>2. TypeOK' /\ Standing(Append(RemoveAt(s, i), s[i]))'
      BY <1>1, <2>2, <2>4, <3>1, TouchOldStep
    <3>3. ~gone'
      BY <2>1, <2>4 DEF TouchOld
    <3>. QED
      BY <3>2, <3>3 DEF LInv
  <2>5. CASE Evict
    <3>1. TypeOK' /\ Standing(Tail(s))'
      BY <1>1, <2>2, <2>5, EvictStep
    <3>2. ~gone'
      BY <2>1, <2>5 DEF Evict
    <3>. QED
      BY <3>1, <3>2 DEF LInv
  <2>6. CASE EvictEmpty
    <3>1. TypeOK' /\ ~gone'
      BY <1>1, <2>1, <2>6 DEF EvictEmpty, TypeOK
    <3>2. Standing(s)'
      BY <2>2, <2>6, StandingKept DEF EvictEmpty
    <3>. QED
      BY <3>1, <3>2 DEF LInv
  <2>7. CASE Destroy
    BY <1>1, <2>2, <2>7, DestroyStep DEF LInv
  <2>. QED
    BY <1>3, <2>1, <2>3, <2>4, <2>5, <2>6, <2>7 DEF Next, TouchBack
<1>. QED
  BY <1>2, <1>3

LEMMA LInvariant == Spec => []LInv
  BY StandingInit, LInvStep, PTL DEF Spec
----------------------------------------------------------------------------
\* Type correctness.
THEOREM LruTypeCorrect == Spec => []TypeOK
  BY LInvariant, PTL DEF LInv

\* touch_key and evict never dereference a pointer that is null, or that
\* leads to a node that has been destroyed.
THEOREM PointersAreThere == Spec => []DereferencesAreDefined
<1>1. LInv => DereferencesAreDefined
  <2>. SUFFICES ASSUME LInv, ~gone PROVE DereferencesAreDefined
    BY DEF DereferencesAreDefined
  <2>1. Mapped /\ Chained /\ Null \notin alive
    BY DEF LInv, Standing, TypeOK
  <2>. QED
    BY <2>1 DEF Mapped, Chained, DereferencesAreDefined
<1>. QED
  BY <1>1, LInvariant, PTL

\* No node is leaked, and none freed that is still in use, although nodes own
\* each other; the destructor leaves none behind.
THEOREM NothingLeaks == Spec => []OnlyMappedNodesLive
<1>1. LInv => OnlyMappedNodesLive
  BY DEF LInv, Standing, Mapped, Buried, OnlyMappedNodesLive
<1>. QED
  BY <1>1, LInvariant, PTL

\* The list is one chain from root_ to back_, the same read in both
\* directions, and it has every node of the map.
THEOREM ListHoldsTogether == Spec => []ListIsConsistent
<1>1. LInv => ListIsConsistent
  <2>. SUFFICES ASSUME LInv, ~gone PROVE ListIsConsistent
    BY DEF ListIsConsistent
  <2>1. PICK s : Standing(s)
    BY DEF LInv
  <2>2. InList = alive
    BY <2>1, OrderIs DEF LInv
  <2>3. Chained /\ Null \notin alive
    BY <2>1 DEF LInv, Standing, TypeOK
  <2>. QED
    BY <2>2, <2>3 DEF ListIsConsistent, Chained
<1>. QED
  BY <1>1, LInvariant, PTL
----------------------------------------------------------------------------
\* The order of the keys is the order of the nodes.
OrderFollows == \A s : TypeOK /\ Standing(s) => Order = [i \in 1..Len(s) |-> keyOf[s[i]]]

LEMMA OrderFollowsAlways == OrderFollows
  BY OrderIs DEF OrderFollows

\* What the steps of the policy are, in this module's operators.
LEMMA PolicySteps ==
    /\ \A k \in Key : Order' = LruTouch(Order, k) /\ answer' = answer => Policy!Next
    /\ /\ answer' = Victim(Order, NoKey)
       /\ Order' = AfterEvict(Order)
       => Policy!Next
  BY DEF Policy!Next, Policy!Touch, Policy!LruTouch, LruTouch,
         Policy!RemoveFirst, RemoveFirst, Policy!SelectInSeq, SelectInSeq,
         Policy!RemoveAt, RemoveAt, Policy!Min, Min,
         Policy!Evict, Policy!Victim, Victim, Policy!AfterEvict, AfterEvict

\* The keys of a list, with the node of each key at its place.
LEMMA KeysOfNodes ==
    ASSUME TypeOK, NEW s, Standing(s)
    PROVE  LET o == [i \in 1..Len(s) |-> keyOf[s[i]]]
           IN  /\ o \in Seq(Key) /\ Len(o) = Len(s) /\ Len(s) \in Nat
               /\ \A i \in 1..Len(s) : o[i] = keyOf[s[i]] /\ map[o[i]] = s[i]
               /\ \A i, j \in 1..Len(s) : o[i] = o[j] => i = j
<1>1. ASSUME NEW i \in 1..Len(s)
      PROVE  keyOf[s[i]] \in Key /\ map[keyOf[s[i]]] = s[i]
  <2>1. s[i] \in alive
    BY ListEnds
  <2>2. PICK k \in Key : map[k] = s[i] /\ map[k] # Null
    BY <2>1 DEF Standing, Mapped
  <2>3. keyOf[s[i]] = k
    BY <2>2 DEF Standing, Mapped
  <2>. QED
    BY <2>2, <2>3
<1>2. Len(s) \in Nat
  BY ListEnds
<1>3. \A i, j \in 1..Len(s) : keyOf[s[i]] = keyOf[s[j]] => i = j
  BY <1>1 DEF Standing, Listed
<1>. QED
  BY <1>1, <1>2, <1>3

\* Every step is one of the policy, or changes nothing it sees; the destructor
\* is not.
LEMMA PolicyStep ==
    LInv /\ [Next]_vars /\ OrderFollows /\ OrderFollows'
        => gone' \/ Policy!Next \/ UNCHANGED <<Order, answer>>
<1>. SUFFICES ASSUME LInv, [Next]_vars, OrderFollows, OrderFollows', ~gone'
     PROVE  Policy!Next \/ UNCHANGED <<Order, answer>>
  OBVIOUS
<1>1. ~gone /\ TypeOK /\ TypeOK'
  <2>1. TypeOK /\ TypeOK'
    BY LInvStep DEF LInv
  <2>2. CASE UNCHANGED vars
    BY <2>1, <2>2 DEF vars
  <2>3. CASE Next
    BY <2>1, <2>3 DEF Next, TouchNew, TouchBack, TouchOld, Evict, EvictEmpty, Destroy
  <2>. QED
    BY <2>2, <2>3
<1>2. PICK s : Standing(s)
  BY <1>1 DEF LInv
<1>. DEFINE o == [i \in 1..Len(s) |-> keyOf[s[i]]]
<1>3. /\ o \in Seq(Key) /\ Len(o) = Len(s) /\ Len(s) \in Nat
      /\ \A i \in 1..Len(s) : o[i] = keyOf[s[i]] /\ map[o[i]] = s[i]
      /\ \A i, j \in 1..Len(s) : o[i] = o[j] => i = j
  BY <1>1, <1>2, KeysOfNodes
<1>4. Order = o
  BY <1>1, <1>2 DEF OrderFollows
<1>5. s \in Seq(Node) /\ \A i \in 1..Len(s) : s[i] \in alive /\ s[i] # Null
  BY <1>1, <1>2, ListEnds DEF Standing, Listed
<1>. HIDE DEF o
<1>6. ASSUME NEW k \in Key, NEW new \in Node, TouchNew(k, new)
      PROVE  Policy!Next
  <2>. DEFINE t == Append(s, new)
  <2>1. /\ TypeOK' /\ Standing(t)'
        /\ \A x \in alive : keyOf'[x] = keyOf[x]
        /\ keyOf'[new] = k
    BY <1>1, <1>2, <1>6, TouchNewStep
  <2>2. Order' = [i \in 1..Len(t) |-> keyOf'[t[i]]]
    BY <2>1 DEF OrderFollows
  <2>3. /\ Len(t) = Len(s) + 1 /\ t[Len(s) + 1] = new
        /\ \A i \in 1..Len(s) : t[i] = s[i]
    BY <1>5
  <2>. HIDE DEF t
  <2>4. \A i \in 1..Len(o) : o[i] # k
    BY <1>3, <1>5, <1>6 DEF TouchNew
  <2>5. LruTouch(o, k) = Append(o, k)
    BY <1>3, <2>4, RemoveAbsent DEF LruTouch
  <2>6. Order' = Append(o, k)
    <3>1. /\ Append(o, k) \in Seq(Key) /\ Len(Append(o, k)) = Len(s) + 1
          /\ Append(o, k)[Len(s) + 1] = k
          /\ \A i \in 1..Len(s) : Append(o, k)[i] = o[i]
      BY <1>3
    <3>2. \A i \in 1..Len(s) + 1 : Order'[i] = Append(o, k)[i]
      <4>1. \A i \in 1..Len(s) : Order'[i] = Append(o, k)[i]
        BY <1>3, <1>5, <2>1, <2>2, <2>3, <3>1
      <4>2. Order'[Len(s) + 1] = k
        BY <1>3, <2>1, <2>2, <2>3
      <4>. QED
        BY <1>3, <3>1, <4>1, <4>2
    <3>3. Order' = [i \in 1..Len(s) + 1 |-> Order'[i]]
      BY <2>2, <2>3
    <3>4. Len(s) + 1 \in Nat
      BY <1>3
    <3>. QED
      BY <3>1, <3>2, <3>3, <3>4, FunctionIsSequence
  <2>. QED
    BY <1>4, <1>6, <2>5, <2>6, PolicySteps DEF TouchNew
<1>7. ASSUME NEW k \in Key, TouchOld(k)
      PROVE  Policy!Next
  <2>1. PICK i \in 1..Len(s) : s[i] = map[k] /\ map[k] \in alive
    <3>1. map[k] \in alive
      BY <1>2, <1>7 DEF Standing, Mapped, TouchOld
    <3>. QED
      BY <1>1, <1>2, <3>1, ListEnds
  <2>. DEFINE t == Append(RemoveAt(s, i), s[i])
              u == Append(RemoveAt(o, i), o[i])
              n == Len(s)
  <2>2. TypeOK' /\ Standing(t)' /\ \A x \in alive : keyOf'[x] = keyOf[x]
    BY <1>1, <1>2, <1>7, <2>1, TouchOldStep
  <2>3. Order' = [j \in 1..Len(t) |-> keyOf'[t[j]]]
    BY <2>2 DEF OrderFollows
  <2>4. /\ t \in Seq(Node) /\ Len(t) = n /\ t[n] = s[i]
        /\ \A j \in 1..i - 1 : t[j] = s[j]
        /\ \A j \in i..n - 1 : t[j] = s[j + 1]
    <3>1. s \in Seq(Node) /\ i \in 1..Len(s)
      BY <1>5
    <3>. QED
      BY <3>1, MoveToBack
  <2>5. /\ u \in Seq(Key) /\ Len(u) = n /\ u[n] = o[i]
        /\ \A j \in 1..i - 1 : u[j] = o[j]
        /\ \A j \in i..n - 1 : u[j] = o[j + 1]
    <3>1. o \in Seq(Key) /\ i \in 1..Len(o) /\ n = Len(o)
      BY <1>3
    <3>. HIDE DEF n
    <3>. QED
      BY <3>1, MoveToBack
  <2>6. o[i] = k
    BY <1>2, <1>3, <1>5, <2>1 DEF Standing, Mapped
  <2>7. LruTouch(o, k) = u
    <3>1. \A j \in 1..Len(o) : o[j] = o[i] => j = i
      BY <1>3
    <3>2. i \in 1..Len(o)
      BY <1>3
    <3>. QED
      BY <1>3, <2>6, <3>1, <3>2, RemoveOnlyOccurrence DEF LruTouch
  <2>. HIDE DEF t, u
  <2>8. \A j \in 1..n : Order'[j] = u[j]
    <3>1. ASSUME NEW j \in 1..n
          PROVE  keyOf'[t[j]] = u[j]
      <4>1. CASE j < i
        <5>1. t[j] = s[j] /\ u[j] = o[j]
          BY <1>3, <2>4, <2>5, <4>1
        <5>. QED
          BY <1>3, <1>5, <2>2, <5>1
      <4>2. CASE j >= i /\ j # n
        <5>1. t[j] = s[j + 1] /\ u[j] = o[j + 1] /\ j + 1 \in 1..n
          BY <1>3, <2>4, <2>5, <4>2
        <5>. QED
          BY <1>3, <1>5, <2>2, <5>1
      <4>3. CASE j = n
        BY <1>3, <1>5, <2>2, <2>4, <2>5, <4>3
      <4>. QED
        BY <1>3, <4>1, <4>2, <4>3
    <3>. QED
      BY <2>3, <2>4, <3>1
  <2>9. Order' = u
    BY <2>3, <2>4, <2>5, <2>8, FunctionIsSequence
  <2>. QED
    BY <1>4, <1>7, <2>7, <2>9, PolicySteps DEF TouchOld
<1>8. CASE Evict
  <2>. DEFINE t == Tail(s)
              n == Len(s)
  <2>1. /\ TypeOK' /\ s # <<>> /\ Standing(t)'
        /\ \A x \in alive \ {root} : keyOf'[x] = keyOf[x]
        /\ answer' = keyOf[s[1]]
    BY <1>1, <1>2, <1>8, EvictStep
  <2>2. Order' = [j \in 1..Len(t) |-> keyOf'[t[j]]]
    BY <2>1 DEF OrderFollows
  <2>3. n \in Nat \ {0} /\ 1 \in 1..n /\ \A j \in 1..n - 1 : j + 1 \in 1..n /\ j + 1 # 1
    BY <1>5, <2>1
  <2>4. Len(t) = n - 1 /\ \A j \in 1..n - 1 : t[j] = s[j + 1]
    BY <1>5, <2>1
  <2>5. o # <<>> /\ Head(o) = o[1]
    BY <1>3, <2>3
  <2>6. /\ Tail(o) \in Seq(Key) /\ Len(Tail(o)) = n - 1
        /\ \A j \in 1..n - 1 : Tail(o)[j] = o[j + 1]
    BY <1>3, <2>3
  <2>. HIDE DEF t
  <2>7. \A j \in 1..n - 1 : Order'[j] = Tail(o)[j]
    <3>1. ASSUME NEW j \in 1..n - 1
          PROVE  keyOf'[t[j]] = Tail(o)[j]
      <4>1. t[j] \in alive \ {root}
        <5>1. j + 1 \in 1..n /\ j + 1 # 1 /\ t[j] = s[j + 1]
          BY <2>3, <2>4
        <5>2. s[j + 1] # root
          BY <1>1, <1>2, <5>1, ListEnds
        <5>. QED
          BY <1>5, <5>1, <5>2
      <4>. QED
        BY <1>3, <2>1, <2>3, <2>4, <2>6, <4>1
    <3>. QED
      BY <2>2, <2>4, <3>1
  <2>8. Order' = Tail(o)
    <3>1. Order' = [j \in 1..n - 1 |-> Order'[j]]
      BY <2>2, <2>4
    <3>2. n - 1 \in Nat
      BY <2>3
    <3>. HIDE DEF n
    <3>. QED
      BY <2>6, <2>7, <3>1, <3>2, FunctionIsSequence
  <2>9. answer' = Victim(o, NoKey) /\ AfterEvict(o) = Tail(o)
    BY <1>3, <2>1, <2>3, <2>5 DEF Victim, AfterEvict
  <2>. QED
    BY <1>4, <2>8, <2>9, PolicySteps
<1>9. ASSUME UNCHANGED <<alive, keyOf, prev, next, root, back, map>>
      PROVE  Order' = o
  <2>1. TypeOK' /\ Standing(s)'
    BY <1>1, <1>2, <1>9, StandingKept
  <2>. QED
    BY <1>9, <2>1 DEF OrderFollows, o
<1>10. CASE EvictEmpty
  <2>1. o = <<>>
    <3>1. s = <<>>
      BY <1>1, <1>2, <1>10, ListEnds DEF EvictEmpty
    <3>. QED
      BY <3>1, <1>3
  <2>2. Order' = o /\ answer' = NoKey
    BY <1>9, <1>10 DEF EvictEmpty
  <2>. QED
    BY <1>4, <2>1, <2>2, PolicySteps DEF Victim, AfterEvict
<1>11. CASE UNCHANGED vars
  BY <1>4, <1>9, <1>11 DEF vars
<1>. QED
  BY <1>6, <1>7, <1>8, <1>10, <1>11 DEF Next, TouchBack, Destroy

LEMMA PolicyInit == Init /\ OrderFollows => Policy!Init
<1>. SUFFICES ASSUME Init, OrderFollows PROVE Policy!Init
  OBVIOUS
<1>1. TypeOK /\ Standing(<<>>)
  <2>1. TypeOK /\ Mapped /\ Chained
    BY DEF Init, TypeOK, Pointer, Mapped, Chained
  <2>2. Listed(<<>>)
    BY DEF Init, Listed
  <2>. QED
    BY <2>1, <2>2 DEF Standing
<1>2. Order = [i \in 1..Len(<<>>) |-> keyOf[<<>>[i]]]
  BY <1>1 DEF OrderFollows
<1>. QED
  BY <1>2 DEF Init, Policy!Init

\* Up to its destruction LRU_Evictor is an LRU policy: evict() answers with
\* the key whose last touch is longest ago, whatever was touched and evicted
\* before.
THEOREM ListIsLruPolicy == Spec => ImplementsPolicy
  BY LInvariant, OrderFollowsAlways, PolicyInit, PolicyStep, PTL
     DEF Spec, ImplementsPolicy
=============================================================================
