----------------------------- MODULE LruEvictor -----------------------------
(***************************************************************************)
(* LRU_Evictor of lru_evictor.cc: a doubly linked list of nodes that own   *)
(* each other through shared_ptr, and a map from a key to its node.        *)
(*                                                                         *)
(* Every operation is one step: the evictor is only called under the mutex *)
(* of the cache.  Its pointer assignments are applied in the order of the  *)
(* code.  A node that no shared_ptr owns any more is destroyed at the end  *)
(* of the operation, when the local pointer that kept it goes out of       *)
(* scope; nodes that own each other in a cycle are never destroyed.        *)
(* Definitions marked "faulty" are there to be swapped in, to see that the *)
(* properties notice; nothing uses them.                                   *)
(***************************************************************************)
EXTENDS Integers, FiniteSets, Sequences

CONSTANTS
    Key,     \* the keys that are touched
    NoKey,   \* the empty key
    Node,    \* the places in memory where a Node can be
    Null     \* nullptr

ASSUME LruEvictorAssumption ==
    /\ Null \notin Node
    /\ NoKey \notin Key
    /\ IsFiniteSet(Node)

VARIABLES
    alive,    \* the nodes that have not been destroyed
    keyOf,    \* Node::key_ of each of them
    prev,     \* Node::prev_
    next,     \* Node::next_
    root,     \* LList::root_
    back,     \* LList::back_
    map,      \* map_: the node of each key, or Null
    answer,   \* what the last evict() returned
    gone      \* the evictor has been destroyed

vars == <<alive, keyOf, prev, next, root, back, map, answer, gone>>

Pointer == Node \cup {Null}

TypeOK ==
    /\ alive \subseteq Node
    /\ keyOf \in [Node -> Key \cup {NoKey}]
    /\ prev \in [Node -> Pointer]
    /\ next \in [Node -> Pointer]
    /\ root \in Pointer
    /\ back \in Pointer
    /\ map \in [Key -> Pointer]
    /\ answer \in Key \cup {NoKey}
    /\ gone \in BOOLEAN

Init ==
    /\ alive = {}
    /\ keyOf = [n \in Node |-> NoKey]
    /\ prev = [n \in Node |-> Null]
    /\ next = [n \in Node |-> Null]
    /\ root = Null
    /\ back = Null
    /\ map = [k \in Key |-> Null]
    /\ answer = NoKey
    /\ gone = FALSE
----------------------------------------------------------------------------
\* The nodes that shared_ptrs keep: the largest set in which every node is
\* owned by the list, by the map, or by a node of the set.
Owned(nodes, p, n, r, b, m) ==
    UNION {keep \in SUBSET nodes :
             \A x \in keep :
                \/ x \in {r, b}
                \/ \E k \in Key : m[k] = x
                \/ \E y \in keep : x \in {p[y], n[y]}}

\* The end of an operation: the new pointers, and the nodes that survive.
\* A destroyed node's own pointers go with it.
Settle(nodes, keys, p, n, r, b, m) ==
    LET keep == Owned(nodes, p, n, r, b, m)
    IN  /\ alive' = keep
        /\ keyOf' = [x \in Node |-> IF x \in keep THEN keys[x] ELSE NoKey]
        /\ prev' = [x \in Node |-> IF x \in keep THEN p[x] ELSE Null]
        /\ next' = [x \in Node |-> IF x \in keep THEN n[x] ELSE Null]
        /\ root' = r
        /\ back' = b
        /\ map' = m

\* touch_key of a key that is not in the map: a new node at the back.
TouchNew(k, new) ==
    /\ ~gone
    /\ map[k] = Null
    /\ new \notin alive
    /\ Settle(alive \cup {new},
              [keyOf EXCEPT ![new] = k],
              [prev EXCEPT ![new] = back],
              IF back = Null THEN next ELSE [next EXCEPT ![back] = new],
              IF root = Null THEN new ELSE root,
              new,
              [map EXCEPT ![k] = new])
    /\ UNCHANGED <<answer, gone>>

\* touch_key of a key whose node is at the back already.
TouchBack(k) ==
    /\ ~gone
    /\ map[k] # Null
    /\ map[k] = back
    /\ UNCHANGED vars

\* touch_key of any other key: its node is unlinked and put at the back.
\* (Faulty variants first: next_ of the moved node is kept; the prev_ of its
\* old successor is kept.)
TouchOldKeepsNext(k) ==
    LET N == map[k]
        next1 == IF root = N THEN next ELSE [next EXCEPT ![prev[N]] = next[N]]
    IN  /\ ~gone
        /\ N # Null
        /\ N # back
        /\ Settle(alive, keyOf,
                  [[prev EXCEPT ![next1[N]] = prev[N]] EXCEPT ![N] = back],
                  [next1 EXCEPT ![back] = N],
                  IF root = N THEN next[N] ELSE root, N, map)
        /\ UNCHANGED <<answer, gone>>

TouchOldKeepsPrev(k) ==
    LET N == map[k]
        next1 == IF root = N THEN next ELSE [next EXCEPT ![prev[N]] = next[N]]
    IN  /\ ~gone
        /\ N # Null
        /\ N # back
        /\ Settle(alive, keyOf, [prev EXCEPT ![N] = back],
                  [[next1 EXCEPT ![back] = N] EXCEPT ![N] = Null],
                  IF root = N THEN next[N] ELSE root, N, map)
        /\ UNCHANGED <<answer, gone>>

TouchOld(k) ==
    LET N == map[k]
        next1 == IF root = N THEN next ELSE [next EXCEPT ![prev[N]] = next[N]]
        prev1 == [prev EXCEPT ![next1[N]] = prev[N]]
        next2 == [next1 EXCEPT ![back] = N]
        prev2 == [prev1 EXCEPT ![N] = back]
        next3 == [next2 EXCEPT ![N] = Null]
    IN  /\ ~gone
        /\ N # Null
        /\ N # back
        /\ Settle(alive, keyOf, prev2, next3,
                  IF root = N THEN next[N] ELSE root, N, map)
        /\ UNCHANGED <<answer, gone>>

EvictAnswersBack ==   \* faulty: takes one end, names the other
    LET N == root
    IN  /\ ~gone
        /\ N # Null
        /\ Settle(alive, keyOf,
                  IF next[N] = Null THEN prev ELSE [prev EXCEPT ![next[N]] = Null],
                  next, next[N], IF back = N THEN Null ELSE back,
                  [map EXCEPT ![keyOf[N]] = Null])
        /\ answer' = keyOf[back]
        /\ UNCHANGED gone

Evict ==
    LET N == root
    IN  /\ ~gone
        /\ N # Null
        /\ Settle(alive, keyOf,
                  IF next[N] = Null THEN prev ELSE [prev EXCEPT ![next[N]] = Null],
                  next,
                  next[N],
                  IF back = N THEN Null ELSE back,
                  [map EXCEPT ![keyOf[N]] = Null])
        /\ answer' = keyOf[N]
        /\ UNCHANGED gone

EvictEmptyNull ==   \* faulty: no key at all
    /\ ~gone
    /\ root = Null
    /\ answer' = Null
    /\ UNCHANGED <<alive, keyOf, prev, next, root, back, map, gone>>

EvictEmpty ==
    /\ ~gone
    /\ root = Null
    /\ answer' = NoKey
    /\ UNCHANGED <<alive, keyOf, prev, next, root, back, map, gone>>

\* The places that following next_ from the root leads to.
Walk[i \in 0..Cardinality(Node)] ==
    IF i = 0 THEN root ELSE IF Walk[i - 1] = Null THEN Null ELSE next[Walk[i - 1]]

InList == {Walk[i] : i \in 0..Cardinality(Node)} \ {Null}

\* ~LRU_Evictor: the loop cuts the prev_ pointers of all but the first node,
\* then list and map are destroyed.
DestroyUncut ==   \* faulty: relies on shared_ptr alone
    /\ ~gone
    /\ Settle(alive, keyOf, prev, next, Null, Null, [k \in Key |-> Null])
    /\ gone' = TRUE
    /\ UNCHANGED answer

Destroy ==
    /\ ~gone
    /\ Settle(alive, keyOf,
              [x \in Node |-> IF x \in InList \ {root} THEN Null ELSE prev[x]],
              next, Null, Null, [k \in Key |-> Null])
    /\ gone' = TRUE
    /\ UNCHANGED answer

Next ==
    \/ \E k \in Key :
          \/ \E new \in Node : TouchNew(k, new)
          \/ TouchBack(k)
          \/ TouchOld(k)
    \/ Evict
    \/ EvictEmpty
    \/ Destroy

Spec == Init /\ [][Next]_vars
----------------------------------------------------------------------------
\* Memory is neither leaked nor freed too early: the nodes that live are the
\* nodes of the map, although nodes own each other in both directions, and
\* none is left after the destructor.
OnlyMappedNodesLive == alive = {map[k] : k \in Key} \ {Null}

\* Every pointer that touch_key and evict dereference is there: a node that
\* is not at the back has a next one, one that is not the root has a previous
\* one, and all of them are alive (their asserts on root_ and back_ included).
DereferencesAreDefined ==
    ~gone =>
        /\ root # Null => root \in alive /\ (next[root] = Null \/ next[root] \in alive)
        /\ back # Null => back \in alive /\ next[back] = Null
        /\ \A k \in Key : map[k] # Null =>
              /\ root # Null /\ back # Null
              /\ map[k] \in alive /\ keyOf[map[k]] = k
              /\ map[k] # back => next[map[k]] \in alive
              /\ map[k] # root => prev[map[k]] \in alive

\* The list read backwards is the list read forwards: prev_ undoes next_, the
\* way from the root ends at the back, and passes every node of the map.
ListIsConsistent ==
    ~gone =>
        /\ InList = alive
        /\ \A n \in alive : next[n] # Null => prev[next[n]] = n
        /\ root # Null => prev[root] = Null
        /\ root = Null <=> back = Null

\* The keys in the order of the list.
Order ==
    LET length == Cardinality({i \in 0..Cardinality(Node) : Walk[i] # Null})
    IN  [i \in 1..length |-> keyOf[Walk[i - 1]]]

Policy == INSTANCE LruPolicy WITH order <- Order

\* Up to its destruction the pointer structure is an LRU policy: touches and
\* evictions do to the list what they should do to a sequence of keys.
ImplementsPolicy ==
    Policy!Init /\ [][gone' \/ Policy!Next]_<<Order, answer>>
============================================================================
