----------------------------- MODULE LruPolicy -----------------------------
(***************************************************************************)
(* What evictor.hh asks of an LRU policy: keys leave in the order of their *)
(* last touch.  This is also what CacheLib takes its LRU evictor to be.    *)
(***************************************************************************)
EXTENDS Evictors

CONSTANTS
    Key,     \* the keys that are touched
    NoKey    \* the empty key, the answer of an evictor that has none

VARIABLES
    order,    \* the keys, least recently touched first
    answer    \* what the last evict() returned

Init == order = <<>> /\ answer = NoKey

Touch(k) == order' = LruTouch(order, k) /\ UNCHANGED answer

Evict ==
    /\ answer' = Victim(order, NoKey)
    /\ order' = AfterEvict(order)

Next == (\E k \in Key : Touch(k)) \/ Evict

Spec == Init /\ [][Next]_<<order, answer>>
============================================================================
