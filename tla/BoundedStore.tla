---------------------------- MODULE BoundedStore ----------------------------
(***************************************************************************)
(* What cache.hh promises of a Cache, whatever its eviction policy:        *)
(* a store that may forget entries but never holds values whose declared   *)
(* sizes add up to more than MaxMem.  The promise is stated on the entries *)
(* themselves: there is no byte counter here and no eviction order.        *)
(***************************************************************************)
EXTENDS Space

CONSTANTS
    Val,      \* payloads, each with the size its caller declares for it
    SizeOf,   \* the declared size of each payload
    MaxMem    \* the allowance for values

VARIABLE store   \* the payload under each key, or Absent

\* The declared sizes of the entries of a store.
SizesIn(st) == [k \in Key |-> IF st[k] = Absent THEN Absent ELSE SizeOf[st[k]]]

Init == store = [k \in Key |-> Absent]

\* set: the new value goes in only if everything then held fits.
Put(k, v) ==
    /\ store' = [store EXCEPT ![k] = v]
    /\ SpaceOf(SizesIn(store')) <= MaxMem

\* del, or an eviction that makes room for another value.
Drop(k) == store' = [store EXCEPT ![k] = Absent]

\* reset
Clear == store' = [k \in Key |-> Absent]

Next ==
    \/ \E k \in Key, v \in Val : Put(k, v)
    \/ \E k \in Key : Drop(k)
    \/ Clear

Spec == Init /\ [][Next]_store
============================================================================
