-------------------------- MODULE MCEvictionOrder --------------------------
(***************************************************************************)
(* CacheLib and EvictionOrder on small instances.  A payload is a pair of  *)
(* a name and the size declared for it: some fit together, one fills the   *)
(* whole cache, so that a set may have to evict several entries, one takes *)
(* no space, one is too large for the cache.                               *)
(***************************************************************************)
EXTENDS EvictionOrder

CONSTANT MaxTouches   \* bound on the evictor's entries (the FIFO deque grows)

MCVal == {<<"zero", 0>>, <<"two", 2>>, <<"three", 3>>, <<"full", 5>>, <<"big", 7>>}

MCSizeOf == [v \in Val |-> v[2]]

BoundedOrderNext == OrderNext /\ Len(evictor') <= MaxTouches

BoundedOrderSpec == OrderInit /\ [][BoundedOrderNext]_orderVars
============================================================================
