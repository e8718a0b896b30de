----------------------------- MODULE MCCacheLib -----------------------------
(***************************************************************************)
(* CacheLib on small instances.  A payload is a pair of a name and the     *)
(* size declared for it: some fit together, one fills the whole cache, one *)
(* takes no space, one is too large for the cache.                         *)
(***************************************************************************)
EXTENDS CacheLib

CONSTANT MaxTouches   \* how long the FIFO deque may get: it grows with every touch

MCVal == {<<"zero", 0>>, <<"two", 2>>, <<"three", 3>>, <<"full", 5>>, <<"big", 7>>}

\* Sizes close to the modulus, for a cache that may hold more than half of
\* what a size_type can count.
MCValWide == {<<"zero", 0>>, <<"one", 1>>, <<"two", 2>>, <<"five", 5>>, <<"six", 6>>}

MCSizeOf == [v \in Val |-> v[2]]

\* The bound on the evictor's entries, for the FIFO deque.
BoundedTouches == Len(evictor') <= MaxTouches
============================================================================
