--------------------------- MODULE MCCacheServer ---------------------------
(***************************************************************************)
(* CacheServer on small instances: two values that do not fit together.    *)
(***************************************************************************)
EXTENDS CacheServer

MCVal == {<<"one", 1>>, <<"two", 2>>}

MCSizeOf == [v \in Val |-> v[2]]
============================================================================
