--------------------------- MODULE EvictionOrder ---------------------------
(***************************************************************************)
(* Which entry an eviction takes.  Two history variables record, from the  *)
(* calls alone, what a caller of the cache could know: in which order the  *)
(* entries were last used, and in which order they arrived.  The evictors  *)
(* are judged against these, not against their own lists, which also hold  *)
(* the keys of deleted entries.                                            *)
(***************************************************************************)
EXTENDS CacheLib

VARIABLES
    usedBefore,     \* <<j, k>>: entry j was last set or got before entry k
    arrivedBefore   \* <<j, k>>: entry j has been in the cache longer than k

orderVars == <<cacheVars, usedBefore, arrivedBefore>>

\* The step is a set that stores or a get that finds.
Uses(k) ==
    \/ \E v \in Val : SetFits(k, v)
    \/ SetAfterEvictions /\ op.key = k
    \/ GetHit(k)

\* Two different entries.
EntryPairs == {p \in Present(vals) \X Present(vals) : p[1] # p[2]}

Recall ==
    LET now == {k \in Key : Uses(k)}
    IN  /\ usedBefore' = {p \in EntryPairs' :
             p[2] \in now \/ (p[1] \notin now /\ p \in usedBefore)}
        /\ arrivedBefore' = {p \in EntryPairs' :
             vals[p[2]] = Absent \/ p \in arrivedBefore}

OrderInit == Init /\ usedBefore = {} /\ arrivedBefore = {}

OrderNext == Next /\ Recall

OrderSpec == OrderInit /\ [][OrderNext]_orderVars /\ WF_cacheVars(SetStep)

\* The step evicts the entry of key k.
Evicts(k) == EvictOne /\ vals[k] # Absent /\ vals'[k] = Absent
----------------------------------------------------------------------------
\* "Implementation of an LRU_Evictor": an eviction takes the entry that was
\* set or got the longest time ago.  Stale keys of deleted and reset entries
\* never push another entry out of turn, nor does a key that comes back.
EvictsLeastRecentlyUsed ==
    [][\A k \in Key : Evicts(k) =>
          \A j \in Present(vals) \ {k} : <<k, j>> \in usedBefore]_orderVars

\* "Basic first-in-first-out (FIFO) eviction policy" (fifo_evictor.hh): an
\* eviction takes the entry that has been in the cache longest.
EvictsFirstIn ==
    [][\A k \in Key : Evicts(k) =>
          \A j \in Present(vals) \ {k} : <<k, j>> \in arrivedBefore]_orderVars
============================================================================
