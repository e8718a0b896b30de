------------------------------ MODULE CacheLib ------------------------------
(***************************************************************************)
(* Cache::Impl of cache_lib.cc: the store behind the server.               *)
(*                                                                         *)
(* The two hash maps are kept as two tables, because nothing but the code  *)
(* keeps them in step.  A call is one step, except a set that has to make  *)
(* room: its eviction loop takes one step per round, with the locals it    *)
(* carries from round to round in op, because an unlocked reader can see   *)
(* m_current_mem between two rounds.                                       *)
(*                                                                         *)
(* A definition marked "faulty" is a variant of its neighbour with a bug   *)
(* in it.  Nothing uses it: it is there to be swapped in, to see that the  *)
(* properties notice.                                                      *)
(***************************************************************************)
EXTENDS Space, Evictors

CONSTANTS
    Val,       \* payloads, each with the size its caller declares for it
    SizeOf,    \* the declared size of each payload, a size_type
    SizeMod,   \* 2^32 for Cache::size_type (uint32_t)
    MaxMem,    \* m_maxmem
    Policy,    \* m_evictor: "none" (nullptr), "lru" or "fifo"
    NoKey,     \* the empty key: what LRU evict() returns when it is empty
    NoCall     \* op when no set is in its eviction loop

Size == 0..SizeMod - 1

ASSUME CacheAssumption ==
    /\ SizeMod \in Nat \ {0}
    /\ MaxMem \in Size
    /\ SizeOf \in [Val -> Size]
    /\ Policy \in {"none", "lru", "fifo"}
    /\ Absent \notin Val \cup Int

VARIABLES
    vals,      \* m_cache_vals
    sizes,     \* m_cache_sizes
    current,   \* m_current_mem
    evictor,   \* the state of *m_evictor: its keys, next victim first
    getVal,    \* get_val_: the buffer that get() returns a pointer into
    op,        \* the locals of the set in its eviction loop, or NoCall
    status     \* "undefined" once the code has executed undefined behaviour

storeVars == <<vals, sizes, current, evictor, getVal>>
cacheVars == <<vals, sizes, current, evictor, getVal, op, status>>

SetCall == [key : Key, val : Val, need : Size, existed : BOOLEAN]

TypeOK ==
    /\ vals \in [Key -> Val \cup {Absent}]
    /\ sizes \in [Key -> Size \cup {Absent}]
    /\ current \in Size
    /\ evictor \in Seq(Key)
    /\ getVal \in Val \cup {Absent}
    /\ op \in SetCall \cup {NoCall}
    /\ status \in {"running", "undefined"}

Init ==
    /\ vals = [k \in Key |-> Absent]
    /\ sizes = [k \in Key |-> Absent]
    /\ current = 0
    /\ evictor = <<>>
    /\ getVal = Absent
    /\ op = NoCall
    /\ status = "running"
----------------------------------------------------------------------------
(* The arithmetic of size_type: unsigned, so it wraps around.              *)
AddNoWrap(a, b) == a + b   \* faulty: computed in a wider type
Add(a, b) == (a + b) % SizeMod
Sub(a, b) == (a - b) % SizeMod

\* No two sums of what the cache can hold wrap around.
NoOverflow == 2 * MaxMem < SizeMod

\* actual_size: what storing v under k adds to m_current_mem.  For an
\* overwrite with a smaller value it is a negative number, wrapped around.
Need(k, v) == IF vals[k] = Absent THEN SizeOf[v] ELSE Sub(SizeOf[v], sizes[k])

FitsOffByOne(need) == Add(current, need) <= MaxMem + 1   \* faulty: one unit too many
Fits(need) == Add(current, need) <= MaxMem

\* m_evictor->touch_key(key), with the null check of its callers.
Touched(k) ==
    CASE Policy = "none" -> evictor
      [] Policy = "lru"  -> LruTouch(evictor, k)
      [] Policy = "fifo" -> FifoTouch(evictor, k)

\* unordered_map::erase(key), which does nothing for a key without entry.
Erased(table, k) == [j \in Key |-> IF j = k THEN Absent ELSE table[j]]

\* Faulty variants of Store: the counter is not a size_type; no touch.
StoreWide(k, v, need) ==
    /\ vals' = [vals EXCEPT ![k] = v]
    /\ sizes' = [sizes EXCEPT ![k] = SizeOf[v]]
    /\ current' = current + need
    /\ evictor' = Touched(k)
    /\ UNCHANGED getVal

StoreUntouched(k, v, need) ==
    /\ vals' = [vals EXCEPT ![k] = v]
    /\ sizes' = [sizes EXCEPT ![k] = SizeOf[v]]
    /\ current' = Add(current, need)
    /\ UNCHANGED <<evictor, getVal>>

\* emplace or assign value and size, charge the counter, touch the key.
Store(k, v, need) ==
    /\ vals' = [vals EXCEPT ![k] = v]
    /\ sizes' = [sizes EXCEPT ![k] = SizeOf[v]]
    /\ current' = Add(current, need)
    /\ evictor' = Touched(k)
    /\ UNCHANGED getVal

Ready == op = NoCall /\ status = "running"
----------------------------------------------------------------------------
(* set(key, val, size)                                                     *)

SetTooLarge(k, v) ==
    /\ Ready
    /\ SizeOf[v] > MaxMem
    /\ UNCHANGED cacheVars

SetFits(k, v) ==
    /\ Ready
    /\ SizeOf[v] <= MaxMem
    /\ Fits(Need(k, v))
    /\ Store(k, v, Need(k, v))
    /\ UNCHANGED <<op, status>>

\* The value does not fit and there is no eviction policy.
SetRejected(k, v) ==
    /\ Ready
    /\ SizeOf[v] <= MaxMem
    /\ ~Fits(Need(k, v))
    /\ Policy = "none"
    /\ UNCHANGED cacheVars

\* Faulty variants of SetMustEvict: no check against the allowance; the full
\* size taken for the difference.
SetMustEvictUnchecked(k, v) ==
    /\ Ready
    /\ ~Fits(Need(k, v))
    /\ Policy # "none"
    /\ op' = [key |-> k, val |-> v, need |-> Need(k, v),
              existed |-> vals[k] # Absent]
    /\ UNCHANGED <<storeVars, status>>

SetMustEvictFullSize(k, v) ==
    /\ Ready
    /\ SizeOf[v] <= MaxMem
    /\ ~Fits(Need(k, v))
    /\ Policy # "none"
    /\ op' = [key |-> k, val |-> v, need |-> SizeOf[v], existed |-> vals[k] # Absent]
    /\ UNCHANGED <<storeVars, status>>

\* The value does not fit: the call enters its eviction loop, and keeps the
\* iterator and the size difference it computed before.
SetMustEvict(k, v) ==
    /\ Ready
    /\ SizeOf[v] <= MaxMem
    /\ ~Fits(Need(k, v))
    /\ Policy # "none"
    /\ op' = [key |-> k, val |-> v, need |-> Need(k, v),
              existed |-> vals[k] # Absent]
    /\ UNCHANGED <<storeVars, status>>

InLoop == op # NoCall /\ status = "running" /\ ~Fits(op.need)

\* Faulty: the size of the evicted entry stays in its map.
DiscardKeepsSize(victim) ==
    /\ vals' = Erased(vals, victim)
    /\ sizes' = sizes
    /\ current' = IF victim \in Present(sizes)
                    THEN Sub(current, sizes[victim])
                    ELSE current

\* One round of the loop: take the entry of the evicted key out of both maps
\* and its size off the counter, if it has an entry at all (the key of a
\* deleted entry is still with the evictor).
Discard(victim) ==
    /\ vals' = Erased(vals, victim)
    /\ sizes' = Erased(sizes, victim)
    /\ current' = IF victim \in Present(sizes)
                    THEN Sub(current, sizes[victim])
                    ELSE current

EvictOne ==
    /\ InLoop
    /\ Discard(Victim(evictor, NoKey))
    /\ evictor' = AfterEvict(evictor)
    /\ status' = IF Policy = "fifo" /\ evictor = <<>> THEN "undefined" ELSE status
    /\ UNCHANGED <<getVal, op>>

\* Faulty: the loop condition forgets the new value.
LoopDoneEarly == op # NoCall /\ status = "running" /\ current <= MaxMem

LoopDone == op # NoCall /\ status = "running" /\ Fits(op.need)

SetAfterEvictions ==
    /\ LoopDone
    /\ op.existed => vals[op.key] # Absent
    /\ Store(op.key, op.val, op.need)
    /\ op' = NoCall
    /\ UNCHANGED status

\* The loop evicted the very key being overwritten: existing_value dangles,
\* and m_cache_sizes.find(key) is end().  Both are written through.
SetThroughDanglingIterator ==
    /\ LoopDone
    /\ op.existed /\ vals[op.key] = Absent
    /\ status' = "undefined"
    /\ UNCHANGED <<storeVars, op>>

\* The steps of a set call that has entered its loop.
SetStep ==
    \/ EvictOne
    \/ SetAfterEvictions
    \/ SetThroughDanglingIterator
----------------------------------------------------------------------------
(* get(key, val_size), del(key), reset()                                   *)

GetMiss(k) ==
    /\ Ready
    /\ vals[k] = Absent
    /\ UNCHANGED cacheVars

GetHitUntouched(k) ==   \* faulty: the evictor is not told
    /\ Ready
    /\ vals[k] # Absent
    /\ getVal' = vals[k]
    /\ UNCHANGED <<vals, sizes, current, evictor, op, status>>

GetHit(k) ==
    /\ Ready
    /\ vals[k] # Absent
    /\ evictor' = Touched(k)
    /\ getVal' = vals[k]
    /\ UNCHANGED <<vals, sizes, current, op, status>>

DelMiss(k) ==
    /\ Ready
    /\ vals[k] = Absent
    /\ UNCHANGED cacheVars

\* Faulty: the counter keeps the size of the deleted entry.
DelHitForgetsSize(k) ==
    /\ Ready
    /\ vals[k] # Absent
    /\ vals' = Erased(vals, k)
    /\ sizes' = Erased(sizes, k)
    /\ UNCHANGED <<current, evictor, getVal, op, status>>

\* The evictor is not told: the key stays in its list.
DelHit(k) ==
    /\ Ready
    /\ vals[k] # Absent
    /\ current' = Sub(current, IF sizes[k] = Absent THEN 0 ELSE sizes[k])
    /\ vals' = Erased(vals, k)
    /\ sizes' = Erased(sizes, k)
    /\ UNCHANGED <<evictor, getVal, op, status>>

\* Nor is it told here.
ResetForgetsCounter ==   \* faulty: only the maps are cleared
    /\ Ready
    /\ vals' = [k \in Key |-> Absent]
    /\ sizes' = [k \in Key |-> Absent]
    /\ UNCHANGED <<current, evictor, getVal, op, status>>

ResetClearsBuffer ==   \* faulty: frees what get() returned a pointer to
    /\ Ready
    /\ current' = 0
    /\ vals' = [k \in Key |-> Absent]
    /\ sizes' = [k \in Key |-> Absent]
    /\ getVal' = Absent
    /\ UNCHANGED <<evictor, op, status>>

Reset ==
    /\ Ready
    /\ current' = 0
    /\ vals' = [k \in Key |-> Absent]
    /\ sizes' = [k \in Key |-> Absent]
    /\ UNCHANGED <<evictor, getVal, op, status>>
----------------------------------------------------------------------------
Call ==
    \/ \E k \in Key, v \in Val :
          \/ SetTooLarge(k, v)
          \/ SetFits(k, v)
          \/ SetRejected(k, v)
          \/ SetMustEvict(k, v)
    \/ \E k \in Key :
          \/ GetMiss(k)
          \/ GetHit(k)
          \/ DelMiss(k)
          \/ DelHit(k)
    \/ Reset

Next == Call \/ SetStep

\* The thread inside a set keeps running; nobody is obliged to call.
Spec == Init /\ [][Next]_cacheVars /\ WF_cacheVars(SetStep)
----------------------------------------------------------------------------
(* Invariants                                                              *)

\* m_current_mem is the sum of the sizes of the entries that the maps hold,
\* modulo 2^32, at every point a reader without the mutex can see: between
\* any two rounds of the eviction loop, after overwrites, del and reset.
Accounting == current = SpaceOf(sizes) % SizeMod

\* "maxmem: The maximum allowance for storage used by values" (cache.hh):
\* the sizes of what is really held never add up to more, however sets,
\* overwrites, evictions, deletions of unevicted keys and resets mix.
WithinBudget == SpaceOf(sizes) <= MaxMem

\* The two maps stay in step: an entry's size is the size that was declared
\* with the very value it holds, through overwrites and half-done evictions.
MapsInStep ==
    \A k \in Key :
        sizes[k] = IF vals[k] = Absent THEN Absent ELSE SizeOf[vals[k]]

\* Every entry can be evicted: del and reset leave stale keys with the
\* evictor, but the evictor never loses a key that has an entry.
EvictorKnowsEntries == Policy # "none" => Present(sizes) \subseteq Tracked(evictor)

\* The loop never asks an empty evictor: LRU would answer with the empty key
\* for ever, FIFO would pop an empty deque.  Entries always run out last.
NeverEvictsFromEmpty == InLoop => evictor # <<>>

\* What a set computed before its loop is still true after every eviction:
\* its size difference is positive, at most the value's size, and is what
\* storing the value will add - up to the point where the loop evicts the
\* very entry that the difference was taken to.
LoopKnowsItsNeed ==
    op # NoCall =>
        /\ Policy # "none"
        /\ SizeOf[op.val] <= MaxMem
        /\ op.need \in 1..SizeOf[op.val]
        /\ ~op.existed => vals[op.key] = Absent /\ op.need = SizeOf[op.val]
        /\ op.existed /\ vals[op.key] # Absent =>
              op.need + sizes[op.key] = SizeOf[op.val]

\* "Checks that modifying an object does not prompt a rejection/eviction"
\* (test_cache_lib.cc, test_reduction): overwriting an entry with a value
\* that is not larger always fits, although its size difference is computed
\* in unsigned arithmetic and wraps around.
ShrinkAlwaysFits ==
    op = NoCall =>
        \A k \in Present(sizes), v \in Val :
            SizeOf[v] <= sizes[k] => Fits(Need(k, v))

\* "Otherwise, evict stuff until it fits [...] this should still be correct"
\* (cache_lib.cc): a set that evicts stores its value, and never writes
\* through an iterator to an entry that its own loop has evicted.
SetIsDefined == status # "undefined"
----------------------------------------------------------------------------
(* Liveness and refinement                                                 *)

\* "evict stuff until it fits" (cache_lib.cc): the loop ends, so set returns
\* and the server lets go of cache_mutex (unless the program broke first).
SetReturns == op # NoCall ~> op = NoCall \/ status = "undefined"

\* The store that cache.hh promises, under the contents of m_cache_vals.
Promise == INSTANCE BoundedStore WITH store <- vals

\* Counter, wrap-around, eviction order and loop together keep the promise:
\* entries change one at a time, and a value goes in only when it fits.
KeepsPromise == Promise!Spec
============================================================================
