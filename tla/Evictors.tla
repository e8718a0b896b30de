------------------------------ MODULE Evictors ------------------------------
(***************************************************************************)
(* The eviction policies behind the Evictor interface (evictor.hh), as     *)
(* operators on the order in which a policy will give its keys up: a       *)
(* sequence whose head is the next key that evict() returns.               *)
(***************************************************************************)
EXTENDS Integers, SequencesExt

\* LRU_Evictor::touch_key: a key is listed once, and a touch moves it to
\* the back of the list.
LruTouch(order, k) == Append(RemoveFirst(order, k), k)

\* FIFO_Evictor::touch_key: every touch is a new entry.  The deque is pushed
\* at its front and popped at its back; here its back is the head.
FifoTouch(order, k) == Append(order, k)

\* evict(): the key it returns, and what it leaves.  An empty LRU list answers
\* with the empty key; on an empty FIFO deque back() and pop_back() are
\* undefined, which is for the caller to model.
Victim(order, noKey) == IF order = <<>> THEN noKey ELSE Head(order)
AfterEvictNoPop(order) == order   \* faulty: the key is not popped
AfterEvictWrongEnd(order) ==   \* faulty: returns one end, pops the other
    IF order = <<>> THEN order ELSE Front(order)
AfterEvict(order) == IF order = <<>> THEN order ELSE Tail(order)

\* The keys a policy could still return from evict().
Tracked(order) == {order[i] : i \in 1..Len(order)}
============================================================================
