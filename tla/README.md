# TLA+ verification of the networked cache

The program is a key-value cache behind an HTTP server: a bounded store with
pluggable eviction (`cache_lib.cc`), two eviction policies (`lru_evictor.cc`,
`fifo_evictor.cc`), a Boost.Beast server that shares one store between the
threads of a pool (`cache_server.cc`), a client library with the same interface
as the store (`cache_client.cc`), and a workload generator
(`test_generate_workload.cc`).

## 1. Inventory

| Component | State it keeps | Operations | Interacts with |
|---|---|---|---|
| Store, `Cache::Impl` of `cache_lib.cc` | two hash maps (values, sizes), the byte counter `m_current_mem`, the buffer `get_val_` | `set`, `get`, `del`, `space_used`, `reset` | calls the evictor; called by the server's handlers |
| LRU evictor, `lru_evictor.cc`, `LList.hh` | a doubly linked list of `shared_ptr` nodes, a map from keys to nodes | `touch_key`, `evict`, destructor | called by the store |
| FIFO evictor, `fifo_evictor.cc` | a deque of keys | `touch_key`, `evict` | called by the store |
| Server handlers, `handle_request` | `cache_mutex` | GET, PUT, DELETE, POST /reset, HEAD | lock the mutex, call the store |
| Server sessions | socket, request, response | `do_read`, `on_read`, `on_write`, `do_close` | run on the pool's threads, call the handlers |
| Listener, `main` | acceptor, thread pool | `do_accept`, `on_accept` | create sessions |
| Client, `Cache::Impl` of `cache_client.cc` | one connection, the buffer `get_val_` | constructor, the same five calls, blocking, destructor | the server, by one request and one response per call |
| Workload generator | `keys_in_use`, counters, four mutexes | warm-up, request threads | one client per thread |

What is hard about it:

* **The store's arithmetic.** Sizes are `uint32_t`. An overwrite adds the
  *difference* of two sizes, which is a wrapped-around negative number when the
  value shrinks; the fits test adds that number to the counter.
* **The eviction loop.** It runs under an iterator and a size difference taken
  before it, its exit depends on the evictor still knowing every entry, and it
  runs inside the server's only lock.
* **Keys the evictor should have forgotten.** `del` and `reset` do not tell the
  evictor. Its list holds keys without an entry, and keys that have come back.
* **Pointer surgery.** The LRU list's nodes own each other in both directions.
* **What handlers do outside the lock.** GET copies its answer out of the
  store's buffer, POST re-reads the counter for an assertion, HEAD reads it,
  all of them without `cache_mutex`.
* **A connection that fails under a call.** Requests carry no number and
  responses name no request; a call takes the first response it reads. The
  server's timer, an error or a departing client can end a connection at any
  point: before the request is taken, while it is handled, after the response is
  out. The client has no timeout, and goes on with the next call after a throw.
* **Bodies as text.** The server asserts the number of `/`-separated parts, the
  client's `get` cuts a response at `,` and `:`, and `stoi` reads unsigned sizes
  into an `int`.

What makes each component correct: the counter is the size of what is held and
never above the allowance; the maps agree; the loop ends; the evicted entry is
the one the policy names; no pointer is dereferenced that is null or freed and
no node leaks; one handler at a time is in the store; a response carries what
its own call found; the lock is always released and requests are answered; a
call reads the response to itself, has been carried out once if it returns and
at most once if it throws, and it does end.
`PROJECT.json` lists each hazard at its line with the properties aimed at it.

## 2. Modules

| Module | Models |
|---|---|
| `Space` | how much memory a table of sizes stands for, as a cardinality |
| `BoundedStore` | the promise of `cache.hh`: a store that may forget entries but never holds more than its allowance. No counter, no order, no loop |
| `Evictors` | the policies as operators on the order in which keys will leave |
| `CacheLib` | `Cache::Impl` of `cache_lib.cc` |
| `EvictionOrder` | `CacheLib` with a history of its calls, which entry was used and which arrived before which, to judge which entry is evicted |
| `LruPolicy` | an LRU policy as a sequence of keys |
| `LruEvictor` | `LRU_Evictor` at the level of nodes and pointers |
| `CacheServer` | sessions, handlers, pool and mutex around `CacheLib` (it EXTENDS it: the handlers' calls *are* `CacheLib`'s actions) |
| `SerialServer` | what clients of the server may rely on: each request carried out in one step on a store with an allowance, entries dropped only to make room. No threads, mutex, counter or eviction order |
| `CacheSystem` | the client library, the connections and the listener around `CacheServer`, which it EXTENDS: the whole system |
| `RemoteCache` | what callers of the client library may rely on: `SerialServer` with a caller at each connection. No handlers and no messages |
| `EvictorProofs`, `CacheLibProofs`, `OrderProofs`, `LruProofs`, `CacheServerProofs`, `SerialProofs`, `SystemProofs`, `RemoteProofs` | lemmas and theorems |
| `MCCacheLib`, `MCEvictionOrder`, `MCCacheServer`, `MCCacheSystem` | the instances TLC checks |

Operators whose comment says *faulty* are variants of the definition that
follows them with a plausible bug: a dropped guard, an off-by-one, a missing
reset. No module uses them. `PROJECT.json` names, for every property of every
passing run, the variant that makes TLC find the property violated.

### CacheLib

State: `vals`, `sizes`, `current`, `getVal` are the members of `Cache::Impl`;
`evictor` is the state of `*m_evictor` as a sequence, next victim first; `op`
holds the locals of a `set` that is in its eviction loop; `status` becomes
`"undefined"` when the code executes undefined behaviour, and then nothing
happens any more.

A payload of `Val` stands for a string and the size its caller declares for it
(the code never compares the two). `Add` and `Sub` are modulo `SizeMod`, which
is 2^32 in the program. `set` is `SetTooLarge`, `SetFits`, `SetRejected` or
`SetMustEvict`; the last enters the loop, whose rounds are `EvictOne` and whose
end is `SetAfterEvictions` or, when the loop has evicted the key it is
overwriting, `SetThroughDanglingIterator`. The loop has a step per round because
a HEAD reads the counter without the mutex. A call from outside cannot start
while `op` is set: callers of the library are sequential, and the server's are
serialized by its mutex (theorem `CallsAreSerialized`). The FIFO evictor on an
empty deque is undefined behaviour; the LRU one answers with the empty key.

### LruEvictor

`alive`, `keyOf`, `prev`, `next` are the nodes in memory; `root`, `back`, `map`
the evictor's own pointers. Every operation is one step that applies the
code's pointer assignments in their order and then drops the nodes that no
`shared_ptr` owns. Ownership is the largest set of nodes that are each pointed
to from the list, the map or another node of the set, so a cycle of nodes keeps
itself alive, as `shared_ptr` does. `ImplementsPolicy` maps the walk along
`next_` to the sequence of `LruPolicy`, which is what `CacheLib` uses.

### CacheServer

`pc` says where a session is: `closed`, `read` and `write` are waiting for a
completion handler; `handle`, `lock`, `call`, `unlock`, `copy`, `check` are
points inside `handle_request` between which another thread can come in. A
session in `handle_request` occupies a thread, also while it waits for the
mutex; a completion handler runs only when a thread is free (`ThreadFree`).
`found` remembers what the cache held under a GET's key when it called `get`;
`stale` holds the GETs whose pointer into `get_val_` a later `get` has
overwritten. The copy through such a pointer is a data race: it may yield the
new text, the old one, or a mixture (`Torn`). `End` is any end of a connection:
closed by the client, by the 30-second timer, or by an error. An ended session
may be accepted anew.

Requests have the asserted number of parts here; those that do not are in
`CacheSystem`. A failing assertion ends the process (`aborted`).

`ImplementsSerialServer` maps this state to `SerialServer`: the store is `vals`,
the requests are `req`, and the answer of a session (`Answer`) is there from the
step that decides it, which is the last step of its call of the cache, or the
whole handler when it makes none. So the rounds of an eviction loop must be drops
for the sake of a PUT that does not fit, and everything after the call (unlock,
copy, check) must change nothing. `SerialServer` is stricter than `BoundedStore`
in that: it may not forget an entry when there is room.

With two threads the server is not `SerialServer`, because a GET may copy
another GET's value, or a torn one. `SerialButForCopies` says that this is the
whole difference: read each GET's response with the value that its call found in
place of the one it copied (`AsFound`), and the server implements `SerialServer`
again, whatever the other threads do between the mutex and the end of a handler.
`OnlyGetsDisturbGets` adds who can spoil a copy: another GET, and nobody else.

### CacheSystem

A member of `Session` is a connection: the client's end, the bytes on the way,
and the session at the server's end. `client` is what the `Cache` object at
that end is doing: `NoClient`, the call in progress (a request), or what its
last call came to (a response as `get` and the others parsed it, `Threw`,
`Garbled`, `OutOfRange`). `linked` holds the connections that neither side has
seen fail. `toServer` and `toClient` are the request and the response in
transit; one of each is enough because a call blocks until it has its response
(`InLockstep`), and the guards of the model do not enforce that.

| Action | Code |
|---|---|
| `Connect` | the client's constructor (`cache_client.cc:35-44`) |
| `Begin` | a call writes its request (`:82`, `:110`, `:155`, `:189`, `:224`) |
| `BeginFails` | the same on a connection that is gone: the write or the read that follows throws |
| `Return` | the call has read a response, and parses it (`:121-137`, `:166-171`, `:203-207`) |
| `Throw` | the read of a call finds the connection gone |
| `Leave` | the destructor (`:46-58`), or the end of the client's process, also in the middle of a call |
| `Break` | the network |
| `AcceptConnection` | `listener::on_accept` and the new session's `run` |
| `TakeRequest`, `CutRequest` | `session::on_read`; the second is a body that fails the handler's assertion on the number of its parts |
| `Handler` | a step of `handle_request` |
| `Respond` | `async_write` completes: the response is on its way, or lost if the client is gone |
| `EndSession` | `do_close`, the 30-second timer or an error, and the release of the socket |

*Bodies.* The model does not hold strings but what the code makes of them.
`Cut` is any `set`, `get` or `del` whose key or value contains a `/`: it stops
the server (`cut`). `Garbles` is the set of keys and values that contain a `,`
or a `:`: `get` then takes the wrong fields, and returns something else or throws
(`ReadValue`). `stoi` throws for a size of half of `SizeMod` or more
(`ReadSize`). `space_used` makes its string from the header's `data()`, which no
NUL ends (`:203`); what follows the number there are no digits, so that the
number is read as it is.

*Failure.* A connection that breaks may still deliver the request that is in
transit: `TakeRequest` does not ask whether the connection is linked. So a call
may throw and be carried out afterwards. A response that is out may still be
read after the session has ended. A dead server process breaks every connection.

`ImplementsRemoteCache` maps this to `RemoteCache`: the request of a connection
is in transit, or with its session, or has its response in transit; its answer is
the server's (`Answer`, as above) or the one in transit. So the transport must
be invisible except for two things that `RemoteCache` allows at any time: a
request or response may be lost (`Lose`) and a call may throw.

`RemoteCache` has a parameter for what a call may make of its response.
`ImplementsRemoteCache` gives it the code's own (`Parsed`), so it is about which
calls are carried out, how often, in which order, and whose response a call
reads; it says nothing of a text that `get` cuts in the wrong places.
`ReturnsWhatIsHeld` gives it `Literally`, the response as it is: then a call that
returns must return the value and the size that the store held. That is what
`cache.hh` promises of `get`, and it holds only of keys and values without
separators (sections 4 and 5).

## 3. Runs

| Run | Question | Result |
|---|---|---|
| `cachelib_lru` | 3 keys, sizes 0, 2, 3, 5 and 7 in a cache of 5, LRU, with the history of its calls: type, counter, budget, maps, loop, implementation of `BoundedStore`, and is the victim the entry used longest ago? | holds |
| `cachelib_fifo` | the same with the FIFO deque, 2 keys, deque up to 4 | holds |
| `cachelib_reject` | no evictor | holds |
| `cachelib_wrap_budget` | does the allowance survive wrap-around (modulus 8, cache of 6)? | violated |
| `cachelib_dangling` | is `set` always defined? | violated |
| `order_fifo` | 3 keys, FIFO: is the victim the entry that came first? | violated |
| `lru_evictor` | 4 keys, 4 nodes: pointers, leaks, list shape, implementation of `LruPolicy` | holds |
| `server_two_threads` | 2 sessions, 2 threads: types, mutual exclusion, bounds of unlocked reads, who disturbs a GET's pointer, release of the mutex, answers to requests that have it, implementation of `SerialServer` in all but what GETs copy | holds |
| `server_stale_get` | 2 threads: does a GET answer with its own value? | violated |
| `server_reset_check` | 2 threads: does the assertion after a reset hold? | violated |
| `system` | 2 clients and a server with 1 thread (the default): types, one message per call, sizes for `stoi`, own answers, the assertion after a reset, implementation of `SerialServer` and of `RemoteCache`, end of every call | holds |
| `system_separators` | the same: does `get` return what the store held? | violated |

### Bounds, and why they are enough

* *Keys.* Three keys give an overwrite, a victim that is the overwritten key, a
  victim that is not, and a stale key of a deleted entry at the same time, and
  let a key come back between two others. The system run has one: which entry
  goes is settled in the runs of the store.
* *Values.* Sizes 0, 2, 3, 5 in a cache of 5: two that fit together, one that
  needs every other evicted, one of no size, one (7) that is refused. The wrap
  run uses 0, 1, 2, 5, 6 against a modulus of 8.
* *The deque* grows with every touch: `MaxTouches` bounds it, as an action
  constraint (`BoundedTouches`) of `cachelib_fifo`. Under LRU the
  bound is the number of keys, which the list cannot exceed, and changes nothing.
* *Sessions.* Two sessions on two threads make every pair of handlers meet. The
  theorems below cover any number. What a server with one thread does is among
  what one with two threads does, so its evictions are those of
  `server_two_threads`; what holds only of one thread is checked in `system`,
  with one key. Of the refused methods clients send none: `server_two_threads`
  has them.
* *Connections.* In the system run two connections reuse their sessions any
  number of times. Only those in `Flaky` (one) may break by themselves, send a
  `/` and leave in the middle of a call; the other one fails only with the
  server. What a failing connection does to itself, and to a client that has
  done nothing wrong, are both there; two that fail at the same time are covered
  by the theorems. Sizes are 1 and 3 in a cache of 3 with a modulus of 8, so that
  a size of 4 or more, if the server ever sent one, would make `stoi` throw. A
  `maxmem` of 2^31 or more, for which it does throw, is outside the run and
  outside the theorem (`FitsInt(MaxMem)`). The value of size 3 has a separator in
  its text, the other one has none.

`CHECK_DEADLOCK FALSE` stands where the program may stop: after undefined
behaviour, a failed assertion, or the destruction of the evictor.

### Fairness

`CacheLib` assumes weak fairness of the loop's steps only: the thread inside
`set` keeps running. `CacheServer` assumes weak fairness of each handler that
has a thread, because the operating system schedules the pool's threads. Nothing
is assumed of clients, timers, or of who gets the mutex: `std::mutex` promises
no order, and with two threads a handler may wait for ever while others come and
go. That is why `RequestsAreAnswered` is about requests that do not wait for the
mutex, or have got it. With one thread there is nobody to wait for, and `CallsEnd`
says of the whole call what `RequestsAreAnswered` says of its handler.

`CacheSystem` keeps the fairness of handlers, and adds two. Completion handlers
of a connection (`Completion`) are strongly fair: they are ready only while a
thread is free, which ceases each time another handler runs, but the
`io_context` runs them in the order in which they are queued, so one that is
ready again and again gets its turn. A client whose response, or whose
connection's failure, has arrived goes on (`Return`, `Throw`): its blocking read
returns. The network is under no obligation to fail or to last, and no client to
call; what it must do is deliver what it carries as long as it does not break,
as TCP does, and it lets a client notice a connection that has failed (a peer that
vanishes without a trace would leave the client in its read for ever). `CallsEnd`
follows for a server with one thread. It excepts undefined behaviour, after which
the server may do anything.

## 4. What disagrees with the repository's own words

* `SetIsDefined`: an overwrite with a larger value can evict the key it
  overwrites (`get` the others first, so that it is the least recently used).
  `existing_value` then dangles and `m_cache_sizes.find(key)` is `end()`, and
  both are written through (`cache_lib.cc:87-89`), after the comment "we've now
  guaranteed that the data can fit in our cache" (`cache_lib.cc:78`).
* `WithinBudget` with a `maxmem` above half of 2^32: the sum in the fits test
  wraps around (`cache_lib.cc:45`) and more than "the maximum allowance for
  storage used by values" (`cache.hh:35`) is held.
* `EvictsFirstIn`: every touch is a deque entry and `del` leaves its key behind,
  so "first-in-first-out" (`fifo_evictor.hh:7`) is not what comes out.
* `GetAnswersItsOwnKey` and `ResetLeavesNoSpaceUsed` with two threads: "all
  communication with the server-side cache is serialized" (`README.md:68`) is
  not so for GET's copy (`cache_server.cc:108`) and for the assertion after a
  reset (`:208`), which aborts the server when a PUT comes in between. HEAD
  (`:75`) takes no lock either and may read the counter in the middle of another
  handler's `set`; what it may report is bounded by `SpaceReportedIsWithinBudget`,
  and `SerialButForCopies` shows that each report is a state of a serial store.
* `ReturnsWhatIsHeld`: a value or key with a `,` or a `:` in it is stored as it
  is, but `get` splits the response there (`cache_client.cc:124`) and returns
  another text and size, or throws, where `cache.hh:62-65` promises "a pointer to
  the value associated with key" and "the actual size of the returned value".

A `/` in a key or value makes an assertion of the server fail
(`cache_server.cc:92`, `:133`, `:171`) and ends it for every client. The model has
this (`Cut`); no property forbids it, and `RemoteCache` and `CallsEnd` count the
calls that then throw among those that may.

## 5. What is proved

For every value of the constants (any keys, sizes, modulus, allowance, policy;
any finite set of sessions; any number of threads unless stated otherwise).

**The store** (`CacheLibProofs`). `Structure` is the part that holds whatever
the arithmetic does: types, the maps in step, every entry still known to the
evictor, what the loop's locals mean. It gives `TypeCorrect`, `MapsStayInStep`
and `EntriesStayEvictable` without further assumption. `CInv` adds the counter,
still without one: it is the space of the table modulo `SizeMod`, and the size
difference that a `set` carries through its loop is, modulo `SizeMod`, what its
value will add as long as the entry it overwrites is there (`LoopNeedModulo`).
Without the second part the first is not inductive. `CounterIsExact` follows: no
wrap-around ever loses a bit that the counter has. What fails under wrap-around
is the fits test, so the rest needs `NoOverflow` (`2 * MaxMem < SizeMod`): `IInv`
says that the counter is the space itself and within the allowance, and that
inside the loop the difference is positive and not more than the store would
grow by. From `IInv` follow `BudgetKept`, `LoopNeedIsExact`, `EvictorNeverEmpty`
(an entry that remains is in the evictor, and there is one as long as the
difference does not fit), `ShrinkNeverEvicts` and `Refinement`, that every step
is a step of `BoundedStore` or stutters. The space of a table when an entry is
set or erased is a matter of cardinalities (`SpaceOfInsert`, `SpaceOfDrop`).
`EvictorProofs` has what touches and evictions do to sequences and to the set of
tracked keys.

**Which entry goes** (`OrderProofs`). `LeastRecentlyUsedGoesFirst`, for
`Policy = "lru"`: every entry that is evicted was last used before every entry
that stays. The history is kept apart from the evictor's list, and the invariant
`OInv` relates the two: the list repeats no key, and of two entries the one used
earlier is earlier in the list. Keys of deleted and reset entries are in the list
too, so when one comes back its old place must not count: `touch_key` moves it
behind all others (`TouchOrders`). Since every entry is in the list
(`Structure`), the head is used before all others. No overflow assumption is
needed, the loop evicts the right entry even when it evicts too many.

**The LRU list** (`LruProofs`), for any keys and any finite memory. The
invariant `LInv` says that up to the evictor's destruction the map has a node for
each of its keys and no other node lives (`Mapped`), `next_` and `prev_` undo
each other (`Chained`), and some sequence lists the nodes from the first to the
last along `next_` (`Listed`). Without the last part a second, closed ring of
nodes beside the list would be allowed, whose members `touch_key` could move.
`OwnedByTheMap` settles what an operation frees: nothing that the list and the
map do not reach is kept alive by its neighbours. From `LInv` follow
`LruTypeCorrect` and `PointersAreThere`. What walking along `next_` meets
(`Walk`, a recursive function) is proved to be that sequence: were it to leave
it somewhere, there would be a first place where it does (`WalkIs`, with the
least member of a set of numbers in the part of an induction). From this follow
`ListHoldsTogether`, `NothingLeaks` (the destructor's loop reaches and cuts every
node, so none survives it, `DestroyStep`) and `ListIsLruPolicy`: the keys along
the list change as `LruPolicy` says, on a touch of a new key, of the last one
and of any other, and on an eviction. That the memory is finite is needed because
`Walk` takes as many steps as there are places for nodes.

**The server** (`CacheServerProofs`). `ServerStepIsCacheStep` shows that a
server step is a step of `CacheLib` or leaves it alone, so all of the above
holds inside the server. `SInv` ties each handler's position to its request and
to the mutex, and a set in its loop to the holder. From it `ServerTypeCorrect`,
`CallsAreSerialized`, `ServerCounterIsExact`, and, with `NoOverflow`,
`SpaceReports`. `BufferIsLeftAlone` is about the pointers into `get_val_`, for
any number of threads: only a later GET changes what one shows. It needs to know
where in its handler a session can hold one at all (`BufferInv`).
For `NThreads = 1`, `OneThreadInv` says that one session at most is inside a
handler, hence that the buffer and the counter are still what its own call
left; from it `OneThreadAnswers` and `OneThreadResets`, which say that the server
violations above need a second thread.

**The server is serial** (`SerialProofs`). `OneThreadIsSerial`, with
`NThreads = 1` and `NoOverflow`: the server implements `SerialServer`. The
argument takes the handlers one by one (`GetIsGet`, `PutIsPut`, ...) under
`IInv`, `SInv` and `OneThreadInv`. Its core is that the code's fits test, on
wrapped-around differences, refuses or evicts only when the abstract store has
no room (`NeedDoesNotFit`, `LoopDoesNotFit`): in the loop the difference stays
within what the store would grow by, even after the overwritten key is evicted,
which is what `LoopKnowsItsNeed` says. With two threads TLC finds the property
violated, by the copy of a GET. `SerialWhateverTheThreads` says that nothing else
is: with `NoOverflow` and any number of threads, the server implements
`SerialButForCopies`. The steps of the calls are those above, read through
`AsFound` (`SaysAsFound`); the copy of a GET and the check of a reset are shown
to change no answer without `OneThreadInv` (`CopyIsQuietAsFound`,
`CheckIsQuietAsFound`), the first because hit or miss and the size come from
`found`, the second also when it fails and the process stops.

**The system** (`SystemProofs`). `SystemStepIsServerStep` shows that clients
and connections only make the server do what it does anyway, so its invariants
hold inside the system. `NetInv` adds, for each connection, where its one request
or response can be. `InLockstep` alone is not inductive: it speaks of linked
connections, and the request of one that has failed may be taken later; what
keeps the next client's calls clean is that no message outlives its connection
(`Lockstep`), and that a handler prepares the kind of response its request calls
for (`Replies`, `HandleReplies`). From it `SystemTypeCorrect` and
`ConnectionsInLockstep`, for any number of threads. `SizesAlwaysFit` needs
`NoOverflow` and a `maxmem` that fits in an `int`: no entry is larger than the
cache (`EntryFits`), and what a HEAD reads, even in the middle of a call, is
never more than it. `ServerInsideIsSerial` carries `SerialButForCopies` over to
the system: with any number of threads, connections that break, sessions that
are reused and requests taken after their client has gone add nothing to what
GETs may copy.

**Callers see a serial store** (`RemoteProofs`). `SystemIsRemoteCache`, with
`NThreads = 1` and `NoOverflow`, any number of clients, any breaks. Handlers are
taken from `SerialProofs` and seen through the messages in transit
(`HandlerServes`); the steps of clients and network (`ClientServes`) and of
sessions (`SessionServes`) are shown to pass the one request on, return its
answer, or lose it. `PlainTextComesBack` adds what the separators spoil: with
`Garbles = {}` and a `maxmem` that fits in an `int`, the system implements
`ReturnsWhatIsHeld`. The two abstract stores differ only in `Return`
(`SameButForReturn`), and `Parsed` is the response itself because no answer, at
any point between the store and the client, has a size too large for `stoi`
(`AnswersFitInt`).

Only model-checked: what is temporal with fairness (`SetReturns`,
`MutexIsReleased`, `RequestsAreAnswered`, `CallsEnd`), which is out of the
prover's reach; every other property of the passing runs is a theorem, some
under the assumptions named above (those of the server that `system` checks are
theorems of the server by itself). That callers see a serial store
(`SystemIsRemoteCache`) is for a server with one thread.

## 6. Not modelled, and the plan

Not modelled:

* The workload generator (`test_generate_workload.cc`). It is a test program
  that drives the client library; the calls it makes are among those that
  `CacheSystem`'s clients make. Its own hazard, `keys_in_use` read without
  `key_mutex` while another thread appends (`:105`, `:270`), is undefined
  behaviour that needs no model to be seen, and its distributions are
  floating-point arithmetic.
* A listener whose construction failed: no client can connect to it, so the
  system has no behaviour to check. Option parsing in `main`.
* The strings of bodies and headers, beyond what `Cut`, `Garbles` and `Parsed`
  say of them.
* What a caller does with the pointer that `get` returned after its next call.
* Hash functions and load factors (they move entries between buckets), logging,
  the build file, and the tests, which were read for what they claim.

Left to do: `RemoteCache` for a server with several threads, that is, what callers
of the client library may rely on when only the values of GETs are in doubt. It
needs the value that a GET found to be followed, in the mapping, through the
response in transit to what the call returned.
