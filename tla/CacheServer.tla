----------------------------- MODULE CacheServer -----------------------------
(***************************************************************************)
(* cache_server.cc: sessions that read a request, handle it on a thread of *)
(* the io_context's pool, write the response and read again.  The handlers *)
(* share one Cache.  They lock cache_mutex around its calls, but three of  *)
(* them touch it outside: GET copies out of the buffer that get() points   *)
(* into, POST re-reads space_used() for its assertion, HEAD reads it.      *)
(*                                                                         *)
(* A step is what a handler does between two points where another thread   *)
(* can come in.  Requests are those that cache_client.cc sends: well       *)
(* formed, so the assertions on the number of parts of a body hold.        *)
(* Definitions marked "faulty" are there to be swapped in; nothing uses    *)
(* them.                                                                   *)
(***************************************************************************)
EXTENDS CacheLib

CONSTANTS
    Session,    \* connections; one that has ended may be accepted anew
    NThreads,   \* -t: the threads that run the io_context
    NoSession,  \* nobody holds the mutex
    NoRequest,  \* a session that handles no request
    NoReply,    \* a session that has no response to write
    Torn        \* what a copy reads from a buffer that changes under it

VARIABLES
    pc,        \* where each session is
    req,       \* req_: the request a session is handling
    found,     \* what the cache held under a GET's key, when it called get
    stale,     \* GETs whose pointer a later get() has invalidated
    reply,     \* res_: the response of each session
    mutex,     \* cache_mutex: the session whose handler holds it
    aborted    \* an assertion has failed: the process is gone

serverVars == <<pc, req, found, stale, reply, mutex, aborted>>
vars == <<cacheVars, serverVars>>

Request ==
    [verb : {"PUT"}, key : Key, val : Val]
        \cup [verb : {"GET", "DELETE"}, key : Key, val : {Absent}]
        \cup [verb : {"HEAD", "RESET", "POST", "OTHER"}, key : {NoKey}, val : {Absent}]

Reply ==
    [kind : {"ok", "null", "found", "true", "false", "space", "notFound", "badRequest"},
     val : Val \cup {Absent, Torn}, size : Size]

ASSUME ServerAssumption ==
    /\ IsFiniteSet(Session)
    /\ NThreads \in Nat \ {0}
    /\ NoSession \notin Session
    /\ NoRequest \notin Request
    /\ Torn \notin Val \cup {Absent}

Handling == {"handle", "lock", "call", "unlock", "copy", "check"}

ServerTypeOK ==
    /\ TypeOK
    /\ pc \in [Session -> Handling \cup {"closed", "read", "write"}]
    /\ req \in [Session -> Request \cup {NoRequest}]
    /\ found \in [Session -> Val \cup {Absent}]
    /\ stale \subseteq Session
    /\ reply \in [Session -> Reply \cup {NoReply}]
    /\ mutex \in Session \cup {NoSession}
    /\ aborted \in BOOLEAN

ServerInit ==
    /\ Init
    /\ pc = [s \in Session |-> "closed"]
    /\ req = [s \in Session |-> NoRequest]
    /\ found = [s \in Session |-> Absent]
    /\ stale = {}
    /\ reply = [s \in Session |-> NoReply]
    /\ mutex = NoSession
    /\ aborted = FALSE
----------------------------------------------------------------------------
Alive == status = "running" /\ ~aborted

\* The sessions whose handler occupies a thread.
Busy == {s \in Session : pc[s] \in Handling}

\* Completion handlers run on the threads of the pool, when one is free.
ThreadFreeOffByOne == Alive /\ Cardinality(Busy) <= NThreads   \* faulty
ThreadFree == Alive /\ Cardinality(Busy) < NThreads

At(s, label) == Alive /\ pc[s] = label
Goto(s, label) == pc' = [pc EXCEPT ![s] = label]

Status(kind) == [kind |-> kind, val |-> Absent, size |-> 0]

\* send(res): the handler returns and the session writes.
Send(s, response) ==
    /\ Goto(s, "write")
    /\ reply' = [reply EXCEPT ![s] = response]

\* on_accept: a new session starts to read.
Accept(s) ==
    /\ ThreadFree
    /\ pc[s] = "closed"
    /\ Goto(s, "read")
    /\ UNCHANGED <<cacheVars, req, found, stale, reply, mutex, aborted>>

\* on_read: a request has arrived; its handler takes the thread.
Receive(s, r) ==
    /\ ThreadFree
    /\ pc[s] = "read"
    /\ req' = [req EXCEPT ![s] = r]
    /\ Goto(s, IF r.verb \in {"PUT", "GET", "DELETE", "RESET"} THEN "lock" ELSE "handle")
    /\ UNCHANGED <<cacheVars, found, stale, reply, mutex, aborted>>

\* on_write: the response is out, the session reads its next request.
Written(s) ==
    /\ ThreadFree
    /\ pc[s] = "write"
    /\ Goto(s, "read")
    /\ req' = [req EXCEPT ![s] = NoRequest]
    /\ found' = [found EXCEPT ![s] = Absent]
    /\ reply' = [reply EXCEPT ![s] = NoReply]
    /\ UNCHANGED <<cacheVars, stale, mutex, aborted>>

\* A session ends: the client closed the connection, the 30 s timer expired,
\* or a read or a write failed.
End(s) ==
    /\ ThreadFree
    /\ pc[s] \in {"read", "write"}
    /\ Goto(s, "closed")
    /\ req' = [req EXCEPT ![s] = NoRequest]
    /\ found' = [found EXCEPT ![s] = Absent]
    /\ reply' = [reply EXCEPT ![s] = NoReply]
    /\ UNCHANGED <<cacheVars, stale, mutex, aborted>>
----------------------------------------------------------------------------
(* handle_request, for the requests that take no lock.                     *)

\* HEAD reads m_current_mem, whoever is in a call of the cache.
HeadSpace(s) ==
    /\ At(s, "handle")
    /\ req[s].verb = "HEAD"
    /\ Send(s, [kind |-> "space", val |-> Absent, size |-> current])
    /\ UNCHANGED <<cacheVars, req, found, stale, mutex, aborted>>

\* A POST of anything else than reset, or a method the server does not know.
Refuse(s) ==
    /\ At(s, "handle")
    /\ req[s].verb \in {"POST", "OTHER"}
    /\ Send(s, Status(IF req[s].verb = "POST" THEN "notFound" ELSE "badRequest"))
    /\ UNCHANGED <<cacheVars, req, found, stale, mutex, aborted>>
----------------------------------------------------------------------------
(* handle_request, for the requests that call the cache under the mutex.   *)

LockNoWait(s) ==   \* faulty: does not wait for the holder
    /\ At(s, "lock")
    /\ mutex' = s
    /\ Goto(s, "call")
    /\ UNCHANGED <<cacheVars, req, found, stale, reply, aborted>>

Lock(s) ==
    /\ At(s, "lock")
    /\ mutex = NoSession
    /\ mutex' = s
    /\ Goto(s, "call")
    /\ UNCHANGED <<cacheVars, req, found, stale, reply, aborted>>

InCall(s, verb) == At(s, "call") /\ req[s].verb = verb

\* set(): its first step, and the rounds of its eviction loop if it has one.
Put(s) ==
    LET k == req[s].key
        v == req[s].val
    IN  /\ InCall(s, "PUT")
        /\ \/ SetTooLarge(k, v)
           \/ SetFits(k, v)
           \/ SetRejected(k, v)
           \/ SetMustEvict(k, v)
           \/ SetStep
        /\ Goto(s, IF op' = NoCall THEN "unlock" ELSE "call")
        /\ UNCHANGED <<req, found, stale, reply, mutex, aborted>>

\* GETs that hold a pointer into get_val_ and have not copied from it yet.
Pointing == {t \in Session : pc[t] \in {"unlock", "copy"} /\ found[t] # Absent}

\* get(): the assignment to get_val_ invalidates the pointers of other GETs.
Get(s) ==
    LET k == req[s].key
    IN  /\ InCall(s, "GET")
        /\ GetHit(k) \/ GetMiss(k)
        /\ found' = [found EXCEPT ![s] = vals[k]]
        /\ stale' = IF vals[k] = Absent THEN stale ELSE stale \cup Pointing
        /\ Goto(s, "unlock")
        /\ UNCHANGED <<req, reply, mutex, aborted>>

Delete(s) ==
    LET k == req[s].key
    IN  /\ InCall(s, "DELETE")
        /\ DelHit(k) \/ DelMiss(k)
        /\ reply' = [reply EXCEPT ![s] = Status(IF vals[k] = Absent THEN "false" ELSE "true")]
        /\ Goto(s, "unlock")
        /\ UNCHANGED <<req, found, stale, mutex, aborted>>

ResetCache(s) ==
    /\ InCall(s, "RESET")
    /\ Reset
    /\ Goto(s, "unlock")
    /\ UNCHANGED <<req, found, stale, reply, mutex, aborted>>

\* unlock(); PUT and DELETE then have their response.
UnlockForgotten(s) ==   \* faulty: a path without its unlock()
    /\ At(s, "unlock")
    /\ CASE req[s].verb = "PUT"    -> Send(s, Status("ok"))
         [] req[s].verb = "DELETE" -> Send(s, reply[s])
         [] req[s].verb = "GET"    -> Goto(s, "copy") /\ UNCHANGED reply
         [] req[s].verb = "RESET"  -> Goto(s, "check") /\ UNCHANGED reply
    /\ UNCHANGED <<cacheVars, req, found, stale, mutex, aborted>>

Unlock(s) ==
    /\ At(s, "unlock")
    /\ mutex' = NoSession
    /\ CASE req[s].verb = "PUT"    -> Send(s, Status("ok"))
         [] req[s].verb = "DELETE" -> Send(s, reply[s])
         [] req[s].verb = "GET"    -> Goto(s, "copy") /\ UNCHANGED reply
         [] req[s].verb = "RESET"  -> Goto(s, "check") /\ UNCHANGED reply
    /\ UNCHANGED <<cacheVars, req, found, stale, aborted>>

\* std::string gotValue = result, without the mutex.  Through a stale pointer
\* the copy may see the new contents, the old ones, or neither.
Copy(s) ==
    /\ At(s, "copy")
    /\ IF found[s] = Absent
         THEN Send(s, Status("null"))
         ELSE \E text \in IF s \in stale THEN {found[s], getVal, Torn} ELSE {getVal} :
                Send(s, [kind |-> "found", val |-> text, size |-> SizeOf[found[s]]])
    /\ stale' = stale \ {s}
    /\ UNCHANGED <<cacheVars, req, found, mutex, aborted>>

\* assert(space_used() == 0), without the mutex.
Check(s) ==
    /\ At(s, "check")
    /\ IF current = 0
         THEN Send(s, Status("ok")) /\ UNCHANGED aborted
         ELSE aborted' = TRUE /\ UNCHANGED <<pc, reply>>
    /\ UNCHANGED <<cacheVars, req, found, stale, mutex>>
----------------------------------------------------------------------------
\* The steps of a handler that has a thread.
Handle(s) ==
    \/ HeadSpace(s)
    \/ Refuse(s)
    \/ Lock(s)
    \/ Put(s)
    \/ Get(s)
    \/ Delete(s)
    \/ ResetCache(s)
    \/ Unlock(s)
    \/ Copy(s)
    \/ Check(s)

ServerNext ==
    \E s \in Session :
        \/ Accept(s)
        \/ \E r \in Request : Receive(s, r)
        \/ Written(s)
        \/ End(s)
        \/ Handle(s)

\* A thread that is not blocked keeps running.  Clients and network are under
\* no obligation, and neither is the mutex: who gets it is not fixed.
ServerSpec ==
    /\ ServerInit
    /\ [][ServerNext]_vars
    /\ \A s \in Session : WF_vars(Handle(s))
----------------------------------------------------------------------------
(* Invariants and action properties                                        *)

\* No two handlers are in a call of the cache, and a set that is in its loop
\* is the request of the session that holds the mutex.
OneCallAtATime ==
    /\ \A s \in Session : pc[s] \in {"call", "unlock"} <=> mutex = s
    /\ op # NoCall =>
          \E s \in Session :
             mutex = s /\ req[s] = [verb |-> "PUT", key |-> op.key, val |-> op.val]

\* The response to a GET carries the value that the cache held under its key
\* at the time of its call, not one that another GET has fetched since.
GetAnswersItsOwnKey ==
    \A s \in Session :
        pc[s] = "write" /\ reply[s].kind = "found" => reply[s].val = found[s]

\* assert(serverCache->space_used() == 0 && "Reset failed!\n")
ResetLeavesNoSpaceUsed == ~aborted

\* What HEAD reports never exceeds maxmem, even when it is read without the
\* mutex between two rounds of another handler's eviction loop.
SpaceReportedIsWithinBudget ==
    \A s \in Session :
        pc[s] = "write" /\ reply[s].kind = "space" => reply[s].size <= MaxMem

\* A GET whose pointer no later GET has invalidated still points to what it
\* found: no set, eviction, deletion or reset of another handler gets at it.
OnlyGetsDisturbGets == \A s \in Pointing \ stale : getVal = found[s]
----------------------------------------------------------------------------
(* Refinement                                                              *)

\* The response to a request whose call of the cache is over, if the handler
\* is not disturbed after it.
Decided(s) ==
    CASE req[s].verb \in {"PUT", "RESET"} -> Status("ok")
      [] req[s].verb = "DELETE" -> reply[s]
      [] OTHER ->   \* a GET
            IF found[s] = Absent
              THEN Status("null")
              ELSE [kind |-> "found", val |-> found[s], size |-> SizeOf[found[s]]]

Answer ==
    [s \in Session |->
        IF pc[s] \in {"unlock", "copy", "check"} THEN Decided(s)
        ELSE IF pc[s] = "write" THEN reply[s]
        ELSE NoReply]

Serial == INSTANCE SerialServer WITH store <- vals, asked <- req, answer <- Answer

\* With one thread the server is a serial one: although the evictions of a set
\* are spread over many steps, the copy of a GET and the check of a reset come
\* after the mutex, and HEAD takes none, every response is the result of its
\* request's one moment, and no entry is dropped when there is room.
ImplementsSerialServer == Serial!Spec

\* The responses, each GET's with the value it found in place of the one that
\* it copied after letting go of the mutex.
AsFound ==
    [s \in Session |->
        IF pc[s] = "write" /\ reply[s].kind = "found"
          THEN [reply[s] EXCEPT !.val = found[s]]
          ELSE Answer[s]]

Intended == INSTANCE SerialServer WITH store <- vals, asked <- req, answer <- AsFound

\* With any number of threads that copy is all that keeps the server from
\* being a serial one: which requests hit, what they change, what is evicted,
\* what HEAD reports in the middle of another handler's call, and the sizes
\* in all responses are those of requests carried out one at a time.
SerialButForCopies == Intended!Spec
----------------------------------------------------------------------------
(* Liveness                                                                *)

Broken == ~Alive

\* The mutex is always released: no handler keeps it, and no set loops for
\* ever under it.
MutexIsReleased == mutex # NoSession ~> mutex = NoSession \/ Broken

\* A request that does not have to wait for the mutex, or no longer has to, is
\* answered: its set leaves its loop, and nothing blocks it behind the mutex.
RequestsAreAnswered ==
    \A s \in Session : pc[s] \in Handling \ {"lock"} ~> pc[s] = "write" \/ Broken
============================================================================
