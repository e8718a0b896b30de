-------------------------- MODULE CacheServerProofs --------------------------
(***************************************************************************)
(* Proofs about the server, for every number of sessions and, unless a     *)
(* theorem says otherwise, of threads.                                     *)
(***************************************************************************)
EXTENDS CacheServer, CacheLibProofs

USE CacheAssumption, ServerAssumption

Locking == {"PUT", "GET", "DELETE", "RESET"}

\* What a session's request is at each point of its handler.
HandlesItsRequest(s) ==
    /\ pc[s] \in Handling => req[s] \in Request
    /\ pc[s] \in {"closed", "read"} => req[s] = NoRequest
    /\ pc[s] \in {"lock", "call", "unlock"} => req[s].verb \in Locking
    /\ pc[s] = "copy" => req[s].verb = "GET"
    /\ pc[s] = "check" => req[s].verb = "RESET"
    /\ pc[s] = "unlock" /\ req[s].verb = "DELETE" =>
          reply[s] \in {Status("true"), Status("false")}

\* A set in its loop is the call of the session that holds the mutex.
LoopIsLocked ==
    op # NoCall =>
        \E s \in Session :
            /\ mutex = s
            /\ pc[s] = "call"
            /\ req[s] = [verb |-> "PUT", key |-> op.key, val |-> op.val]

MutexIsHeld == \A s \in Session : pc[s] \in {"call", "unlock"} <=> mutex = s

ServerTypes ==
    /\ pc \in [Session -> Handling \cup {"closed", "read", "write"}]
    /\ req \in [Session -> Request \cup {NoRequest}]
    /\ found \in [Session -> Val \cup {Absent}]
    /\ stale \subseteq Session
    /\ reply \in [Session -> Reply \cup {NoReply}]
    /\ mutex \in Session \cup {NoSession}
    /\ aborted \in BOOLEAN

SInv ==
    /\ Structure
    /\ ServerTypes
    /\ \A s \in Session : HandlesItsRequest(s)
    /\ MutexIsHeld
    /\ LoopIsLocked

\* The key and the value of a request are what its verb calls for.
LEMMA RequestParts ==
    ASSUME NEW r \in Request
    PROVE  /\ r.verb = "PUT" =>
                 /\ r.key \in Key /\ r.val \in Val
                 /\ r = [verb |-> "PUT", key |-> r.key, val |-> r.val]
           /\ r.verb \in {"GET", "DELETE"} => r.key \in Key
  BY DEF Request
----------------------------------------------------------------------------
(* The server only does to the cache what Cache::Impl does.                *)

LEMMA ServerStepIsCacheStep ==
    ASSUME SInv, [ServerNext]_vars
    PROVE  [Next]_cacheVars
<1>1. CASE UNCHANGED vars
  BY <1>1 DEF vars
<1>2. ASSUME NEW s \in Session,
             \/ Accept(s) \/ (\E r \in Request : Receive(s, r)) \/ Written(s) \/ End(s)
             \/ HeadSpace(s) \/ Refuse(s) \/ Lock(s) \/ Unlock(s) \/ Copy(s) \/ Check(s)
      PROVE  UNCHANGED cacheVars
  BY <1>2 DEF Accept, Receive, Written, End, HeadSpace, Refuse, Lock, Unlock, Copy, Check
<1>3. ASSUME NEW s \in Session, Put(s)
      PROVE  Next
  <2>1. req[s].key \in Key /\ req[s].val \in Val
    BY <1>3, RequestParts DEF Put, InCall, At, SInv, HandlesItsRequest, Handling
  <2>. QED
    BY <1>3, <2>1 DEF Put, Next, Call
<1>4. ASSUME NEW s \in Session, Get(s) \/ Delete(s)
      PROVE  Next
  <2>1. req[s].key \in Key
    BY <1>4, RequestParts DEF Get, Delete, InCall, At, SInv, HandlesItsRequest, Handling
  <2>. QED
    BY <1>4, <2>1 DEF Get, Delete, Next, Call
<1>5. ASSUME NEW s \in Session, ResetCache(s)
      PROVE  Next
  BY <1>5 DEF ResetCache, Next, Call
<1>. QED
  BY <1>1, <1>2, <1>3, <1>4, <1>5 DEF ServerNext, Handle

\* The responses that carry no value.
LEMMA StatusType ==
    ASSUME NEW kind \in {"ok", "null", "true", "false", "notFound", "badRequest"}
    PROVE  Status(kind) \in Reply
  BY DEF Status, Reply, Size

\* Where a handler goes when it releases the mutex.
LEMMA UnlockLeadsTo ==
    ASSUME SInv, NEW s \in Session, Unlock(s)
    PROVE  /\ mutex = s /\ mutex' = NoSession /\ pc[s] = "unlock"
           /\ \E to \in {"write", "copy", "check"}, response \in Reply \cup {NoReply} :
                /\ pc' = [pc EXCEPT ![s] = to]
                /\ reply' = [reply EXCEPT ![s] = response]
                /\ to = "copy" => req[s].verb = "GET"
                /\ to = "check" => req[s].verb = "RESET"
<1>1. /\ pc[s] = "unlock" /\ mutex = s /\ mutex' = NoSession
      /\ req[s].verb \in Locking /\ req[s] \in Request
  BY DEF Unlock, At, SInv, MutexIsHeld, HandlesItsRequest, Handling
<1>2. reply \in [Session -> Reply \cup {NoReply}]
  BY DEF SInv, ServerTypes
<1>3. CASE req[s].verb = "PUT"
  BY <1>1, <1>3, StatusType DEF Unlock, Send, Goto
<1>4. CASE req[s].verb = "DELETE"
  BY <1>1, <1>2, <1>4 DEF Unlock, Send, Goto
<1>5. CASE req[s].verb \in {"GET", "RESET"}
  <2>1. reply' = [reply EXCEPT ![s] = reply[s]] /\ reply[s] \in Reply \cup {NoReply}
    BY <1>1, <1>2, <1>5 DEF Unlock
  <2>. QED
    BY <1>1, <1>5, <2>1 DEF Unlock, Goto
<1>. QED
  BY <1>1, <1>3, <1>4, <1>5 DEF Locking

\* A set leaves the call with its loop done, or stays in it, the loop its own.
LEMMA PutLoop ==
    ASSUME SInv, NEW s \in Session, Put(s)
    PROVE  op' # NoCall =>
              /\ mutex' = s
              /\ pc'[s] = "call"
              /\ req'[s] = [verb |-> "PUT", key |-> op'.key, val |-> op'.val]
<1>. SUFFICES ASSUME op' # NoCall
              PROVE  /\ mutex' = s
                     /\ pc'[s] = "call"
                     /\ req'[s] = [verb |-> "PUT", key |-> op'.key, val |-> op'.val]
  OBVIOUS
<1>1. /\ pc[s] = "call" /\ mutex = s /\ mutex' = s /\ req' = req /\ pc'[s] = "call"
      /\ req[s] = [verb |-> "PUT", key |-> req[s].key, val |-> req[s].val]
  BY RequestParts DEF Put, InCall, At, Goto, SInv, ServerTypes, MutexIsHeld,
                      HandlesItsRequest, Handling
<1>2. CASE op = NoCall
  <2>1. SetMustEvict(req[s].key, req[s].val)
    BY <1>2 DEF Put, SetTooLarge, SetFits, SetRejected, SetStep, EvictOne, InLoop, LoopDone,
                SetAfterEvictions, SetThroughDanglingIterator, cacheVars
  <2>2. op'.key = req[s].key /\ op'.val = req[s].val
    BY <2>1 DEF SetMustEvict
  <2>. QED
    BY <1>1, <2>2
<1>3. CASE op # NoCall
  <2>1. op' = op
    BY <1>3 DEF Put, SetTooLarge, SetFits, SetRejected, SetMustEvict, Ready, SetStep,
                EvictOne, SetAfterEvictions, SetThroughDanglingIterator
  <2>2. PICK t \in Session : /\ mutex = t
                             /\ req[t] = [verb |-> "PUT", key |-> op.key, val |-> op.val]
    BY <1>3 DEF SInv, LoopIsLocked
  <2>. QED
    BY <1>1, <2>1, <2>2
<1>. QED
  BY <1>2, <1>3

LEMMA SInvInit == ServerInit => SInv
  BY StructureInit DEF ServerInit, SInv, Init, ServerTypes, HandlesItsRequest,
     MutexIsHeld, LoopIsLocked, Handling

\* Every step keeps the requests, the mutex and the loop together.
LEMMA SInvStep == SInv /\ [ServerNext]_vars => SInv'
<1>. SUFFICES ASSUME SInv, [ServerNext]_vars
              PROVE  SInv'
  OBVIOUS
<1>1. Structure'
  BY ServerStepIsCacheStep, StructureStep DEF SInv
<1>. DEFINE Rest == /\ ServerTypes
                    /\ \A s \in Session : HandlesItsRequest(s)
                    /\ MutexIsHeld
                    /\ LoopIsLocked
<1>2. CASE UNCHANGED vars
  <2>1. ServerTypes' /\ MutexIsHeld'
    BY <1>2 DEF vars, serverVars, SInv, ServerTypes, MutexIsHeld
  <2>2. \A s \in Session : HandlesItsRequest(s)'
    BY <1>2 DEF vars, serverVars, SInv, HandlesItsRequest
  <2>3. LoopIsLocked'
    BY <1>2 DEF vars, serverVars, cacheVars, SInv, LoopIsLocked
  <2>. QED
    BY <1>1, <2>1, <2>2, <2>3 DEF SInv
<1>3. ASSUME NEW s \in Session, Accept(s)
      PROVE  Rest'
  <2>1. ServerTypes'
    BY <1>3 DEF Accept, Goto, SInv, ServerTypes, Handling
  <2>2. \A t \in Session \ {s} : HandlesItsRequest(t)'
    BY <1>3 DEF Accept, Goto, SInv, ServerTypes, HandlesItsRequest
  <2>3. HandlesItsRequest(s)'
    BY <1>3 DEF Accept, Goto, SInv, ServerTypes, HandlesItsRequest, Handling, Locking
  <2>4. MutexIsHeld'
    BY <1>3 DEF Accept, Goto, SInv, ServerTypes, MutexIsHeld
  <2>5. LoopIsLocked'
    BY <1>3 DEF Accept, Goto, SInv, ServerTypes, LoopIsLocked, cacheVars
  <2>. QED
    BY <2>1, <2>2, <2>3, <2>4, <2>5
<1>4. ASSUME NEW s \in Session, Written(s)
      PROVE  Rest'
  <2>1. ServerTypes'
    BY <1>4 DEF Written, Goto, SInv, ServerTypes, Handling
  <2>2. \A t \in Session \ {s} : HandlesItsRequest(t)'
    BY <1>4 DEF Written, Goto, SInv, ServerTypes, HandlesItsRequest
  <2>3. HandlesItsRequest(s)'
    BY <1>4 DEF Written, Goto, SInv, ServerTypes, HandlesItsRequest, Handling, Locking
  <2>4. MutexIsHeld'
    BY <1>4 DEF Written, Goto, SInv, ServerTypes, MutexIsHeld
  <2>5. LoopIsLocked'
    BY <1>4 DEF Written, Goto, SInv, ServerTypes, LoopIsLocked, cacheVars
  <2>. QED
    BY <2>1, <2>2, <2>3, <2>4, <2>5
<1>5. ASSUME NEW s \in Session, End(s)
      PROVE  Rest'
  <2>1. ServerTypes'
    BY <1>5 DEF End, Goto, SInv, ServerTypes, Handling
  <2>2. \A t \in Session \ {s} : HandlesItsRequest(t)'
    BY <1>5 DEF End, Goto, SInv, ServerTypes, HandlesItsRequest
  <2>3. HandlesItsRequest(s)'
    BY <1>5 DEF End, Goto, SInv, ServerTypes, HandlesItsRequest, Handling, Locking
  <2>4. MutexIsHeld'
    BY <1>5 DEF End, Goto, SInv, ServerTypes, MutexIsHeld
  <2>5. LoopIsLocked'
    BY <1>5 DEF End, Goto, SInv, ServerTypes, LoopIsLocked, cacheVars
  <2>. QED
    BY <2>1, <2>2, <2>3, <2>4, <2>5
<1>6. ASSUME NEW s \in Session, NEW r \in Request, Receive(s, r)
      PROVE  Rest'
  <2>1. ServerTypes'
    BY <1>6 DEF Receive, Goto, SInv, ServerTypes, Handling
  <2>2. \A t \in Session \ {s} : HandlesItsRequest(t)'
    BY <1>6 DEF Receive, Goto, SInv, ServerTypes, HandlesItsRequest
  <2>3. HandlesItsRequest(s)'
    BY <1>6 DEF Receive, Goto, SInv, ServerTypes, HandlesItsRequest, Handling, Locking
  <2>4. MutexIsHeld'
    BY <1>6 DEF Receive, Goto, SInv, ServerTypes, MutexIsHeld
  <2>5. LoopIsLocked'
    BY <1>6 DEF Receive, Goto, SInv, ServerTypes, LoopIsLocked, cacheVars
  <2>. QED
    BY <2>1, <2>2, <2>3, <2>4, <2>5
<1>7. ASSUME NEW s \in Session, HeadSpace(s)
      PROVE  Rest'
  <2>1. ServerTypes'
    <3>1. [kind |-> "space", val |-> Absent, size |-> current] \in Reply
      BY DEF Reply, SInv, Structure, TypeOK
    <3>. QED
      BY <1>7, <3>1 DEF HeadSpace, At, Goto, Send, SInv, ServerTypes, Handling
  <2>2. \A t \in Session \ {s} : HandlesItsRequest(t)'
    BY <1>7 DEF HeadSpace, At, Goto, Send, SInv, ServerTypes, HandlesItsRequest
  <2>3. HandlesItsRequest(s)'
    BY <1>7 DEF HeadSpace, At, Goto, Send, SInv, ServerTypes, HandlesItsRequest, Handling, Locking
  <2>4. MutexIsHeld'
    BY <1>7 DEF HeadSpace, At, Goto, Send, SInv, ServerTypes, MutexIsHeld
  <2>5. LoopIsLocked'
    BY <1>7 DEF HeadSpace, At, Goto, Send, SInv, ServerTypes, LoopIsLocked, cacheVars
  <2>. QED
    BY <2>1, <2>2, <2>3, <2>4, <2>5
<1>8. ASSUME NEW s \in Session, Refuse(s)
      PROVE  Rest'
  <2>1. ServerTypes'
    BY <1>8, StatusType DEF Refuse, At, Goto, Send, SInv, ServerTypes, Handling
  <2>2. \A t \in Session \ {s} : HandlesItsRequest(t)'
    BY <1>8 DEF Refuse, At, Goto, Send, SInv, ServerTypes, HandlesItsRequest
  <2>3. HandlesItsRequest(s)'
    BY <1>8 DEF Refuse, At, Goto, Send, SInv, ServerTypes, HandlesItsRequest, Handling, Locking
  <2>4. MutexIsHeld'
    BY <1>8 DEF Refuse, At, Goto, Send, SInv, ServerTypes, MutexIsHeld
  <2>5. LoopIsLocked'
    BY <1>8 DEF Refuse, At, Goto, Send, SInv, ServerTypes, LoopIsLocked, cacheVars
  <2>. QED
    BY <2>1, <2>2, <2>3, <2>4, <2>5
<1>9. ASSUME NEW s \in Session, Lock(s)
      PROVE  Rest'
  <2>1. ServerTypes'
    BY <1>9 DEF Lock, At, Goto, SInv, ServerTypes, Handling
  <2>2. \A t \in Session \ {s} : HandlesItsRequest(t)'
    BY <1>9 DEF Lock, At, Goto, SInv, ServerTypes, HandlesItsRequest
  <2>3. HandlesItsRequest(s)'
    BY <1>9 DEF Lock, At, Goto, SInv, ServerTypes, HandlesItsRequest, Handling, Locking
  <2>4. MutexIsHeld'
    BY <1>9 DEF Lock, At, Goto, SInv, ServerTypes, MutexIsHeld
  <2>5. LoopIsLocked'
    BY <1>9 DEF Lock, At, Goto, SInv, ServerTypes, LoopIsLocked, cacheVars
  <2>. QED
    BY <2>1, <2>2, <2>3, <2>4, <2>5
<1>10. ASSUME NEW s \in Session, Put(s)
      PROVE  Rest'
  <2>1. ServerTypes'
    BY <1>10 DEF Put, InCall, At, Goto, SInv, ServerTypes, Handling
  <2>2. \A t \in Session \ {s} : HandlesItsRequest(t)'
    BY <1>10 DEF Put, InCall, At, Goto, SInv, ServerTypes, HandlesItsRequest
  <2>3. HandlesItsRequest(s)'
    BY <1>10 DEF Put, InCall, At, Goto, SInv, ServerTypes, HandlesItsRequest, Handling, Locking
  <2>4. MutexIsHeld'
    BY <1>10 DEF Put, InCall, At, Goto, SInv, ServerTypes, MutexIsHeld
  <2>5. LoopIsLocked'
    BY <1>10, PutLoop DEF LoopIsLocked
  <2>. QED
    BY <2>1, <2>2, <2>3, <2>4, <2>5
<1>11. ASSUME NEW s \in Session, Get(s)
      PROVE  Rest'
  <2>1. ServerTypes'
    <3>1. vals[req[s].key] \in Val \cup {Absent}
      BY <1>11, RequestParts DEF Get, InCall, At, SInv, HandlesItsRequest, Handling,
                                 Structure, TypeOK
    <3>. QED
      BY <1>11, <3>1 DEF Get, InCall, At, Goto, Pointing, SInv, ServerTypes, Handling
  <2>2. \A t \in Session \ {s} : HandlesItsRequest(t)'
    BY <1>11 DEF Get, InCall, At, Goto, SInv, ServerTypes, HandlesItsRequest
  <2>3. HandlesItsRequest(s)'
    BY <1>11 DEF Get, InCall, At, Goto, SInv, ServerTypes, HandlesItsRequest, Handling, Locking
  <2>4. MutexIsHeld'
    BY <1>11 DEF Get, InCall, At, Goto, SInv, ServerTypes, MutexIsHeld
  <2>5. LoopIsLocked'
    BY <1>11 DEF Get, GetHit, GetMiss, Ready, cacheVars, LoopIsLocked
  <2>. QED
    BY <2>1, <2>2, <2>3, <2>4, <2>5
<1>12. ASSUME NEW s \in Session, Delete(s)
      PROVE  Rest'
  <2>1. ServerTypes'
    BY <1>12, StatusType DEF Delete, InCall, At, Goto, SInv, ServerTypes, Handling
  <2>2. \A t \in Session \ {s} : HandlesItsRequest(t)'
    BY <1>12 DEF Delete, InCall, At, Goto, SInv, ServerTypes, HandlesItsRequest
  <2>3. HandlesItsRequest(s)'
    BY <1>12 DEF Delete, InCall, At, Goto, SInv, ServerTypes, HandlesItsRequest, Handling, Locking
  <2>4. MutexIsHeld'
    BY <1>12 DEF Delete, InCall, At, Goto, SInv, ServerTypes, MutexIsHeld
  <2>5. LoopIsLocked'
    BY <1>12 DEF Delete, DelHit, DelMiss, Ready, cacheVars, LoopIsLocked
  <2>. QED
    BY <2>1, <2>2, <2>3, <2>4, <2>5
<1>13. ASSUME NEW s \in Session, ResetCache(s)
      PROVE  Rest'
  <2>1. ServerTypes'
    BY <1>13 DEF ResetCache, InCall, At, Goto, SInv, ServerTypes, Handling
  <2>2. \A t \in Session \ {s} : HandlesItsRequest(t)'
    BY <1>13 DEF ResetCache, InCall, At, Goto, SInv, ServerTypes, HandlesItsRequest
  <2>3. HandlesItsRequest(s)'
    BY <1>13 DEF ResetCache, InCall, At, Goto, SInv, ServerTypes, HandlesItsRequest, Handling, Locking
  <2>4. MutexIsHeld'
    BY <1>13 DEF ResetCache, InCall, At, Goto, SInv, ServerTypes, MutexIsHeld
  <2>5. LoopIsLocked'
    BY <1>13 DEF ResetCache, Reset, Ready, LoopIsLocked
  <2>. QED
    BY <2>1, <2>2, <2>3, <2>4, <2>5
<1>14. ASSUME NEW s \in Session, Unlock(s)
      PROVE  Rest'
  <2>0. /\ UNCHANGED <<cacheVars, req, found, stale, aborted>>
        /\ pc \in [Session -> Handling \cup {"closed", "read", "write"}]
        /\ reply \in [Session -> Reply \cup {NoReply}]
    BY <1>14 DEF Unlock, SInv, ServerTypes
  <2>1. ServerTypes'
    BY <1>14, <2>0, UnlockLeadsTo DEF SInv, ServerTypes, Handling
  <2>2. \A t \in Session \ {s} : HandlesItsRequest(t)'
    BY <1>14, <2>0, UnlockLeadsTo DEF SInv, HandlesItsRequest
  <2>3. HandlesItsRequest(s)'
    BY <1>14, <2>0, UnlockLeadsTo DEF SInv, HandlesItsRequest, Handling
  <2>4. MutexIsHeld'
    BY <1>14, <2>0, UnlockLeadsTo DEF SInv, MutexIsHeld
  <2>5. LoopIsLocked'
    BY <1>14, <2>0, UnlockLeadsTo DEF SInv, LoopIsLocked, cacheVars
  <2>. QED
    BY <2>1, <2>2, <2>3, <2>4, <2>5
<1>15. ASSUME NEW s \in Session, Copy(s)
      PROVE  Rest'
  <2>1. ServerTypes'
    <3>1. found[s] \in Val \cup {Absent} /\ getVal \in Val \cup {Absent}
      BY DEF SInv, ServerTypes, Structure, TypeOK
    <3>2. ASSUME found[s] # Absent, NEW text \in {found[s], getVal, Torn}
          PROVE  [kind |-> "found", val |-> text, size |-> SizeOf[found[s]]] \in Reply
      BY <3>1, <3>2 DEF Reply
    <3>. QED
      BY <1>15, <3>2, StatusType DEF Copy, At, Goto, Send, SInv, ServerTypes, Handling
  <2>2. \A t \in Session \ {s} : HandlesItsRequest(t)'
    BY <1>15 DEF Copy, At, Goto, Send, SInv, ServerTypes, HandlesItsRequest
  <2>3. HandlesItsRequest(s)'
    BY <1>15 DEF Copy, At, Goto, Send, SInv, ServerTypes, HandlesItsRequest, Handling, Locking
  <2>4. MutexIsHeld'
    BY <1>15 DEF Copy, At, Goto, Send, SInv, ServerTypes, MutexIsHeld
  <2>5. LoopIsLocked'
    BY <1>15 DEF Copy, At, Goto, Send, SInv, ServerTypes, LoopIsLocked, cacheVars
  <2>. QED
    BY <2>1, <2>2, <2>3, <2>4, <2>5
<1>16. ASSUME NEW s \in Session, Check(s)
      PROVE  Rest'
  <2>1. ServerTypes'
    <3>1. CASE current = 0
      BY <1>16, <3>1, StatusType DEF Check, At, Goto, Send, SInv, ServerTypes, Handling
    <3>2. CASE current # 0
      BY <1>16, <3>2 DEF Check, SInv, ServerTypes
    <3>. QED
      BY <3>1, <3>2
  <2>2. \A t \in Session \ {s} : HandlesItsRequest(t)'
    BY <1>16 DEF Check, At, Goto, Send, SInv, ServerTypes, HandlesItsRequest
  <2>3. HandlesItsRequest(s)'
    BY <1>16 DEF Check, At, Goto, Send, SInv, ServerTypes, HandlesItsRequest, Handling, Locking
  <2>4. MutexIsHeld'
    BY <1>16 DEF Check, At, Goto, Send, SInv, ServerTypes, MutexIsHeld
  <2>5. LoopIsLocked'
    BY <1>16 DEF Check, At, Goto, Send, SInv, ServerTypes, LoopIsLocked, cacheVars
  <2>. QED
    BY <2>1, <2>2, <2>3, <2>4, <2>5
<1>. QED
  BY <1>1, <1>2, <1>3, <1>4, <1>5, <1>6, <1>7, <1>8, <1>9, <1>10, <1>11, <1>12, <1>13, <1>14, <1>15, <1>16 DEF ServerNext, Handle, SInv

LEMMA SInvInvariant == ServerSpec => []SInv
  BY SInvInit, SInvStep, PTL DEF ServerSpec

\* Type correctness.
THEOREM ServerTypeCorrect == ServerSpec => []ServerTypeOK
<1>1. SInv => ServerTypeOK
  BY DEF SInv, Structure, ServerTypes, ServerTypeOK
<1>. QED
  BY <1>1, SInvInvariant, PTL

\* However many threads there are, the mutex admits one call at a time, and a
\* set that stays in its loop keeps everybody else out.
THEOREM CallsAreSerialized == ServerSpec => []OneCallAtATime
<1>1. SInv => OneCallAtATime
  BY DEF SInv, MutexIsHeld, LoopIsLocked, OneCallAtATime
<1>. QED
  BY <1>1, SInvInvariant, PTL

\* The counter of the cache inside the server is exact in all the bits that it
\* has, for any number of threads and whether or not it wraps around.
THEOREM ServerCounterIsExact == ServerSpec => []Accounting
<1>1. ServerInit => CInv
  BY CInvInit DEF ServerInit
<1>2. CInv /\ SInv /\ [ServerNext]_vars => CInv'
  BY ServerStepIsCacheStep, CInvStep
<1>3. CInv => Accounting
  BY DEF CInv
<1>. QED
  BY <1>1, <1>2, <1>3, SInvInvariant, PTL DEF ServerSpec
----------------------------------------------------------------------------
(* What clients are told about the space in use.                           *)

\* The cache inside the server keeps all it keeps on its own.
LEMMA CacheInvariant ==
    ASSUME NoOverflow
    PROVE  ServerSpec => []IInv
<1>1. ServerInit => IInv
  BY IInvInit DEF ServerInit
<1>2. IInv /\ SInv /\ [ServerNext]_vars => IInv'
  BY ServerStepIsCacheStep, IInvStep
<1>. QED
  BY <1>1, <1>2, SInvInvariant, PTL DEF ServerSpec

LEMMA SpaceStep ==
    ASSUME IInv, SInv, SpaceReportedIsWithinBudget, [ServerNext]_vars
    PROVE  SpaceReportedIsWithinBudget'
<1>. DEFINE Good(s) == pc[s] = "write" /\ reply[s].kind = "space" => reply[s].size <= MaxMem
<1>0. \A t \in Session : Good(t)
  BY DEF SpaceReportedIsWithinBudget
<1>1. /\ pc \in [Session -> Handling \cup {"closed", "read", "write"}]
      /\ reply \in [Session -> Reply \cup {NoReply}]
      /\ current <= MaxMem
  BY DEF SInv, ServerTypes, IInv, Counted
<1>2. ASSUME NEW s \in Session,
             \/ Accept(s) \/ (\E r \in Request : Receive(s, r)) \/ Written(s) \/ End(s)
             \/ Lock(s) \/ Put(s) \/ Get(s) \/ Delete(s) \/ ResetCache(s)
      PROVE  \A t \in Session : Good(t)'
  <2>1. /\ \A t \in Session \ {s} : pc'[t] = pc[t] /\ reply'[t] = reply[t]
        /\ pc'[s] # "write"
    BY <1>1, <1>2 DEF Accept, Receive, Written, End, Lock, Put, Get, Delete, ResetCache, Goto
  <2>. QED
    BY <1>0, <2>1
<1>3. ASSUME NEW s \in Session, HeadSpace(s)
      PROVE  \A t \in Session : Good(t)'
  BY <1>0, <1>1, <1>3 DEF HeadSpace, Send, Goto
<1>4. ASSUME NEW s \in Session, Refuse(s) \/ Copy(s) \/ Check(s)
      PROVE  \A t \in Session : Good(t)'
  BY <1>0, <1>1, <1>4 DEF Refuse, Copy, Check, At, Send, Goto, Status
<1>5. ASSUME NEW s \in Session, Unlock(s)
      PROVE  \A t \in Session : Good(t)'
  <2>1. HandlesItsRequest(s) /\ pc[s] = "unlock"
    BY <1>5 DEF Unlock, At, SInv
  <2>2. req[s].verb \in Locking
    BY <2>1 DEF HandlesItsRequest
  <2>3. CASE req[s].verb = "PUT"
    BY <1>0, <1>1, <1>5, <2>3 DEF Unlock, Send, Goto, Status
  <2>4. CASE req[s].verb = "DELETE"
    BY <1>0, <1>1, <1>5, <2>1, <2>4 DEF Unlock, Send, Goto, Status, HandlesItsRequest
  <2>5. CASE req[s].verb \in {"GET", "RESET"}
    BY <1>0, <1>1, <1>5, <2>5 DEF Unlock, Goto
  <2>. QED
    BY <2>2, <2>3, <2>4, <2>5 DEF Locking
<1>6. CASE UNCHANGED vars
  BY <1>6 DEF vars, serverVars, SpaceReportedIsWithinBudget
<1>7. CASE \A t \in Session : Good(t)'
  BY <1>7 DEF SpaceReportedIsWithinBudget
<1>. QED
  BY <1>2, <1>3, <1>4, <1>5, <1>6, <1>7 DEF ServerNext, Handle

\* HEAD never reports more than maxmem, although it reads the counter in the
\* middle of other handlers' eviction loops.
THEOREM SpaceReports ==
    ASSUME NoOverflow
    PROVE  ServerSpec => []SpaceReportedIsWithinBudget
<1>1. ServerInit => SpaceReportedIsWithinBudget
  BY DEF ServerInit, SpaceReportedIsWithinBudget
<1>2. IInv /\ SInv /\ SpaceReportedIsWithinBudget /\ [ServerNext]_vars
        => SpaceReportedIsWithinBudget'
  BY SpaceStep
<1>. QED
  BY <1>1, <1>2, CacheInvariant, SInvInvariant, PTL DEF ServerSpec
----------------------------------------------------------------------------
(* The buffer that all GETs share.                                         *)

\* A session holds a pointer from its GET's call until its response is out.
NothingFound(s) ==
    \/ pc[s] \in {"closed", "read", "handle", "lock", "call", "check"}
    \/ pc[s] = "unlock" /\ req[s].verb # "GET"

BufferInv ==
    /\ \A s \in Session : NothingFound(s) => found[s] = Absent
    /\ OnlyGetsDisturbGets

LEMMA BufferInit == ServerInit => BufferInv
  BY DEF ServerInit, BufferInv, NothingFound, OnlyGetsDisturbGets, Pointing

\* What has to be seen of a step by which a session gets no new pointer.
LEMMA BufferKept ==
    ASSUME BufferInv, NEW s \in Session, getVal' = getVal,
           \A t \in Session \ {s} : /\ pc'[t] = pc[t] /\ req'[t] = req[t]
                                    /\ found'[t] = found[t]
                                    /\ t \in stale => t \in stale',
           NothingFound(s)' => found'[s] = Absent,
           s \in Pointing' \ stale' => s \in Pointing \ stale /\ found'[s] = found[s]
    PROVE  BufferInv'
<1>1. \A t \in Session \ {s} : NothingFound(t)' => found'[t] = Absent
  BY DEF BufferInv, NothingFound
<1>2. \A t \in Session \ {s} : t \in Pointing' \ stale' => t \in Pointing \ stale
  BY DEF Pointing
<1>3. \A t \in Pointing' \ stale' : getVal' = found'[t]
  BY <1>2 DEF BufferInv, OnlyGetsDisturbGets, Pointing
<1>. QED
  BY <1>1, <1>3 DEF BufferInv, OnlyGetsDisturbGets

LEMMA BufferStep ==
    ASSUME SInv, BufferInv, [ServerNext]_vars
    PROVE  BufferInv'
<1>0. /\ pc \in [Session -> Handling \cup {"closed", "read", "write"}]
      /\ req \in [Session -> Request \cup {NoRequest}]
      /\ found \in [Session -> Val \cup {Absent}]
  BY DEF SInv, ServerTypes
<1>1. CASE UNCHANGED vars
  BY <1>1 DEF vars, serverVars, cacheVars, BufferInv, NothingFound, OnlyGetsDisturbGets, Pointing
<1>2. ASSUME NEW s \in Session, Accept(s)
      PROVE  BufferInv'
  <2>1. pc'[s] = "read" /\ found'[s] = Absent
    BY <1>0, <1>2 DEF Accept, Goto, BufferInv, NothingFound
  <2>. QED
    BY <1>0, <1>2, <2>1, BufferKept DEF Accept, Goto, Pointing, cacheVars
<1>3. ASSUME NEW s \in Session, NEW r \in Request, Receive(s, r)
      PROVE  BufferInv'
  <2>1. pc'[s] \in {"lock", "handle"} /\ found'[s] = Absent
    BY <1>0, <1>3 DEF Receive, Goto, BufferInv, NothingFound
  <2>. QED
    BY <1>0, <1>3, <2>1, BufferKept DEF Receive, Goto, Pointing, cacheVars
<1>4. ASSUME NEW s \in Session, Written(s) \/ End(s)
      PROVE  BufferInv'
  <2>1. found'[s] = Absent
    BY <1>0, <1>4 DEF Written, End
  <2>. QED
    BY <1>0, <1>4, <2>1, BufferKept DEF Written, End, Goto, Pointing, cacheVars
<1>5. ASSUME NEW s \in Session, HeadSpace(s) \/ Refuse(s)
      PROVE  BufferInv'
  <2>1. pc'[s] = "write"
    BY <1>0, <1>5 DEF HeadSpace, Refuse, Send, Goto
  <2>. QED
    BY <1>0, <1>5, <2>1, BufferKept
       DEF HeadSpace, Refuse, Send, Goto, NothingFound, Pointing, cacheVars
<1>6. ASSUME NEW s \in Session, Lock(s)
      PROVE  BufferInv'
  <2>1. pc'[s] = "call" /\ found'[s] = Absent
    BY <1>0, <1>6 DEF Lock, At, Goto, BufferInv, NothingFound
  <2>. QED
    BY <1>0, <1>6, <2>1, BufferKept DEF Lock, Goto, Pointing, cacheVars
<1>7. ASSUME NEW s \in Session, Put(s) \/ Delete(s) \/ ResetCache(s)
      PROVE  BufferInv'
  <2>1. getVal' = getVal
    BY <1>7 DEF Put, SetTooLarge, SetFits, SetRejected, SetMustEvict, SetStep, EvictOne,
                SetAfterEvictions, SetThroughDanglingIterator, Store, Discard, Delete, DelHit,
                DelMiss, ResetCache, Reset, storeVars, cacheVars
  <2>2. /\ UNCHANGED <<req, found, stale>> /\ found[s] = Absent
        /\ \A t \in Session \ {s} : pc'[t] = pc[t]
    BY <1>0, <1>7 DEF Put, Delete, ResetCache, InCall, At, Goto, BufferInv, NothingFound
  <2>. QED
    BY <2>1, <2>2, BufferKept DEF Pointing
<1>8. ASSUME NEW s \in Session, Get(s)
      PROVE  BufferInv'
  <2>. DEFINE v == vals[req[s].key]
  <2>1. /\ pc[s] = "call" /\ pc'[s] = "unlock" /\ req'[s].verb = "GET" /\ found'[s] = v
        /\ \A t \in Session \ {s} : pc'[t] = pc[t] /\ req'[t] = req[t] /\ found'[t] = found[t]
        /\ stale' = IF v = Absent THEN stale ELSE stale \cup Pointing
    BY <1>0, <1>8 DEF Get, InCall, At, Goto
  <2>2. \A t \in Session : NothingFound(t)' => found'[t] = Absent
    BY <2>1 DEF BufferInv, NothingFound
  <2>3. \A t \in Session \ {s} : t \in Pointing' <=> t \in Pointing
    BY <2>1 DEF Pointing
  <2>4. CASE v = Absent
    <3>1. getVal' = getVal
      BY <1>8, <2>4 DEF Get, GetHit, GetMiss, cacheVars
    <3>2. s \notin Pointing'
      BY <2>1, <2>4 DEF Pointing
    <3>3. \A t \in Pointing' \ stale' : t # s /\ t \in Pointing \ stale
      BY <2>1, <2>3, <2>4, <3>2 DEF Pointing
    <3>. QED
      BY <2>1, <2>2, <3>1, <3>3 DEF BufferInv, OnlyGetsDisturbGets, Pointing
  <2>5. CASE v # Absent
    <3>1. getVal' = v
      BY <1>8, <2>5 DEF Get, GetHit, GetMiss
    <3>2. \A t \in Pointing' \ stale' : t = s
      BY <2>1, <2>3, <2>5 DEF Pointing
    <3>. QED
      BY <2>1, <2>2, <3>1, <3>2 DEF BufferInv, OnlyGetsDisturbGets
  <2>. QED
    BY <2>4, <2>5
<1>9. ASSUME NEW s \in Session, Unlock(s)
      PROVE  BufferInv'
  <2>1. /\ getVal' = getVal /\ UNCHANGED <<req, found, stale>>
    BY <1>9 DEF Unlock, cacheVars
  <2>2. /\ pc[s] = "unlock" /\ pc'[s] \in {"write", "copy", "check"}
        /\ pc'[s] = "check" => req[s].verb = "RESET"
        /\ \A t \in Session \ {s} : pc'[t] = pc[t]
    BY <1>0, <1>9, UnlockLeadsTo
  <2>3. NothingFound(s)' => found'[s] = Absent
    BY <2>1, <2>2 DEF BufferInv, NothingFound
  <2>. QED
    BY <2>1, <2>2, <2>3, BufferKept DEF Pointing
<1>10. ASSUME NEW s \in Session, Copy(s)
      PROVE  BufferInv'
  <2>1. pc'[s] = "write"
    BY <1>0, <1>10 DEF Copy, Send, Goto
  <2>. QED
    BY <1>0, <1>10, <2>1, BufferKept DEF Copy, Send, Goto, NothingFound, Pointing, cacheVars
<1>11. ASSUME NEW s \in Session, Check(s)
      PROVE  BufferInv'
  <2>1. pc'[s] \in {"write", "check"} /\ pc[s] = "check" /\ found[s] = Absent
    BY <1>0, <1>11 DEF Check, At, Send, Goto, BufferInv, NothingFound
  <2>. QED
    BY <1>0, <1>11, <2>1, BufferKept DEF Check, Send, Goto, Pointing, cacheVars
<1>. QED
  BY <1>1, <1>2, <1>3, <1>4, <1>5, <1>6, <1>7, <1>8, <1>9, <1>10, <1>11 DEF ServerNext, Handle

\* However many threads there are, only a later GET can change what a GET's
\* pointer shows: no set, eviction, deletion or reset that runs between the
\* unlock and the copy does.
THEOREM BufferIsLeftAlone == ServerSpec => []OnlyGetsDisturbGets
<1>1. SInv /\ BufferInv /\ [ServerNext]_vars => BufferInv'
  BY BufferStep
<1>2. BufferInv => OnlyGetsDisturbGets
  BY DEF BufferInv
<1>. QED
  BY <1>1, <1>2, BufferInit, SInvInvariant, PTL DEF ServerSpec
----------------------------------------------------------------------------
(* A server with one thread, which is the default.                         *)

\* One handler at a time, from its request to its response; so nothing comes
\* between its call and what it does after the mutex is released.
OneHandler == \A s, t \in Session : pc[s] \in Handling /\ pc[t] \in Handling => s = t

Undisturbed(s) ==
    /\ pc[s] \in {"unlock", "copy"} /\ found[s] # Absent => getVal = found[s]
    /\ pc[s] \in {"unlock", "check"} /\ req[s].verb = "RESET" => current = 0
    /\ pc[s] = "write" /\ reply[s].kind = "found" => reply[s].val = found[s]
    /\ pc[s] \in {"lock", "call"} => found[s] = Absent
    /\ pc[s] = "unlock" /\ req[s].verb # "GET" => found[s] = Absent
    /\ pc[s] = "read" => found[s] = Absent
    /\ pc[s] = "closed" => found[s] = Absent

OneThreadInv ==
    /\ OneHandler
    /\ stale = {}
    /\ ~aborted
    /\ \A s \in Session : Undisturbed(s)

\* A thread is free only when no session is in a handler.
LEMMA FreeMeansIdle ==
    ASSUME NThreads = 1, ThreadFree
    PROVE  \A s \in Session : pc[s] \notin Handling
<1>1. IsFiniteSet(Busy)
  <2>1. Busy \subseteq Session
    BY DEF Busy
  <2>. QED
    BY <2>1, FS_Subset
<1>2. Cardinality(Busy) \in Nat /\ Cardinality(Busy) < 1
  BY <1>1, FS_CardinalityType DEF ThreadFree
<1>3. Busy = {}
  BY <1>1, <1>2, FS_EmptySet
<1>. QED
  BY <1>3 DEF Busy

LEMMA OneThreadInit == ServerInit => OneThreadInv
  BY DEF ServerInit, OneThreadInv, OneHandler, Undisturbed, Handling

LEMMA OneThreadStep ==
    ASSUME NThreads = 1, SInv, OneThreadInv, [ServerNext]_vars
    PROVE  OneThreadInv'
<1>1. CASE UNCHANGED vars
  <2>1. OneHandler' /\ stale' = {} /\ ~aborted'
    BY <1>1 DEF vars, serverVars, OneThreadInv, OneHandler
  <2>2. \A s \in Session : Undisturbed(s)'
    BY <1>1 DEF vars, serverVars, cacheVars, OneThreadInv, Undisturbed
  <2>. QED
    BY <2>1, <2>2 DEF OneThreadInv
<1>2. ASSUME NEW s \in Session, Accept(s)
      PROVE  OneThreadInv'
  <2>1. OneHandler'
    BY <1>2, FreeMeansIdle DEF Accept, Goto, SInv, ServerTypes, OneThreadInv, OneHandler, Handling
  <2>2. \A t \in Session \ {s} : Undisturbed(t)'
    BY <1>2, FreeMeansIdle DEF Accept, Goto, SInv, ServerTypes, OneThreadInv, OneHandler, Undisturbed, Handling, cacheVars
  <2>3. Undisturbed(s)'
    BY <1>2 DEF Accept, Goto, SInv, ServerTypes, OneThreadInv, Undisturbed, cacheVars
  <2>4. stale' = {} /\ ~aborted'
    BY <1>2 DEF Accept, OneThreadInv
  <2>. QED
    BY <2>1, <2>2, <2>3, <2>4 DEF OneThreadInv
<1>3. ASSUME NEW s \in Session, Written(s)
      PROVE  OneThreadInv'
  <2>1. OneHandler'
    BY <1>3, FreeMeansIdle DEF Written, Goto, SInv, ServerTypes, OneThreadInv, OneHandler, Handling
  <2>2. \A t \in Session \ {s} : Undisturbed(t)'
    BY <1>3, FreeMeansIdle DEF Written, Goto, SInv, ServerTypes, OneThreadInv, OneHandler, Undisturbed, Handling, cacheVars
  <2>3. Undisturbed(s)'
    BY <1>3 DEF Written, Goto, SInv, ServerTypes, OneThreadInv, Undisturbed, cacheVars
  <2>4. stale' = {} /\ ~aborted'
    BY <1>3 DEF Written, OneThreadInv
  <2>. QED
    BY <2>1, <2>2, <2>3, <2>4 DEF OneThreadInv
<1>4. ASSUME NEW s \in Session, End(s)
      PROVE  OneThreadInv'
  <2>1. OneHandler'
    BY <1>4, FreeMeansIdle DEF End, Goto, SInv, ServerTypes, OneThreadInv, OneHandler, Handling
  <2>2. \A t \in Session \ {s} : Undisturbed(t)'
    BY <1>4, FreeMeansIdle DEF End, Goto, SInv, ServerTypes, OneThreadInv, OneHandler, Undisturbed, Handling, cacheVars
  <2>3. Undisturbed(s)'
    BY <1>4 DEF End, Goto, SInv, ServerTypes, OneThreadInv, Undisturbed, cacheVars
  <2>4. stale' = {} /\ ~aborted'
    BY <1>4 DEF End, OneThreadInv
  <2>. QED
    BY <2>1, <2>2, <2>3, <2>4 DEF OneThreadInv
<1>5. ASSUME NEW s \in Session, NEW r \in Request, Receive(s, r)
      PROVE  OneThreadInv'
  <2>1. OneHandler'
    BY <1>5, FreeMeansIdle DEF Receive, Goto, SInv, ServerTypes, OneThreadInv, OneHandler, Handling
  <2>2. \A t \in Session \ {s} : Undisturbed(t)'
    BY <1>5, FreeMeansIdle DEF Receive, Goto, SInv, ServerTypes, OneThreadInv, OneHandler, Undisturbed, Handling, cacheVars
  <2>3. Undisturbed(s)'
    BY <1>5 DEF Receive, Goto, SInv, ServerTypes, OneThreadInv, Undisturbed, cacheVars
  <2>4. stale' = {} /\ ~aborted'
    BY <1>5 DEF Receive, OneThreadInv
  <2>. QED
    BY <2>1, <2>2, <2>3, <2>4 DEF OneThreadInv
<1>6. ASSUME NEW s \in Session, HeadSpace(s)
      PROVE  OneThreadInv'
  <2>1. OneHandler'
    BY <1>6 DEF HeadSpace, At, Send, Goto, SInv, ServerTypes, OneThreadInv, OneHandler, Handling
  <2>2. \A t \in Session \ {s} : Undisturbed(t)'
    BY <1>6 DEF HeadSpace, At, Send, Goto, SInv, ServerTypes, OneThreadInv, OneHandler, Undisturbed, Handling, cacheVars
  <2>3. Undisturbed(s)'
    BY <1>6 DEF HeadSpace, At, Send, Goto, SInv, ServerTypes, OneThreadInv, Undisturbed, cacheVars
  <2>4. stale' = {} /\ ~aborted'
    BY <1>6 DEF HeadSpace, At, Send, OneThreadInv
  <2>. QED
    BY <2>1, <2>2, <2>3, <2>4 DEF OneThreadInv
<1>7. ASSUME NEW s \in Session, Refuse(s)
      PROVE  OneThreadInv'
  <2>1. OneHandler'
    BY <1>7 DEF Refuse, At, Send, Goto, SInv, ServerTypes, OneThreadInv, OneHandler, Handling
  <2>2. \A t \in Session \ {s} : Undisturbed(t)'
    BY <1>7 DEF Refuse, At, Send, Goto, SInv, ServerTypes, OneThreadInv, OneHandler, Undisturbed, Handling, cacheVars
  <2>3. Undisturbed(s)'
    <3>1. reply'[s].kind # "found"
      BY <1>7 DEF Refuse, At, Send, Goto, Status, SInv, ServerTypes
    <3>. QED
      BY <1>7, <3>1 DEF Refuse, At, Send, Goto, SInv, ServerTypes, OneThreadInv, Undisturbed, cacheVars
  <2>4. stale' = {} /\ ~aborted'
    BY <1>7 DEF Refuse, At, Send, OneThreadInv
  <2>. QED
    BY <2>1, <2>2, <2>3, <2>4 DEF OneThreadInv
<1>8. ASSUME NEW s \in Session, Lock(s)
      PROVE  OneThreadInv'
  <2>1. OneHandler'
    BY <1>8 DEF Lock, At, Goto, SInv, ServerTypes, OneThreadInv, OneHandler, Handling
  <2>2. \A t \in Session \ {s} : Undisturbed(t)'
    BY <1>8 DEF Lock, At, Goto, SInv, ServerTypes, OneThreadInv, OneHandler, Undisturbed, Handling, cacheVars
  <2>3. Undisturbed(s)'
    BY <1>8 DEF Lock, At, Goto, SInv, ServerTypes, OneThreadInv, Undisturbed, cacheVars
  <2>4. stale' = {} /\ ~aborted'
    BY <1>8 DEF Lock, At, OneThreadInv
  <2>. QED
    BY <2>1, <2>2, <2>3, <2>4 DEF OneThreadInv
<1>9. ASSUME NEW s \in Session, Put(s)
      PROVE  OneThreadInv'
  <2>1. OneHandler'
    BY <1>9 DEF Put, InCall, At, Goto, SInv, ServerTypes, OneThreadInv, OneHandler, Handling
  <2>2. \A t \in Session \ {s} : Undisturbed(t)'
    BY <1>9 DEF Put, InCall, At, Goto, SInv, ServerTypes, OneThreadInv, OneHandler, Undisturbed, Handling, cacheVars
  <2>3. Undisturbed(s)'
    BY <1>9 DEF Put, InCall, At, Goto, SInv, ServerTypes, OneThreadInv, Undisturbed, cacheVars
  <2>4. stale' = {} /\ ~aborted'
    BY <1>9 DEF Put, InCall, At, OneThreadInv
  <2>. QED
    BY <2>1, <2>2, <2>3, <2>4 DEF OneThreadInv
<1>10. ASSUME NEW s \in Session, Get(s)
      PROVE  OneThreadInv'
  <2>1. OneHandler'
    BY <1>10 DEF Get, InCall, At, Goto, SInv, ServerTypes, OneThreadInv, OneHandler, Handling
  <2>2. \A t \in Session \ {s} : Undisturbed(t)'
    BY <1>10 DEF Get, InCall, At, Goto, SInv, ServerTypes, OneThreadInv, OneHandler, Undisturbed, Handling, cacheVars
  <2>3. Undisturbed(s)'
    <3>1. /\ pc'[s] = "unlock" /\ req' = req /\ req[s].verb = "GET"
          /\ found'[s] = vals[req[s].key]
      BY <1>10 DEF Get, InCall, At, Goto, SInv, ServerTypes
    <3>2. vals[req[s].key] # Absent => getVal' = vals[req[s].key]
      BY <1>10 DEF Get, GetHit, GetMiss
    <3>. QED
      BY <3>1, <3>2 DEF Undisturbed
  <2>4. stale' = {} /\ ~aborted'
    <3>1. \A t \in Session : pc[t] \notin {"unlock", "copy"}
      BY <1>10 DEF Get, InCall, At, OneThreadInv, OneHandler, Handling
    <3>2. Pointing = {}
      BY <3>1 DEF Pointing
    <3>. QED
      BY <1>10, <3>2 DEF Get, OneThreadInv
  <2>. QED
    BY <2>1, <2>2, <2>3, <2>4 DEF OneThreadInv
<1>11. ASSUME NEW s \in Session, Delete(s)
      PROVE  OneThreadInv'
  <2>1. OneHandler'
    BY <1>11 DEF Delete, InCall, At, Goto, SInv, ServerTypes, OneThreadInv, OneHandler, Handling
  <2>2. \A t \in Session \ {s} : Undisturbed(t)'
    BY <1>11 DEF Delete, InCall, At, Goto, SInv, ServerTypes, OneThreadInv, OneHandler, Undisturbed, Handling, cacheVars
  <2>3. Undisturbed(s)'
    BY <1>11 DEF Delete, InCall, At, Goto, SInv, ServerTypes, OneThreadInv, Undisturbed, cacheVars
  <2>4. stale' = {} /\ ~aborted'
    BY <1>11 DEF Delete, InCall, At, OneThreadInv
  <2>. QED
    BY <2>1, <2>2, <2>3, <2>4 DEF OneThreadInv
<1>12. ASSUME NEW s \in Session, ResetCache(s)
      PROVE  OneThreadInv'
  <2>1. OneHandler'
    BY <1>12 DEF ResetCache, InCall, At, Goto, SInv, ServerTypes, OneThreadInv, OneHandler, Handling
  <2>2. \A t \in Session \ {s} : Undisturbed(t)'
    BY <1>12 DEF ResetCache, InCall, At, Goto, SInv, ServerTypes, OneThreadInv, OneHandler, Undisturbed, Handling, cacheVars
  <2>3. Undisturbed(s)'
    <3>1. current' = 0 /\ found[s] = Absent
      BY <1>12 DEF ResetCache, InCall, At, Reset, OneThreadInv, Undisturbed
    <3>. QED
      BY <1>12, <3>1 DEF ResetCache, InCall, At, Goto, SInv, ServerTypes, Undisturbed
  <2>4. stale' = {} /\ ~aborted'
    BY <1>12 DEF ResetCache, InCall, At, OneThreadInv
  <2>. QED
    BY <2>1, <2>2, <2>3, <2>4 DEF OneThreadInv
<1>13. ASSUME NEW s \in Session, Unlock(s)
      PROVE  OneThreadInv'
  <2>0. /\ mutex = s /\ pc[s] = "unlock"
        /\ UNCHANGED <<cacheVars, req, found, stale, aborted>>
        /\ pc \in [Session -> Handling \cup {"closed", "read", "write"}]
        /\ reply \in [Session -> Reply \cup {NoReply}]
    BY <1>13 DEF Unlock, At, SInv, ServerTypes, MutexIsHeld
  <2>1. OneHandler'
    BY <1>13, <2>0, UnlockLeadsTo DEF OneThreadInv, OneHandler, Handling
  <2>2. \A t \in Session \ {s} : Undisturbed(t)'
    BY <1>13, <2>0, UnlockLeadsTo DEF OneThreadInv, Undisturbed, cacheVars
  <2>3. Undisturbed(s)'
    <3>1. req[s].verb \in Locking /\ HandlesItsRequest(s)
      BY <2>0 DEF SInv, HandlesItsRequest
    <3>2. CASE req[s].verb \in {"PUT", "DELETE"}
      <4>1. pc'[s] = "write"
        BY <1>13, <2>0, <3>2 DEF Unlock, Send, Goto
      <4>2. reply'[s] \in {Status("ok"), Status("true"), Status("false")}
        <5>1. CASE req[s].verb = "PUT"
          BY <1>13, <2>0, <5>1 DEF Unlock, Send
        <5>2. CASE req[s].verb = "DELETE"
          BY <1>13, <2>0, <3>1, <5>2 DEF Unlock, Send, HandlesItsRequest
        <5>. QED
          BY <3>2, <5>1, <5>2
      <4>. QED
        BY <4>1, <4>2 DEF Undisturbed, Status
    <3>3. CASE req[s].verb = "GET"
      <4>1. pc'[s] = "copy"
        BY <1>13, <2>0, <3>3 DEF Unlock, Goto
      <4>. QED
        BY <2>0, <3>3, <4>1 DEF OneThreadInv, Undisturbed, cacheVars
    <3>4. CASE req[s].verb = "RESET"
      <4>1. pc'[s] = "check"
        BY <1>13, <2>0, <3>4 DEF Unlock, Goto
      <4>. QED
        BY <2>0, <3>4, <4>1 DEF OneThreadInv, Undisturbed, cacheVars
    <3>. QED
      BY <3>1, <3>2, <3>3, <3>4 DEF Locking
  <2>4. stale' = {} /\ ~aborted'
    BY <1>13 DEF Unlock, At, Send, OneThreadInv
  <2>. QED
    BY <2>1, <2>2, <2>3, <2>4 DEF OneThreadInv
<1>14. ASSUME NEW s \in Session, Copy(s)
      PROVE  OneThreadInv'
  <2>1. OneHandler'
    BY <1>14 DEF Copy, At, Send, Goto, SInv, ServerTypes, OneThreadInv, OneHandler, Handling
  <2>2. \A t \in Session \ {s} : Undisturbed(t)'
    BY <1>14 DEF Copy, At, Send, Goto, SInv, ServerTypes, OneThreadInv, OneHandler, Undisturbed, Handling, cacheVars
  <2>3. Undisturbed(s)'
    <3>1. pc'[s] = "write" /\ found' = found
      BY <1>14 DEF Copy, At, Send, Goto, SInv, ServerTypes
    <3>2. CASE found[s] = Absent
      <4>1. reply'[s] = Status("null")
        BY <1>14, <3>2 DEF Copy, At, Send, SInv, ServerTypes
      <4>. QED
        BY <3>1, <4>1 DEF Undisturbed, Status
    <3>3. CASE found[s] # Absent
      <4>1. getVal = found[s] /\ s \notin stale
        BY <1>14, <3>3 DEF Copy, At, OneThreadInv, Undisturbed
      <4>2. reply'[s] = [kind |-> "found", val |-> getVal, size |-> SizeOf[found[s]]]
        BY <1>14, <3>3, <4>1 DEF Copy, At, Send, SInv, ServerTypes
      <4>. QED
        BY <3>1, <4>1, <4>2 DEF Undisturbed
    <3>. QED
      BY <3>2, <3>3
  <2>4. stale' = {} /\ ~aborted'
    BY <1>14 DEF Copy, At, Send, OneThreadInv
  <2>. QED
    BY <2>1, <2>2, <2>3, <2>4 DEF OneThreadInv
<1>15. ASSUME NEW s \in Session, Check(s)
      PROVE  OneThreadInv'
  <2>0. /\ current = 0 /\ UNCHANGED <<cacheVars, req, found, stale, aborted>>
        /\ pc' = [pc EXCEPT ![s] = "write"]
        /\ reply' = [reply EXCEPT ![s] = Status("ok")]
    <3>1. pc[s] = "check" /\ req[s].verb = "RESET"
      BY <1>15 DEF Check, At, SInv, HandlesItsRequest
    <3>2. current = 0
      BY <3>1 DEF OneThreadInv, Undisturbed
    <3>. QED
      BY <1>15, <3>2 DEF Check, Send, Goto
  <2>1. OneHandler'
    BY <2>0 DEF SInv, ServerTypes, OneThreadInv, OneHandler, Handling
  <2>2. \A t \in Session \ {s} : Undisturbed(t)'
    BY <2>0 DEF SInv, ServerTypes, OneThreadInv, Undisturbed, cacheVars
  <2>3. Undisturbed(s)'
    BY <2>0 DEF SInv, ServerTypes, Status, Undisturbed
  <2>4. stale' = {} /\ ~aborted'
    BY <2>0 DEF OneThreadInv
  <2>. QED
    BY <2>1, <2>2, <2>3, <2>4 DEF OneThreadInv
<1>. QED
  BY <1>1, <1>2, <1>3, <1>4, <1>5, <1>6, <1>7, <1>8, <1>9, <1>10, <1>11, <1>12, <1>13, <1>14, <1>15 DEF ServerNext, Handle

LEMMA OneThreadInvariant ==
    ASSUME NThreads = 1
    PROVE  ServerSpec => []OneThreadInv
<1>1. SInv /\ OneThreadInv /\ [ServerNext]_vars => OneThreadInv'
  BY OneThreadStep
<1>. QED
  BY <1>1, OneThreadInit, SInvInvariant, PTL DEF ServerSpec

\* With one thread a GET is answered with the value its own call found: the
\* copy outside the mutex is harmless as long as nobody else can run.
THEOREM OneThreadAnswers ==
    ASSUME NThreads = 1
    PROVE  ServerSpec => []GetAnswersItsOwnKey
<1>1. OneThreadInv => GetAnswersItsOwnKey
  BY DEF OneThreadInv, Undisturbed, GetAnswersItsOwnKey
<1>. QED
  BY <1>1, OneThreadInvariant, PTL

\* With one thread the assertion that follows a reset never fails, whether or
\* not the counter wraps.
THEOREM OneThreadResets ==
    ASSUME NThreads = 1
    PROVE  ServerSpec => []ResetLeavesNoSpaceUsed
<1>1. OneThreadInv => ResetLeavesNoSpaceUsed
  BY DEF OneThreadInv, ResetLeavesNoSpaceUsed
<1>. QED
  BY <1>1, OneThreadInvariant, PTL
=============================================================================
