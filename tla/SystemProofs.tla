---------------------------- MODULE SystemProofs ----------------------------
(***************************************************************************)
(* Proofs about the whole system, for every number of connections and,     *)
(* unless a theorem says otherwise, of threads of the server.              *)
(***************************************************************************)
EXTENDS CacheSystem, SerialProofs

USE CacheAssumption, ServerAssumption, SystemAssumption

\* The system only makes the server do what the server does.
LEMMA SystemStepIsServerStep ==
    ASSUME [SystemNext]_systemVars
    PROVE  [ServerNext]_vars
<1>1. CASE UNCHANGED systemVars
  BY <1>1 DEF systemVars
<1>2. ASSUME NEW s \in Session,
             \/ Connect(s) \/ (\E c \in Calls : Begin(s, c)) \/ BeginFails(s)
             \/ Return(s) \/ Throw(s) \/ Leave(s) \/ Break(s) \/ CutRequest(s)
      PROVE  UNCHANGED vars
  BY <1>2 DEF Connect, Begin, BeginFails, Return, Throw, Leave, Break, CutRequest
<1>3. ASSUME NEW s \in Session,
             AcceptConnection(s) \/ TakeRequest(s) \/ Respond(s) \/ Handler(s) \/ EndSession(s)
      PROVE  ServerNext
  BY <1>3 DEF AcceptConnection, TakeRequest, Respond, Handler, EndSession, ServerNext
<1>. QED
  BY <1>1, <1>2, <1>3 DEF SystemNext, Completion

\* So what holds of the server, whoever its clients are, holds here.
LEMMA ServerInsideInit == SystemInit => ServerInit
  BY DEF SystemInit

LEMMA ServerInside == SystemSpec => []SInv
<1>1. SystemInit => SInv
  BY SInvInit, ServerInsideInit
<1>2. SInv /\ [SystemNext]_systemVars => SInv'
  BY SInvStep, SystemStepIsServerStep
<1>. QED
  BY <1>1, <1>2, PTL DEF SystemSpec
----------------------------------------------------------------------------
(* Requests and responses.                                                 *)

LEMMA CallFacts ==
    /\ Cut \in Calls /\ Cut \notin Request /\ NoRequest \notin Calls
    /\ \A c \in Calls : c \in Request \/ c = Cut
    /\ \A c \in Calls : c \notin Outcome /\ c # NoClient
<1>1. Cut \notin Request
  BY DEF Cut, Request
<1>2. NoRequest \notin Calls
  BY DEF Calls
<1>3. \A c \in Calls : c \in Request \/ c = Cut
  BY DEF Calls
<1>4. Cut \in Calls
  BY DEF Calls
<1>. QED
  BY <1>1, <1>2, <1>3, <1>4

NetTypes ==
    /\ client \in [Session -> Calls \cup Outcome \cup {NoClient}]
    /\ linked \subseteq Session
    /\ toServer \in [Session -> Calls \cup {NoRequest}]
    /\ toClient \in [Session -> Reply \cup {NoReply}]
    /\ cut \in BOOLEAN

\* The response that a session writes answers the call it took.
Replies(s) ==
    /\ req[s] \in Calls \cup {NoRequest}
    /\ pc[s] = "write" =>
          reply[s] \in Reply /\ req[s] \in Calls /\ Suits(req[s], reply[s].kind)

\* InLockstep of one connection, and what keeps it after the connection has
\* failed: a request is taken at most once, and nothing is sent any more.
Lockstep(s) ==
    /\ toServer[s] # NoRequest => req[s] = NoRequest /\ toClient[s] = NoReply
    /\ toClient[s] # NoReply =>
          req[s] = NoRequest /\ client[s] \in Calls /\ Suits(client[s], toClient[s].kind)
    /\ s \in linked /\ client[s] \notin Calls =>
          toServer[s] = NoRequest /\ req[s] = NoRequest /\ toClient[s] = NoReply
    /\ s \in linked /\ client[s] \in Calls /\ toClient[s] = NoReply =>
          \/ toServer[s] = client[s] /\ req[s] = NoRequest
          \/ toServer[s] = NoRequest /\ req[s] = client[s]
    /\ s \in linked => client[s] # NoClient

NetInv == NetTypes /\ \A s \in Session : Replies(s) /\ Lockstep(s)

LEMMA NetInvInit == SystemInit => NetInv
  BY CallFacts DEF SystemInit, ServerInit, NetInv, NetTypes, Replies, Lockstep

\* A step at one connection leaves the others as they are.
Elsewhere(s) ==
    \A t \in Session \ {s} :
        /\ pc'[t] = pc[t] /\ req'[t] = req[t] /\ reply'[t] = reply[t]
        /\ client'[t] = client[t]
        /\ t \in linked' <=> t \in linked
        /\ toServer'[t] = toServer[t] /\ toClient'[t] = toClient[t]

LEMMA OneAtATime ==
    ASSUME NetInv, NEW s \in Session, NetTypes', Elsewhere(s), Replies(s)', Lockstep(s)'
    PROVE  NetInv'
<1>1. ASSUME NEW t \in Session \ {s}
      PROVE  Replies(t)' /\ Lockstep(t)'
  BY <1>1 DEF NetInv, Elsewhere, Replies, Lockstep
<1>. QED
  BY <1>1 DEF NetInv

\* The steps of clients and network.
LEMMA ClientStep ==
    ASSUME SInv, NetInv, NEW s \in Session,
           \/ Connect(s) \/ (\E c \in Calls : Begin(s, c)) \/ BeginFails(s)
           \/ Return(s) \/ Throw(s) \/ Leave(s) \/ Break(s)
    PROVE  NetInv'
<1>. USE DEF Become
<1>1. NetTypes /\ Replies(s) /\ Lockstep(s) /\ HandlesItsRequest(s)
  BY DEF NetInv, SInv
<1>2. Connected \in Outcome /\ Threw \in Outcome
  BY DEF Outcome
<1>3. ASSUME UNCHANGED vars, Elsewhere(s), NetTypes', Lockstep(s)'
      PROVE  NetInv'
  <2>1. Replies(s)'
    BY <1>1, <1>3 DEF Replies, vars, serverVars
  <2>. QED
    BY <1>3, <2>1, OneAtATime
<1>4. CASE Connect(s)
  <2>1. UNCHANGED vars /\ NetTypes' /\ Elsewhere(s)
    BY <1>1, <1>2, <1>4 DEF Connect, NetTypes, Elsewhere, vars, serverVars
  <2>2. Lockstep(s)'
    BY <1>1, <1>2, <1>4, CallFacts DEF Connect, NetTypes, Lockstep, HandlesItsRequest, vars, serverVars
  <2>. QED
    BY <1>3, <2>1, <2>2
<1>5. ASSUME NEW c \in Calls, Begin(s, c)
      PROVE  NetInv'
  <2>1. UNCHANGED vars /\ NetTypes' /\ Elsewhere(s)
    BY <1>1, <1>5 DEF Begin, NetTypes, Elsewhere, vars, serverVars
  <2>2. Lockstep(s)'
    BY <1>1, <1>5, CallFacts DEF Begin, Up, NetTypes, Lockstep, vars, serverVars
  <2>. QED
    BY <1>3, <2>1, <2>2
<1>6. CASE BeginFails(s)
  <2>1. UNCHANGED vars /\ NetTypes' /\ Elsewhere(s)
    BY <1>1, <1>2, <1>6 DEF BeginFails, NetTypes, Elsewhere, vars, serverVars
  <2>2. Lockstep(s)'
    BY <1>1, <1>2, <1>6, CallFacts DEF BeginFails, NetTypes, Lockstep, vars, serverVars
  <2>. QED
    BY <1>3, <2>1, <2>2
<1>7. CASE Return(s)
  <2>1. PICK outcome \in Parsed(client[s], toClient[s]) :
           client' = [client EXCEPT ![s] = outcome]
    BY <1>7 DEF Return
  <2>2. outcome \in Outcome
    BY <1>1, <1>7 DEF Return, NetTypes, Parsed, ReadValue, ReadSize, Outcome
  <2>3. UNCHANGED vars /\ NetTypes' /\ Elsewhere(s)
    BY <1>1, <1>7, <2>1, <2>2 DEF Return, NetTypes, Elsewhere, vars, serverVars
  <2>4. Lockstep(s)'
    BY <1>1, <1>7, <2>1, <2>2, CallFacts DEF Return, NetTypes, Lockstep, vars, serverVars
  <2>. QED
    BY <1>3, <2>3, <2>4
<1>8. CASE Throw(s) \/ Leave(s) \/ Break(s)
  <2>1. UNCHANGED vars /\ NetTypes' /\ Elsewhere(s)
    BY <1>1, <1>2, <1>8 DEF Throw, Leave, Break, NetTypes, Elsewhere, vars, serverVars
  <2>2. Lockstep(s)'
    BY <1>1, <1>2, <1>8, CallFacts DEF Throw, Leave, Break, NetTypes, Lockstep, vars, serverVars
  <2>. QED
    BY <1>3, <2>1, <2>2
<1>. QED
  BY <1>4, <1>5, <1>6, <1>7, <1>8
\* The handler of a request prepares the kind of response that it calls for.
LEMMA HandleReplies ==
    ASSUME SInv, NEW s \in Session, Replies(s), Handle(s)
    PROVE  /\ req' = req /\ Replies(s)'
           /\ \A t \in Session \ {s} : pc'[t] = pc[t] /\ reply'[t] = reply[t]
<1>. USE DEF At, Goto
<1>1. /\ ServerTypes /\ HandlesItsRequest(s)
      /\ pc \in [Session -> Handling \cup {"closed", "read", "write"}]
      /\ reply \in [Session -> Reply \cup {NoReply}]
      /\ found[s] \in Val \cup {Absent}
      /\ getVal \in Val \cup {Absent}
  BY DEF SInv, ServerTypes, Structure, TypeOK
<1>2. pc[s] \in Handling /\ req[s] \in Calls
  <2>1. pc[s] \in Handling
    BY DEF Handle, HeadSpace, Refuse, Lock, Put, Get, Delete, ResetCache, Unlock, Copy,
           Check, InCall, Handling
  <2>. QED
    BY <1>1, <2>1 DEF HandlesItsRequest, Replies
<1>. DEFINE Rest == \A t \in Session \ {s} : pc'[t] = pc[t] /\ reply'[t] = reply[t]
<1>3. CASE HeadSpace(s)
  <2>1. /\ req' = req /\ Rest /\ req[s].verb = "HEAD"
        /\ reply'[s] = [kind |-> "space", val |-> Absent, size |-> current]
    BY <1>1, <1>3 DEF HeadSpace, Send
  <2>2. current \in Size
    BY DEF SInv, Structure, TypeOK
  <2>. QED
    BY <1>2, <2>1, <2>2 DEF Replies, Suits, Reply
<1>4. ~Refuse(s)
  <2>1. req[s].verb \notin {"POST", "OTHER"}
    BY <1>2 DEF Calls, Cut
  <2>. QED
    BY <2>1 DEF Refuse
<1>5. CASE Lock(s) \/ Put(s) \/ Get(s) \/ Delete(s) \/ ResetCache(s)
  <2>1. req' = req /\ Rest /\ pc'[s] # "write"
    BY <1>1, <1>5 DEF Lock, Put, Get, Delete, ResetCache, InCall
  <2>. QED
    BY <1>2, <2>1 DEF Replies
<1>6. CASE Unlock(s)
  <2>1. req' = req /\ Rest /\ pc[s] = "unlock" /\ req[s].verb \in Locking
    <3>1. req' = req /\ pc[s] = "unlock"
      BY <1>6 DEF Unlock
    <3>2. Rest
      BY <1>1, <1>6, UnlockLeadsTo
    <3>. QED
      BY <1>1, <3>1, <3>2 DEF HandlesItsRequest
  <2>2. CASE req[s].verb = "PUT"
    <3>1. reply'[s] = Status("ok")
      BY <1>1, <1>6, <2>2 DEF Unlock, Send
    <3>. QED
      BY <1>2, <2>1, <2>2, <3>1, StatusType DEF Replies, Suits, Status
  <2>3. CASE req[s].verb = "DELETE"
    <3>1. reply'[s] \in {Status("true"), Status("false")}
      BY <1>1, <1>6, <2>1, <2>3 DEF Unlock, Send, HandlesItsRequest
    <3>. QED
      BY <1>2, <2>1, <2>3, <3>1, StatusType DEF Replies, Suits, Status
  <2>4. CASE req[s].verb \in {"GET", "RESET"}
    <3>1. pc'[s] # "write"
      BY <1>1, <1>6, <2>4 DEF Unlock
    <3>. QED
      BY <1>2, <2>1, <3>1 DEF Replies
  <2>. QED
    BY <2>1, <2>2, <2>3, <2>4 DEF Locking
<1>7. CASE Copy(s)
  <2>1. req' = req /\ Rest /\ req[s].verb = "GET"
    BY <1>1, <1>7 DEF Copy, Send, HandlesItsRequest
  <2>2. CASE found[s] = Absent
    <3>1. reply'[s] = Status("null")
      BY <1>1, <1>7, <2>2 DEF Copy, Send
    <3>. QED
      BY <1>2, <2>1, <3>1, StatusType DEF Replies, Suits, Status
  <2>3. CASE found[s] # Absent
    <3>1. PICK text \in {found[s], getVal, Torn} :
             reply'[s] = [kind |-> "found", val |-> text, size |-> SizeOf[found[s]]]
      BY <1>1, <1>7, <2>3 DEF Copy, Send
    <3>2. reply'[s] \in Reply
      BY <1>1, <2>3, <3>1 DEF Reply
    <3>. QED
      BY <1>2, <2>1, <3>1, <3>2 DEF Replies, Suits
  <2>. QED
    BY <2>2, <2>3
<1>8. CASE Check(s)
  <2>1. req' = req /\ Rest /\ pc[s] = "check" /\ req[s].verb = "RESET"
    BY <1>1, <1>8 DEF Check, Send, HandlesItsRequest
  <2>2. pc'[s] = "write" => reply'[s] = Status("ok")
    BY <1>1, <1>8, <2>1 DEF Check, Send
  <2>. QED
    BY <1>2, <2>1, <2>2, StatusType DEF Replies, Suits, Status
<1>. QED
  BY <1>3, <1>4, <1>5, <1>6, <1>7, <1>8 DEF Handle

\* The steps of the server.
LEMMA ServerSideStep ==
    ASSUME SInv, NetInv, NEW s \in Session,
           Completion(s) \/ Handler(s) \/ EndSession(s)
    PROVE  NetInv'
<1>. USE DEF Goto
<1>1. /\ NetTypes /\ Replies(s) /\ Lockstep(s) /\ HandlesItsRequest(s)
      /\ pc \in [Session -> Handling \cup {"closed", "read", "write"}]
      /\ req \in [Session -> Request \cup {NoRequest}]
      /\ reply \in [Session -> Reply \cup {NoReply}]
  BY DEF NetInv, SInv, ServerTypes
<1>2. CASE AcceptConnection(s)
  <2>1. NetTypes' /\ Elsewhere(s) /\ Replies(s)' /\ Lockstep(s)'
    BY <1>1, <1>2 DEF AcceptConnection, Accept, netVars, NetTypes, Elsewhere, Replies, Lockstep
  <2>. QED
    BY <2>1, OneAtATime
<1>3. CASE TakeRequest(s)
  <2>1. NetTypes' /\ Elsewhere(s)
    BY <1>1, <1>3 DEF TakeRequest, Receive, NetTypes, Elsewhere
  <2>2. Replies(s)' /\ Lockstep(s)'
    BY <1>1, <1>3, CallFacts DEF TakeRequest, Receive, NetTypes, Replies, Lockstep, HandlesItsRequest
  <2>. QED
    BY <2>1, <2>2, OneAtATime
<1>4. CASE CutRequest(s)
  <2>1. NetTypes' /\ Elsewhere(s) /\ Replies(s)' /\ Lockstep(s)'
    BY <1>1, <1>4 DEF CutRequest, vars, serverVars, NetTypes, Elsewhere, Replies, Lockstep
  <2>. QED
    BY <2>1, OneAtATime
<1>5. CASE Respond(s)
  <2>1. NetTypes' /\ Elsewhere(s)
    BY <1>1, <1>5 DEF Respond, Written, NetTypes, Elsewhere
  <2>2. Replies(s)'
    BY <1>1, <1>5 DEF Respond, Written, Replies
  <2>3. Lockstep(s)'
    BY <1>1, <1>5, CallFacts DEF Respond, Written, NetTypes, Replies, Lockstep
  <2>. QED
    BY <2>1, <2>2, <2>3, OneAtATime
<1>6. CASE Handler(s)
  <2>1. /\ req' = req /\ Replies(s)'
        /\ \A t \in Session \ {s} : pc'[t] = pc[t] /\ reply'[t] = reply[t]
    BY <1>1, <1>6, HandleReplies DEF Handler
  <2>2. NetTypes' /\ Elsewhere(s) /\ Lockstep(s)'
    BY <1>1, <1>6, <2>1 DEF Handler, netVars, NetTypes, Elsewhere, Lockstep
  <2>. QED
    BY <2>1, <2>2, OneAtATime
<1>7. CASE EndSession(s)
  <2>1. NetTypes' /\ Elsewhere(s)
    BY <1>1, <1>7 DEF EndSession, End, NetTypes, Elsewhere
  <2>2. Replies(s)' /\ Lockstep(s)'
    BY <1>1, <1>7 DEF EndSession, End, NetTypes, Replies, Lockstep
  <2>. QED
    BY <2>1, <2>2, OneAtATime
<1>. QED
  BY <1>2, <1>3, <1>4, <1>5, <1>6, <1>7 DEF Completion

LEMMA NetInvStep == SInv /\ NetInv /\ [SystemNext]_systemVars => NetInv'
<1>. SUFFICES ASSUME SInv, NetInv, [SystemNext]_systemVars PROVE NetInv'
  OBVIOUS
<1>1. CASE UNCHANGED systemVars
  BY <1>1 DEF systemVars, vars, serverVars, netVars, NetInv, NetTypes, Replies, Lockstep
<1>. QED
  BY <1>1, ClientStep, ServerSideStep DEF SystemNext

LEMMA NetInvariant == SystemSpec => []NetInv
  BY NetInvInit, NetInvStep, ServerInside, PTL DEF SystemSpec

\* Type correctness.
THEOREM SystemTypeCorrect == SystemSpec => []SystemTypeOK
<1>1. SInv /\ NetInv => SystemTypeOK
  BY DEF SInv, Structure, ServerTypes, ServerTypeOK, NetInv, NetTypes, SystemTypeOK
<1>. QED
  BY <1>1, ServerInside, NetInvariant, PTL

\* However many threads the server has, and whatever breaks, a call never
\* reads the response to another one.
THEOREM ConnectionsInLockstep == SystemSpec => []InLockstep
<1>1. NetInv => InLockstep
  BY DEF NetInv, Lockstep, InLockstep
<1>. QED
  BY <1>1, NetInvariant, PTL
----------------------------------------------------------------------------
(* Sizes on the wire.                                                      *)

LEMMA CacheInside ==
    ASSUME NoOverflow
    PROVE  SystemSpec => []IInv
<1>1. SystemInit => IInv
  BY IInvInit, ServerInsideInit DEF ServerInit
<1>2. IInv /\ SInv /\ [SystemNext]_systemVars => IInv'
  BY SystemStepIsServerStep, ServerStepIsCacheStep, IInvStep
<1>. QED
  BY <1>1, <1>2, ServerInside, PTL DEF SystemSpec

\* No entry is larger than the cache.
LEMMA EntryFits ==
    ASSUME IInv, NEW k \in Key, vals[k] # Absent
    PROVE  SizeOf[vals[k]] <= MaxMem
<1>1. /\ SizeTable(sizes) /\ sizes[k] # Absent
      /\ sizes[k] = SizeOf[vals[k]]
      /\ current = SpaceOf(sizes) /\ current <= MaxMem /\ MaxMem \in Nat
  BY CountedTable DEF IInv, Counted, Structure, MapsInStep
<1>. DEFINE rest == SpaceOf([j \in Key |-> IF j = k THEN Absent ELSE sizes[j]])
<1>2. sizes[k] \in Nat /\ rest \in Nat /\ SpaceOf(sizes) = rest + sizes[k]
  BY <1>1, SpaceOfDrop
<1>. QED
  BY <1>1, <1>2

Bearable(response) == response.kind \in {"found", "space"} => response.size <= MaxMem

\* What a handler found, and what it answers.
Measured(s) ==
    /\ found[s] # Absent => SizeOf[found[s]] <= MaxMem
    /\ pc[s] = "write" => Bearable(reply[s])

LEMMA HandleMeasures ==
    ASSUME IInv, SInv, NEW s \in Session, Measured(s), Handle(s)
    PROVE  Measured(s)' /\ \A t \in Session \ {s} : found'[t] = found[t]
<1>. USE DEF At, Goto
<1>1. /\ HandlesItsRequest(s)
      /\ pc \in [Session -> Handling \cup {"closed", "read", "write"}]
      /\ reply \in [Session -> Reply \cup {NoReply}]
      /\ found \in [Session -> Val \cup {Absent}]
      /\ current <= MaxMem
  BY DEF SInv, ServerTypes, IInv, Counted
<1>2. CASE HeadSpace(s)
  BY <1>1, <1>2 DEF HeadSpace, Send, Measured, Bearable
<1>3. CASE Lock(s) \/ Put(s) \/ Delete(s) \/ ResetCache(s)
  BY <1>1, <1>3 DEF Lock, Put, Delete, ResetCache, InCall, Measured
<1>4. CASE Get(s)
  <2>1. req[s].key \in Key
    <3>1. req[s] \in Request /\ req[s].verb = "GET"
      BY <1>1, <1>4 DEF Get, InCall, HandlesItsRequest, Handling
    <3>. QED
      BY <3>1, RequestParts
  <2>2. vals[req[s].key] # Absent => SizeOf[vals[req[s].key]] <= MaxMem
    BY <2>1, EntryFits
  <2>. QED
    BY <1>1, <1>4, <2>2 DEF Get, Measured
<1>5. CASE Unlock(s)
  <2>1. found' = found /\ req[s].verb \in Locking /\ pc[s] = "unlock"
    BY <1>1, <1>5 DEF Unlock, HandlesItsRequest
  <2>2. CASE req[s].verb = "PUT"
    BY <1>1, <1>5, <2>1, <2>2 DEF Unlock, Send, Status, Measured, Bearable
  <2>3. CASE req[s].verb = "DELETE"
    BY <1>1, <1>5, <2>1, <2>3 DEF Unlock, Send, Status, HandlesItsRequest, Measured, Bearable
  <2>4. CASE req[s].verb \in {"GET", "RESET"}
    BY <1>1, <1>5, <2>1, <2>4 DEF Unlock, Measured
  <2>. QED
    BY <2>1, <2>2, <2>3, <2>4 DEF Locking
<1>6. CASE Refuse(s) \/ Copy(s) \/ Check(s)
  BY <1>1, <1>6 DEF Refuse, Copy, Check, Send, Status, Measured, Bearable
<1>. QED
  BY <1>2, <1>3, <1>4, <1>5, <1>6 DEF Handle

\* What is on its way to the client, and what came of it.
Received(s) ==
    /\ toClient[s] # NoReply => Bearable(toClient[s])
    /\ client[s] # OutOfRange

SizesInv == \A s \in Session : Measured(s) /\ Received(s)

\* Only get and HEAD give stoi something to read, and it always fits.
LEMMA ParsedInRange ==
    ASSUME FitsInt(MaxMem), MaxMem \in Nat, NEW call, NEW response \in Reply,
           Bearable(response), NEW outcome \in Parsed(call, response)
    PROVE  outcome # OutOfRange
<1>1. response # OutOfRange /\ Garbled # OutOfRange /\ Threw # OutOfRange
  BY DEF Reply, OutOfRange, Garbled, Threw, Status
<1>2. response.kind \in {"found", "space"} => FitsInt(response.size)
  <2>1. response.size \in Nat /\ SizeMod \in Nat
    BY DEF Reply, Size
  <2>. QED
    BY <2>1 DEF Bearable, FitsInt
<1>. QED
  BY <1>1, <1>2 DEF Parsed, ReadValue, ReadSize

LEMMA SizesStep ==
    ASSUME FitsInt(MaxMem), IInv, SInv, NetInv, SizesInv, [SystemNext]_systemVars
    PROVE  SizesInv'
<1>. USE DEF Goto, Become
<1>1. /\ NetTypes /\ \A t \in Session : Measured(t) /\ Received(t)
      /\ pc \in [Session -> Handling \cup {"closed", "read", "write"}]
      /\ found \in [Session -> Val \cup {Absent}]
      /\ reply \in [Session -> Reply \cup {NoReply}]
      /\ MaxMem \in Nat
  BY DEF NetInv, SInv, ServerTypes, SizesInv, Size
<1>2. /\ Connected # OutOfRange /\ Threw # OutOfRange /\ NoClient # OutOfRange
      /\ \A c \in Calls : c # OutOfRange
  BY CallFacts DEF Connected, Threw, OutOfRange, Status, Outcome
<1>3. ASSUME UNCHANGED vars, \A t \in Session : Received(t)'
      PROVE  SizesInv'
  BY <1>1, <1>3 DEF SizesInv, Measured, vars, serverVars
<1>4. ASSUME NEW s \in Session,
             Connect(s) \/ BeginFails(s) \/ Throw(s) \/ Leave(s) \/ Break(s)
      PROVE  SizesInv'
  <2>1. UNCHANGED vars /\ \A t \in Session : Received(t)'
    BY <1>1, <1>2, <1>4
       DEF Connect, BeginFails, Throw, Leave, Break, NetTypes, Received
  <2>. QED
    BY <1>3, <2>1
<1>5. ASSUME NEW s \in Session, NEW c \in Calls, Begin(s, c)
      PROVE  SizesInv'
  <2>1. UNCHANGED vars /\ \A t \in Session : Received(t)'
    BY <1>1, <1>2, <1>5 DEF Begin, NetTypes, Received
  <2>. QED
    BY <1>3, <2>1
<1>6. ASSUME NEW s \in Session, Return(s)
      PROVE  SizesInv'
  <2>1. PICK outcome \in Parsed(client[s], toClient[s]) :
           client' = [client EXCEPT ![s] = outcome]
    BY <1>6 DEF Return
  <2>2. toClient[s] \in Reply /\ Bearable(toClient[s])
    BY <1>1, <1>6 DEF Return, NetTypes, Received
  <2>3. outcome # OutOfRange
    BY <1>1, <2>1, <2>2, ParsedInRange
  <2>4. UNCHANGED vars /\ \A t \in Session : Received(t)'
    BY <1>1, <1>6, <2>1, <2>3 DEF Return, NetTypes, Received
  <2>. QED
    BY <1>3, <2>4
<1>7. ASSUME NEW s \in Session, CutRequest(s)
      PROVE  SizesInv'
  <2>1. UNCHANGED vars /\ \A t \in Session : Received(t)'
    BY <1>1, <1>7 DEF CutRequest, Received
  <2>. QED
    BY <1>3, <2>1
<1>8. ASSUME NEW s \in Session,
             AcceptConnection(s) \/ TakeRequest(s) \/ Respond(s) \/ EndSession(s)
      PROVE  SizesInv'
  <2>1. \A t \in Session : Measured(t)'
    BY <1>1, <1>8 DEF AcceptConnection, TakeRequest, Respond, EndSession, Accept, Receive,
                      Written, End, Measured
  <2>2. \A t \in Session : Received(t)'
    BY <1>1, <1>8 DEF AcceptConnection, TakeRequest, Respond, EndSession, Written, netVars,
                      NetTypes, Measured, Received
  <2>. QED
    BY <2>1, <2>2 DEF SizesInv
<1>9. ASSUME NEW s \in Session, Handler(s)
      PROVE  SizesInv'
  <2>1. Measured(s)' /\ \A t \in Session \ {s} : found'[t] = found[t]
    BY <1>1, <1>9, HandleMeasures DEF Handler
  <2>2. \A t \in Session \ {s} : pc'[t] = pc[t] /\ reply'[t] = reply[t]
    BY <1>9, HandleReplies DEF Handler, NetInv
  <2>3. \A t \in Session : Measured(t)'
    BY <1>1, <2>1, <2>2 DEF Measured
  <2>4. \A t \in Session : Received(t)'
    BY <1>1, <1>9 DEF Handler, netVars, Received
  <2>. QED
    BY <2>3, <2>4 DEF SizesInv
<1>10. CASE UNCHANGED systemVars
  <2>1. UNCHANGED vars /\ \A t \in Session : Received(t)'
    BY <1>1, <1>10 DEF systemVars, netVars, Received
  <2>. QED
    BY <1>3, <2>1
<1>. QED
  BY <1>4, <1>5, <1>6, <1>7, <1>8, <1>9, <1>10 DEF SystemNext, Completion

LEMMA SizesInit == SystemInit => SizesInv
<1>1. NoClient # OutOfRange
  BY CallFacts DEF Outcome
<1>. QED
  BY <1>1 DEF SystemInit, ServerInit, SizesInv, Measured, Received

\* If maxmem fits in an int, stoi never meets a number that does not: neither
\* a size that was stored nor a space in use that HEAD caught in the middle
\* of another handler's call.
THEOREM SizesAlwaysFit ==
    ASSUME NoOverflow, FitsInt(MaxMem)
    PROVE  SystemSpec => []SizesFitInt
<1>1. SystemInit => SizesInv
  BY SizesInit
<1>2. IInv /\ SInv /\ NetInv /\ SizesInv /\ [SystemNext]_systemVars => SizesInv'
  BY SizesStep
<1>3. SizesInv => SizesFitInt
  BY DEF SizesInv, Received, SizesFitInt
<1>. QED
  BY <1>1, <1>2, <1>3, CacheInside, ServerInside, NetInvariant, PTL DEF SystemSpec
----------------------------------------------------------------------------
(* Requests on the whole way to the store.                                 *)

\* Whatever happens to clients and connections, and with any number of
\* threads: what the system's server does to its store and answers are
\* requests carried out one at a time, but for the values that GETs copy.
THEOREM ServerInsideIsSerial ==
    ASSUME NoOverflow
    PROVE  SystemSpec => SerialButForCopies
<1>1. SystemInit => Intended!Init
  BY DEF SystemInit, ServerInit, Init, AsFound, Answer, Intended!Init
<1>2. IInv /\ IInv' /\ SInv /\ [SystemNext]_systemVars => [Intended!Next]_(Intended!vars)
  BY SystemStepIsServerStep, StepIsSerialAsFound
<1>. QED
  BY <1>1, <1>2, CacheInside, ServerInside, PTL
     DEF SystemSpec, SerialButForCopies, Intended!Spec
=============================================================================
