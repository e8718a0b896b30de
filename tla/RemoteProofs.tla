---------------------------- MODULE RemoteProofs ----------------------------
(***************************************************************************)
(* Client library, connections and a server with one thread implement the  *)
(* remote cache.  What a handler does is taken from SerialProofs; here it  *)
(* is seen through the messages in transit.                                *)
(***************************************************************************)
EXTENDS SystemProofs

USE CacheAssumption, ServerAssumption, SystemAssumption

\* RemoteCache measures a store as SerialServer does.
LEMMA SameFit ==
    ASSUME NEW st
    PROVE  Remote!FitsIn(st) = Serial!FitsIn(st)
<1>. DEFINE sz == Serial!SizesIn(st)
<1>1. Remote!SizesIn(st) = sz
  BY DEF Remote!SizesIn, Serial!SizesIn
<1>2. Remote!Bytes(sz) = Bytes(sz)
  BY DEF Remote!Bytes, Bytes, Remote!Present, Present, Remote!Row, Row
<1>3. Remote!SpaceOf(sz) = SpaceOf(sz)
  BY <1>2 DEF Remote!SpaceOf, SpaceOf, Remote!Cardinality, Cardinality
<1>. QED
  BY <1>1, <1>3, SameSpace DEF Remote!FitsIn, Serial!FitsIn

\* Where the request and the response of a connection are.
LEMMA Whereabouts ==
    ASSUME SInv, NetInv, NEW s \in Session
    PROVE  /\ Lockstep(s) /\ Replies(s) /\ HandlesItsRequest(s)
           /\ req[s] = NoRequest => Answer[s] = NoReply
           /\ toServer[s] # NoRequest =>
                 /\ req[s] = NoRequest /\ toClient[s] = NoReply
                 /\ Asked[s] = toServer[s] /\ Answered[s] = NoReply
           /\ toClient[s] # NoReply =>
                 /\ req[s] = NoRequest /\ toServer[s] = NoRequest
                 /\ Asked[s] = client[s] /\ Answered[s] = toClient[s]
           /\ toServer[s] = NoRequest /\ toClient[s] = NoReply =>
                 Asked[s] = req[s] /\ Answered[s] = Answer[s]
           /\ req[s] # NoRequest => toServer[s] = NoRequest /\ toClient[s] = NoReply
<1>1. Lockstep(s) /\ Replies(s) /\ HandlesItsRequest(s)
  BY DEF NetInv, SInv
<1>2. req[s] = NoRequest => Answer[s] = NoReply
  BY <1>1, CallFacts DEF Answer, HandlesItsRequest, Replies, Handling
<1>. QED
  BY <1>1, <1>2 DEF Lockstep, Asked, Answered

\* A step that moves nothing in transit, and nothing at the server either.
LEMMA NothingMoves ==
    ASSUME UNCHANGED netVars, UNCHANGED Serial!vars
    PROVE  UNCHANGED Remote!remoteVars
<1>1. /\ vals' = vals /\ req' = req /\ Answer' = Answer
      /\ client' = client /\ toServer' = toServer /\ toClient' = toClient
  BY DEF netVars, Serial!vars
<1>2. Asked' = Asked /\ Answered' = Answered
  BY <1>1 DEF Asked, Answered
<1>. QED
  BY <1>1, <1>2 DEF Remote!remoteVars, Remote!vars

\* A handler that answers its request answers the call.
LEMMA SayLifts ==
    ASSUME UNCHANGED netVars, NEW s \in Session,
           toServer[s] = NoRequest, toClient[s] = NoReply,
           NEW kind, NEW val, NEW size, Serial!Say(s, kind, val, size)
    PROVE  Remote!Say(s, kind, val, size)
<1>. DEFINE a == [kind |-> kind, val |-> val, size |-> size]
<1>1. /\ req' = req /\ Answer' = [Answer EXCEPT ![s] = a]
      /\ client' = client /\ toServer' = toServer /\ toClient' = toClient
  BY DEF netVars, Serial!Say
<1>2. Asked' = Asked
  BY <1>1 DEF Asked
<1>3. Answered' = [Answered EXCEPT ![s] = a]
  <2>1. Answer'[s] = a /\ \A t \in Session \ {s} : Answer'[t] = Answer[t]
    BY <1>1 DEF Answer
  <2>. QED
    BY <1>1, <2>1 DEF Answered
<1>. QED
  BY <1>2, <1>3 DEF Remote!Say

LEMMA PendingLifts ==
    ASSUME NEW s \in Session, toServer[s] = NoRequest, toClient[s] = NoReply
    PROVE  /\ \A verb : Serial!Pending(s, verb) => Remote!Pending(s, verb)
           /\ Asked[s] = req[s] /\ Remote!With(s) = Serial!With(s)
<1>1. Asked[s] = req[s] /\ Answered[s] = Answer[s]
  BY DEF Asked, Answered
<1>. QED
  BY <1>1 DEF Serial!Pending, Remote!Pending, Serial!With, Remote!With

\* A handler carries out the call, drops entries for it, or does nothing that
\* a client could see.
LEMMA HandlerServes ==
    ASSUME NoOverflow, IInv, IInv', SInv, OneThreadInv, NetInv, NEW s \in Session, Handler(s)
    PROVE  Remote!Serve(s) \/ UNCHANGED Remote!remoteVars
<1>1. /\ Handle(s) /\ UNCHANGED netVars /\ client' = client
      /\ Lockstep(s) /\ Replies(s) /\ HandlesItsRequest(s)
  BY Whereabouts DEF Handler, netVars
<1>2. pc[s] \in Handling /\ req[s] \in Calls /\ req[s] # NoRequest
  <2>1. pc[s] \in Handling
    BY <1>1 DEF Handle, HeadSpace, Refuse, Lock, Put, Get, Delete, ResetCache, Unlock, Copy,
                Check, InCall, At, Handling
  <2>. QED
    BY <1>1, <2>1 DEF HandlesItsRequest, Replies
<1>3. toServer[s] = NoRequest /\ toClient[s] = NoReply
  BY <1>2, Whereabouts
<1>4. /\ Asked[s] = req[s] /\ Remote!With(s) = Serial!With(s)
      /\ \A verb : Serial!Pending(s, verb) => Remote!Pending(s, verb)
  BY <1>3, PendingLifts
<1>5. \A kind, val, size : Serial!Say(s, kind, val, size) => Remote!Say(s, kind, val, size)
  BY <1>1, <1>3, SayLifts
<1>6. CASE HeadSpace(s)
  <2>1. Serial!HeadSpace(s)
    BY <1>6, HeadIsHead
  <2>2. Serial!SpaceOf(Serial!SizesIn(vals)) = Remote!SpaceOf(Remote!SizesIn(vals))
    <3>1. Serial!SizesIn(vals) = Remote!SizesIn(vals)
      BY DEF Serial!SizesIn, Remote!SizesIn
    <3>. DEFINE sz == Remote!SizesIn(vals)
    <3>2. Remote!Bytes(sz) = Serial!Bytes(sz)
      BY DEF Remote!Bytes, Serial!Bytes, Remote!Present, Serial!Present, Remote!Row, Serial!Row
    <3>3. Remote!SpaceOf(sz) = Serial!SpaceOf(sz)
      BY <3>2 DEF Remote!SpaceOf, Serial!SpaceOf, Remote!Cardinality, Serial!Cardinality
    <3>. QED
      BY <3>1, <3>3
  <2>3. Remote!HeadSpace(s)
    BY <1>4, <1>5, <2>1, <2>2 DEF Serial!HeadSpace, Remote!HeadSpace
  <2>. QED
    BY <1>1, <2>3 DEF Remote!Serve
<1>7. ~Refuse(s)
  <2>1. req[s].verb \notin {"POST", "OTHER"}
    BY <1>2 DEF Calls, Cut
  <2>. QED
    BY <2>1 DEF Refuse
<1>8. CASE Get(s)
  <2>1. Serial!Get(s)
    BY <1>8, GetIsGet
  <2>2. Remote!Get(s)
    BY <1>4, <1>5, <2>1 DEF Serial!Get, Remote!Get
  <2>. QED
    BY <1>1, <2>2 DEF Remote!Serve
<1>9. CASE Delete(s)
  <2>1. Serial!Delete(s)
    BY <1>9, DeleteIsDelete
  <2>2. Remote!Delete(s)
    BY <1>4, <1>5, <2>1 DEF Serial!Delete, Remote!Delete
  <2>. QED
    BY <1>1, <2>2 DEF Remote!Serve
<1>10. CASE ResetCache(s)
  <2>1. Serial!ResetCache(s)
    BY <1>10, ResetIsReset
  <2>2. Remote!ResetCache(s)
    BY <1>4, <1>5, <2>1 DEF Serial!ResetCache, Remote!ResetCache
  <2>. QED
    BY <1>1, <2>2 DEF Remote!Serve
<1>11. CASE Put(s)
  <2>1. CASE Serial!Put(s)
    <3>1. Remote!Put(s)
      BY <1>4, <1>5, <2>1, SameFit DEF Serial!Put, Remote!Put
    <3>. QED
      BY <1>1, <3>1 DEF Remote!Serve
  <2>2. ASSUME NEW k \in Key, Serial!MakeRoom(s, k)
        PROVE  Remote!Serve(s)
    <3>1. Asked' = Asked /\ Answered' = Answered
      <4>1. req' = req /\ Answer' = Answer /\ client' = client
            /\ toServer' = toServer /\ toClient' = toClient
        BY <1>1, <2>2 DEF Serial!MakeRoom, netVars
      <4>. QED
        BY <4>1 DEF Asked, Answered
    <3>2. Remote!MakeRoom(s, k)
      BY <1>4, <2>2, <3>1, SameFit DEF Serial!MakeRoom, Remote!MakeRoom
    <3>. QED
      BY <1>1, <3>2 DEF Remote!Serve
  <2>3. CASE UNCHANGED Serial!vars
    BY <1>1, <2>3, NothingMoves
  <2>. QED
    BY <1>11, <2>1, <2>2, <2>3, PutIsPut
<1>12. CASE Lock(s) \/ Unlock(s) \/ Copy(s) \/ Check(s)
  <2>1. UNCHANGED Serial!vars
    BY <1>12, QuietSteps, UnlockIsQuiet, CopyIsQuiet, CheckIsQuiet
  <2>. QED
    BY <1>1, <2>1, NothingMoves
<1>. QED
  BY <1>1, <1>6, <1>7, <1>8, <1>9, <1>10, <1>11, <1>12 DEF Handle
----------------------------------------------------------------------------
(* The steps of clients, network and sessions.                             *)

\* A step at one connection moves nothing at the others.
LEMMA OthersStay ==
    ASSUME NEW s \in Session,
           \A t \in Session \ {s} :
              /\ client'[t] = client[t] /\ toServer'[t] = toServer[t]
              /\ toClient'[t] = toClient[t]
              /\ req'[t] = req[t] /\ Answer'[t] = Answer[t]
    PROVE  /\ Asked' = [Asked EXCEPT ![s] = Asked'[s]]
           /\ Answered' = [Answered EXCEPT ![s] = Answered'[s]]
<1>1. \A t \in Session \ {s} : Asked'[t] = Asked[t] /\ Answered'[t] = Answered[t]
  BY DEF Asked, Answered
<1>2. /\ Asked = [t \in Session |-> Asked[t]]
      /\ Answered = [t \in Session |-> Answered[t]]
      /\ Asked' = [t \in Session |-> Asked'[t]]
      /\ Answered' = [t \in Session |-> Answered'[t]]
  BY DEF Asked, Answered
<1>. QED
  BY <1>1, <1>2

\* The client's side of a connection: the server does not move.
LEMMA ServerStays ==
    ASSUME UNCHANGED vars
    PROVE  vals' = vals /\ req' = req /\ Answer' = Answer
BY DEF vars, cacheVars, serverVars, Answer, Decided

\* What a client does, and what it gives up when its connection fails.
LEMMA ClientServes ==
    ASSUME SInv, NetInv, NEW s \in Session,
           \/ Connect(s) \/ (\E c \in Calls : Begin(s, c)) \/ BeginFails(s)
           \/ Return(s) \/ Throw(s) \/ Leave(s) \/ Break(s)
    PROVE  Remote!RemoteNext \/ UNCHANGED Remote!remoteVars
<1>. USE DEF Become, Remote!Become
<1>1. /\ NetTypes /\ Lockstep(s) /\ HandlesItsRequest(s)
      /\ req[s] = NoRequest => Answer[s] = NoReply
      /\ toClient[s] # NoReply =>
            /\ req[s] = NoRequest /\ toServer[s] = NoRequest
            /\ Asked[s] = client[s] /\ Answered[s] = toClient[s]
      /\ toServer[s] = NoRequest /\ toClient[s] = NoReply =>
            Asked[s] = req[s] /\ Answered[s] = Answer[s]
      /\ toServer[s] # NoRequest => Answered[s] = NoReply
  BY Whereabouts DEF NetInv
<1>2. UNCHANGED vars /\ vals' = vals /\ req' = req /\ Answer' = Answer
  <2>1. UNCHANGED vars
    BY DEF Connect, Begin, BeginFails, Return, Throw, Leave, Break
  <2>. QED
    BY <2>1, ServerStays
<1>3. /\ Asked' = [Asked EXCEPT ![s] = Asked'[s]]
      /\ Answered' = [Answered EXCEPT ![s] = Answered'[s]]
  <2>1. \A t \in Session \ {s} :
           /\ client'[t] = client[t] /\ toServer'[t] = toServer[t]
           /\ toClient'[t] = toClient[t]
    BY <1>1 DEF NetTypes, Connect, Begin, BeginFails, Return, Throw, Leave, Break
  <2>. QED
    BY <1>2, <2>1, OthersStay
<1>4. Asked'[s] = IF toServer'[s] # NoRequest THEN toServer'[s]
                  ELSE IF toClient'[s] # NoReply THEN client'[s] ELSE req[s]
  BY <1>2 DEF Asked
<1>5. Answered'[s] = IF toClient'[s] # NoReply THEN toClient'[s] ELSE Answer[s]
  BY <1>2 DEF Answered
<1>6. /\ Asked = [Asked EXCEPT ![s] = Asked[s]]
      /\ Answered = [Answered EXCEPT ![s] = Answered[s]]
  BY DEF Asked, Answered
<1>7. ASSUME toServer' = toServer, toClient' = toClient, toClient[s] = NoReply
      PROVE  UNCHANGED Remote!vars
  <2>1. Asked'[s] = Asked[s] /\ Answered'[s] = Answered[s]
    BY <1>2, <1>4, <1>5, <1>7 DEF Asked, Answered
  <2>. QED
    BY <1>2, <1>3, <1>6, <2>1 DEF Remote!vars
<1>8. ASSUME toServer' = toServer, toClient' = [toClient EXCEPT ![s] = NoReply],
             toClient[s] # NoReply
      PROVE  Remote!Forget(s)
  <2>1. toServer'[s] = NoRequest /\ toClient'[s] = NoReply
    BY <1>1, <1>8 DEF NetTypes
  <2>2. Asked'[s] = NoRequest /\ Answered'[s] = NoReply
    BY <1>1, <1>4, <1>5, <1>8, <2>1
  <2>. QED
    BY <1>2, <1>3, <2>2 DEF Remote!Forget
<1>9. CASE Connect(s)
  <2>1. toClient[s] = NoReply /\ toServer[s] = NoRequest /\ req[s] = NoRequest
    BY <1>1, <1>9, CallFacts DEF Connect, Lockstep, HandlesItsRequest
  <2>2. UNCHANGED Remote!vars
    BY <1>7, <1>9, <2>1 DEF Connect
  <2>3. Remote!Connect(s)
    BY <1>1, <1>9, <2>1, <2>2 DEF Connect, Remote!Connect, Remote!Quiet
  <2>. QED
    BY <2>3 DEF Remote!RemoteNext
<1>10. ASSUME NEW c \in Calls, Begin(s, c)
       PROVE  Remote!RemoteNext
  <2>1. /\ client[s] \notin Calls \cup {NoClient}
        /\ toClient[s] = NoReply /\ toServer[s] = NoRequest /\ req[s] = NoRequest
    BY <1>1, <1>10, CallFacts DEF Begin, Up, Lockstep
  <2>2. /\ toServer'[s] = c /\ c # NoRequest /\ toClient' = toClient
        /\ client' = [client EXCEPT ![s] = c]
    BY <1>1, <1>10, CallFacts DEF Begin, NetTypes
  <2>3. Asked' = [Asked EXCEPT ![s] = c] /\ Answered' = Answered
    BY <1>1, <1>3, <1>4, <1>5, <1>6, <2>1, <2>2
  <2>4. Remote!Begin(s)
    BY <1>1, <1>2, <2>1, <2>2, <2>3 DEF Remote!Begin, Remote!Quiet
  <2>. QED
    BY <2>4 DEF Remote!RemoteNext
<1>11. CASE BeginFails(s)
  <2>1. client[s] # NoClient /\ toClient[s] = NoReply
    BY <1>1, <1>11, CallFacts DEF BeginFails, Lockstep
  <2>2. UNCHANGED Remote!vars
    BY <1>7, <1>11, <2>1 DEF BeginFails
  <2>3. Remote!Throw(s)
    BY <1>11, <2>1, <2>2 DEF BeginFails, Threw, Remote!Throw
  <2>. QED
    BY <2>3 DEF Remote!RemoteNext
<1>12. CASE Return(s)
  <2>1. Remote!Forget(s)
    BY <1>8, <1>12 DEF Return
  <2>2. /\ client[s] \in Calls
        /\ Asked[s] = client[s] /\ Answered[s] = toClient[s] /\ Answered[s] # NoReply
    BY <1>1, <1>12 DEF Return
  <2>3. Remote!Return(s)
    BY <1>12, <2>1, <2>2 DEF Return, Remote!Return
  <2>. QED
    BY <2>3 DEF Remote!RemoteNext
<1>13. CASE Throw(s) \/ Leave(s)
  <2>1. Remote!Forget(s) \/ UNCHANGED Remote!vars
    <3>1. CASE toClient[s] = NoReply
      <4>1. toClient' = toClient /\ toServer' = toServer
        BY <1>1, <1>13, <3>1 DEF Throw, Leave, NetTypes
      <4>. QED
        BY <1>7, <3>1, <4>1
    <3>2. CASE toClient[s] # NoReply
      BY <1>8, <1>13, <3>2 DEF Throw, Leave
    <3>. QED
      BY <3>1, <3>2
  <2>2. CASE Throw(s)
    <3>1. client[s] # NoClient
      BY <2>2, CallFacts DEF Throw
    <3>2. Remote!Throw(s)
      BY <2>1, <2>2, <3>1 DEF Throw, Threw, Remote!Throw
    <3>. QED
      BY <3>2 DEF Remote!RemoteNext
  <2>3. CASE Leave(s)
    <3>1. Remote!Leave(s)
      BY <2>1, <2>3 DEF Leave, Remote!Leave
    <3>. QED
      BY <3>1 DEF Remote!RemoteNext
  <2>. QED
    BY <1>13, <2>2, <2>3
<1>14. CASE Break(s)
  <2>1. client' = client /\ toServer' = toServer /\ toClient' = toClient
    BY <1>14 DEF Break
  <2>2. Asked' = Asked /\ Answered' = Answered
    BY <1>2, <2>1 DEF Asked, Answered
  <2>. QED
    BY <1>2, <2>1, <2>2 DEF Remote!remoteVars, Remote!vars
<1>. QED
  BY <1>9, <1>10, <1>11, <1>12, <1>13, <1>14

\* What a session does between two handlers: it takes a request over, puts a
\* response on its way, or loses either.
LEMMA SessionServes ==
    ASSUME SInv, NetInv, NEW s \in Session, Completion(s) \/ EndSession(s)
    PROVE  (\E t \in Session : Remote!Lose(t)) \/ UNCHANGED Remote!remoteVars
<1>. DEFINE Same == Asked' = Asked /\ Answered' = Answered
<1>1. /\ NetTypes /\ Lockstep(s) /\ Replies(s) /\ HandlesItsRequest(s)
      /\ req[s] = NoRequest => Answer[s] = NoReply
      /\ req[s] # NoRequest => toServer[s] = NoRequest /\ toClient[s] = NoReply
      /\ toClient[s] # NoReply => req[s] = NoRequest /\ toServer[s] = NoRequest
      /\ toServer[s] # NoRequest => req[s] = NoRequest /\ toClient[s] = NoReply
      /\ req \in [Session -> Request \cup {NoRequest}]
      /\ pc \in [Session -> Handling \cup {"closed", "read", "write"}]
  BY Whereabouts DEF NetInv, SInv, ServerTypes
<1>2. /\ Asked = [Asked EXCEPT ![s] = Asked[s]]
      /\ Answered = [Answered EXCEPT ![s] = Answered[s]]
  BY DEF Asked, Answered
<1>3. /\ Asked[s] = IF toServer[s] # NoRequest THEN toServer[s]
                    ELSE IF toClient[s] # NoReply THEN client[s] ELSE req[s]
      /\ Answered[s] = IF toClient[s] # NoReply THEN toClient[s] ELSE Answer[s]
  BY DEF Asked, Answered
<1>4. /\ Asked'[s] = IF toServer'[s] # NoRequest THEN toServer'[s]
                     ELSE IF toClient'[s] # NoReply THEN client'[s] ELSE req'[s]
      /\ Answered'[s] = IF toClient'[s] # NoReply THEN toClient'[s] ELSE Answer'[s]
  BY DEF Asked, Answered
<1>5. ASSUME vals' = vals, client' = client, Same
      PROVE  UNCHANGED Remote!remoteVars
  BY <1>5 DEF Remote!remoteVars, Remote!vars
<1>6. CASE AcceptConnection(s)
  <2>1. UNCHANGED Serial!vars
    BY <1>6, QuietSteps DEF AcceptConnection
  <2>. QED
    BY <1>6, <2>1, NothingMoves DEF AcceptConnection
<1>7. CASE TakeRequest(s)
  <2>1. /\ Serial!Ask(s) /\ toServer[s] # NoRequest /\ pc[s] = "read"
        /\ vals' = vals /\ req' = [req EXCEPT ![s] = toServer[s]]
        /\ client' = client /\ toClient' = toClient
        /\ toServer' = [toServer EXCEPT ![s] = NoRequest]
    BY <1>7, ReceiveAsks DEF TakeRequest, Receive, cacheVars
  <2>2. Answer' = Answer
    BY <2>1 DEF Serial!Ask
  <2>3. \A t \in Session \ {s} : toServer'[t] = toServer[t] /\ req'[t] = req[t]
    BY <1>1, <2>1 DEF NetTypes
  <2>4. /\ Asked' = [Asked EXCEPT ![s] = Asked'[s]]
        /\ Answered' = [Answered EXCEPT ![s] = Answered'[s]]
    BY <2>1, <2>2, <2>3, OthersStay
  <2>5. Asked'[s] = Asked[s] /\ Answered'[s] = Answered[s]
    <3>1. toServer'[s] = NoRequest /\ req'[s] = toServer[s] /\ toClient'[s] = NoReply
      BY <1>1, <2>1 DEF NetTypes
    <3>. QED
      BY <1>1, <1>3, <1>4, <2>1, <2>2, <3>1
  <2>. QED
    BY <1>2, <1>5, <2>1, <2>4, <2>5
<1>8. CASE CutRequest(s)
  <2>1. /\ UNCHANGED vars /\ client' = client
        /\ toServer' = toServer /\ toClient' = toClient
    BY <1>8 DEF CutRequest
  <2>2. vals' = vals /\ req' = req /\ Answer' = Answer
    BY <2>1, ServerStays
  <2>3. Same
    BY <2>1, <2>2 DEF Asked, Answered
  <2>. QED
    BY <1>5, <2>1, <2>2, <2>3
<1>9. CASE Respond(s)
  <2>1. /\ Serial!Forget(s) /\ pc[s] = "write"
        /\ client' = client /\ toServer' = toServer
        /\ toClient' = IF s \in linked THEN [toClient EXCEPT ![s] = reply[s]] ELSE toClient
    BY <1>9, ResponseForgets DEF Respond, Written
  <2>2. /\ vals' = vals /\ req' = [req EXCEPT ![s] = NoRequest]
        /\ Answer' = [Answer EXCEPT ![s] = NoReply]
    BY <2>1 DEF Serial!Forget
  <2>3. /\ req[s] \in Calls /\ req[s] # NoRequest
        /\ toServer[s] = NoRequest /\ toClient[s] = NoReply
        /\ reply[s] \in Reply /\ reply[s] # NoReply /\ Answer[s] = reply[s]
    BY <1>1, <2>1, CallFacts DEF Replies, Answer
  <2>4. req'[s] = NoRequest /\ Answer'[s] = NoReply
    <3>1. Answer[s] = Answer[s] /\ DOMAIN Answer = Session
      BY DEF Answer
    <3>. QED
      BY <1>1, <2>2, <3>1
  <2>5. \A t \in Session \ {s} :
           toClient'[t] = toClient[t] /\ req'[t] = req[t] /\ Answer'[t] = Answer[t]
    <3>1. DOMAIN Answer = Session
      BY DEF Answer
    <3>. QED
      BY <1>1, <2>1, <2>2, <3>1 DEF NetTypes
  <2>6. /\ Asked' = [Asked EXCEPT ![s] = Asked'[s]]
        /\ Answered' = [Answered EXCEPT ![s] = Answered'[s]]
    BY <2>1, <2>5, OthersStay
  <2>7. CASE s \in linked
    <3>1. client[s] = req[s]
      BY <1>1, <2>3, <2>7 DEF Lockstep
    <3>2. toClient'[s] = reply[s]
      BY <1>1, <2>1, <2>7 DEF NetTypes
    <3>3. Asked'[s] = Asked[s] /\ Answered'[s] = Answered[s]
      BY <1>3, <1>4, <2>1, <2>3, <3>1, <3>2
    <3>. QED
      BY <1>2, <1>5, <2>1, <2>2, <2>6, <3>3
  <2>8. CASE s \notin linked
    <3>1. Asked'[s] = NoRequest /\ Answered'[s] = NoReply
      BY <1>4, <2>1, <2>3, <2>4, <2>8
    <3>2. Remote!Lose(s)
      BY <2>1, <2>2, <2>6, <3>1 DEF Remote!Lose, Remote!Forget
    <3>. QED
      BY <3>2
  <2>. QED
    BY <2>7, <2>8
<1>10. CASE EndSession(s)
  <2>1. /\ Serial!Forget(s) /\ client' = client /\ toClient' = toClient
        /\ toServer' = [toServer EXCEPT ![s] = NoRequest]
    BY <1>10, ResponseForgets DEF EndSession
  <2>2. /\ vals' = vals /\ req' = [req EXCEPT ![s] = NoRequest]
        /\ Answer' = [Answer EXCEPT ![s] = NoReply]
    BY <2>1 DEF Serial!Forget
  <2>3. DOMAIN Answer = Session
    BY DEF Answer
  <2>4. req'[s] = NoRequest /\ Answer'[s] = NoReply /\ toServer'[s] = NoRequest
    BY <1>1, <2>1, <2>2, <2>3 DEF NetTypes
  <2>5. \A t \in Session \ {s} :
           toServer'[t] = toServer[t] /\ req'[t] = req[t] /\ Answer'[t] = Answer[t]
    BY <1>1, <2>1, <2>2, <2>3 DEF NetTypes
  <2>6. /\ Asked' = [Asked EXCEPT ![s] = Asked'[s]]
        /\ Answered' = [Answered EXCEPT ![s] = Answered'[s]]
    BY <2>1, <2>5, OthersStay
  <2>7. CASE toClient[s] = NoReply
    <3>1. Asked'[s] = NoRequest /\ Answered'[s] = NoReply
      BY <1>4, <2>1, <2>4, <2>7
    <3>2. Remote!Lose(s)
      BY <2>1, <2>2, <2>6, <3>1 DEF Remote!Lose, Remote!Forget
    <3>. QED
      BY <3>2
  <2>8. CASE toClient[s] # NoReply
    <3>1. Asked'[s] = Asked[s] /\ Answered'[s] = Answered[s]
      BY <1>1, <1>3, <1>4, <2>1, <2>4, <2>8
    <3>. QED
      BY <1>2, <1>5, <2>1, <2>2, <2>6, <3>1
  <2>. QED
    BY <2>7, <2>8
<1>. QED
  BY <1>6, <1>7, <1>8, <1>9, <1>10 DEF Completion
----------------------------------------------------------------------------
LEMMA StepIsRemote ==
    ASSUME NoOverflow, IInv, IInv', SInv, OneThreadInv, NetInv, [SystemNext]_systemVars
    PROVE  [Remote!RemoteNext]_(Remote!remoteVars)
<1>1. CASE UNCHANGED systemVars
  <2>1. UNCHANGED vars /\ UNCHANGED netVars
    BY <1>1 DEF systemVars
  <2>2. UNCHANGED Serial!vars
    BY <2>1, ServerStays DEF Serial!vars
  <2>. QED
    BY <2>1, <2>2, NothingMoves
<1>2. ASSUME NEW s \in Session,
             \/ Connect(s) \/ (\E c \in Calls : Begin(s, c)) \/ BeginFails(s)
             \/ Return(s) \/ Throw(s) \/ Leave(s) \/ Break(s)
      PROVE  Remote!RemoteNext \/ UNCHANGED Remote!remoteVars
  BY <1>2, ClientServes
<1>3. ASSUME NEW s \in Session, Completion(s) \/ EndSession(s)
      PROVE  Remote!RemoteNext \/ UNCHANGED Remote!remoteVars
  BY <1>3, SessionServes DEF Remote!RemoteNext
<1>4. ASSUME NEW s \in Session, Handler(s)
      PROVE  Remote!RemoteNext \/ UNCHANGED Remote!remoteVars
  BY <1>4, HandlerServes DEF Remote!RemoteNext
<1>. QED
  BY <1>1, <1>2, <1>3, <1>4 DEF SystemNext

LEMMA OneThreadInside ==
    ASSUME NThreads = 1
    PROVE  SystemSpec => []OneThreadInv
<1>1. SystemInit => OneThreadInv
  BY OneThreadInit, ServerInsideInit
<1>2. SInv /\ OneThreadInv /\ [SystemNext]_systemVars => OneThreadInv'
  BY OneThreadStep, SystemStepIsServerStep
<1>. QED
  BY <1>1, <1>2, ServerInside, PTL DEF SystemSpec

\* With one thread, and no sum of sizes that wraps around, clients that call
\* through connections which may break at any time see a serial store: a call
\* that returns has been carried out once since it began and returns what came
\* of it, and one that throws has been carried out at most once, maybe later.
THEOREM SystemIsRemoteCache ==
    ASSUME NoOverflow, NThreads = 1
    PROVE  SystemSpec => ImplementsRemoteCache
<1>1. SystemInit => Remote!RemoteInit
  <2>1. SystemInit => Asked = [s \in Session |-> NoRequest]
    BY DEF SystemInit, ServerInit, Asked
  <2>2. SystemInit => Answered = [s \in Session |-> NoReply]
    BY DEF SystemInit, ServerInit, Answered, Answer
  <2>. QED
    BY <2>1, <2>2 DEF SystemInit, ServerInit, Init, Remote!RemoteInit, Remote!Init
<1>2. IInv /\ IInv' /\ SInv /\ OneThreadInv /\ NetInv /\ [SystemNext]_systemVars
        => [Remote!RemoteNext]_(Remote!remoteVars)
  BY StepIsRemote
<1>. QED
  BY <1>1, <1>2, CacheInside, ServerInside, OneThreadInside, NetInvariant, PTL
     DEF SystemSpec, ImplementsRemoteCache, Remote!RemoteSpec
----------------------------------------------------------------------------
(* The client library without its own text format: with no ',' or ':' in   *)
(* keys and values, get() returns what the store held.                     *)

\* No response on its way from the store to a client has a size that is too
\* large for stoi.
LEMMA AnswersFitInt ==
    ASSUME FitsInt(MaxMem), SInv, NetInv, SizesInv, NEW s \in Session,
           Answered[s] # NoReply, Answered[s].kind \in {"found", "space"}
    PROVE  FitsInt(Answered[s].size)
<1>1. /\ Measured(s) /\ Received(s) /\ HandlesItsRequest(s) /\ MaxMem \in Nat
      /\ reply \in [Session -> Reply \cup {NoReply}]
      /\ found \in [Session -> Val \cup {Absent}]
      /\ toClient[s] \in Reply \cup {NoReply}
  BY DEF SizesInv, SInv, ServerTypes, NetInv, NetTypes, Size
<1>2. ASSUME NEW n \in Nat, n <= MaxMem
      PROVE  FitsInt(n)
  <2>1. SizeMod \in Nat
    OBVIOUS
  <2>. QED
    BY <1>1, <1>2, <2>1 DEF FitsInt
<1>3. \A r \in Reply : r.size \in Nat
  BY DEF Reply, Size
<1>4. CASE toClient[s] # NoReply
  <2>1. Answered[s] = toClient[s]
    BY <1>4 DEF Answered
  <2>. QED
    BY <1>1, <1>2, <1>3, <1>4, <2>1 DEF Received, Bearable
<1>5. CASE toClient[s] = NoReply /\ pc[s] = "write"
  <2>1. Answered[s] = reply[s]
    BY <1>5 DEF Answered, Answer
  <2>. QED
    BY <1>1, <1>2, <1>3, <1>5, <2>1 DEF Measured, Bearable
<1>6. CASE toClient[s] = NoReply /\ pc[s] \in {"unlock", "copy", "check"}
  <2>1. Answered[s] = Decided(s) /\ req[s].verb \in Locking
    BY <1>1, <1>6 DEF Answered, Answer, HandlesItsRequest, Locking
  <2>2. req[s].verb = "GET" /\ found[s] # Absent /\ Answered[s].size = SizeOf[found[s]]
    BY <1>1, <1>6, <2>1 DEF Decided, Status, Locking, HandlesItsRequest
  <2>3. SizeOf[found[s]] \in Nat
    BY <1>1, <2>2 DEF Size
  <2>. QED
    BY <1>1, <1>2, <2>2, <2>3 DEF Measured
<1>. QED
  BY <1>4, <1>5, <1>6 DEF Answered, Answer

\* The two abstract stores differ in nothing but what a call returns.
LEMMA SameButForReturn ==
    ASSUME NEW s \in Session
    PROVE  /\ Remote!Connect(s) => Promised!Connect(s)
           /\ Remote!Begin(s) => Promised!Begin(s)
           /\ Remote!Serve(s) => Promised!Serve(s)
           /\ Remote!Throw(s) => Promised!Throw(s)
           /\ Remote!Leave(s) => Promised!Leave(s)
           /\ Remote!Lose(s) => Promised!Lose(s)
<1>1. /\ Remote!Connect(s) => Promised!Connect(s)
      /\ Remote!Begin(s) => Promised!Begin(s)
  BY DEF Remote!Connect, Promised!Connect, Remote!Begin, Promised!Begin, Remote!Quiet,
         Promised!Quiet, Remote!Become, Promised!Become, Remote!vars, Promised!vars
<1>2. /\ Remote!Throw(s) => Promised!Throw(s)
      /\ Remote!Leave(s) => Promised!Leave(s)
      /\ Remote!Lose(s) => Promised!Lose(s)
  BY DEF Remote!Throw, Promised!Throw, Remote!Leave, Promised!Leave, Remote!Lose,
         Promised!Lose, Remote!Forget, Promised!Forget, Remote!Become, Promised!Become,
         Remote!vars, Promised!vars
<1>3. \A st : Remote!SpaceOf(Remote!SizesIn(st)) = Promised!SpaceOf(Promised!SizesIn(st))
  <2>. SUFFICES ASSUME NEW st
                PROVE  Remote!SpaceOf(Remote!SizesIn(st)) = Promised!SpaceOf(Promised!SizesIn(st))
    OBVIOUS
  <2>1. Remote!SizesIn(st) = Promised!SizesIn(st)
    BY DEF Remote!SizesIn, Promised!SizesIn
  <2>. DEFINE sz == Promised!SizesIn(st)
  <2>2. Remote!Bytes(sz) = Promised!Bytes(sz)
    BY DEF Remote!Bytes, Promised!Bytes, Remote!Present, Promised!Present, Remote!Row,
           Promised!Row
  <2>3. Remote!SpaceOf(sz) = Promised!SpaceOf(sz)
    BY <2>2 DEF Remote!SpaceOf, Promised!SpaceOf, Remote!Cardinality, Promised!Cardinality
  <2>. QED
    BY <2>1, <2>3
<1>4. \A st : Remote!FitsIn(st) = Promised!FitsIn(st)
  BY <1>3 DEF Remote!FitsIn, Promised!FitsIn
<1>5. /\ Remote!With(s) = Promised!With(s)
      /\ \A verb : Remote!Pending(s, verb) = Promised!Pending(s, verb)
      /\ \A kind, val, size : Remote!Say(s, kind, val, size) = Promised!Say(s, kind, val, size)
  BY DEF Remote!With, Promised!With, Remote!Pending, Promised!Pending, Remote!Say, Promised!Say
<1>6. /\ Remote!Put(s) => Promised!Put(s)
      /\ \A k \in Key : Remote!MakeRoom(s, k) => Promised!MakeRoom(s, k)
  BY <1>4, <1>5 DEF Remote!Put, Promised!Put, Remote!MakeRoom, Promised!MakeRoom
<1>7. /\ Remote!Get(s) => Promised!Get(s)
      /\ Remote!Delete(s) => Promised!Delete(s)
      /\ Remote!ResetCache(s) => Promised!ResetCache(s)
  BY <1>5 DEF Remote!Get, Promised!Get, Remote!Delete, Promised!Delete,
              Remote!ResetCache, Promised!ResetCache
<1>8. Remote!HeadSpace(s) => Promised!HeadSpace(s)
  BY <1>3, <1>5 DEF Remote!HeadSpace, Promised!HeadSpace
<1>9. Remote!Serve(s) => Promised!Serve(s)
  BY <1>6, <1>7, <1>8 DEF Remote!Serve, Promised!Serve
<1>. QED
  BY <1>1, <1>2, <1>9

LEMMA StepIsPromised ==
    ASSUME Garbles = {}, FitsInt(MaxMem), SInv, NetInv, SizesInv,
           [Remote!RemoteNext]_(Remote!remoteVars)
    PROVE  [Promised!RemoteNext]_(Promised!remoteVars)
<1>1. ASSUME NEW s \in Session, Remote!Return(s)
      PROVE  Promised!Return(s)
  <2>1. Answered[s] # NoReply
    BY <1>1 DEF Remote!Return
  <2>2. Parsed(client[s], Answered[s]) = Literally(client[s], Answered[s])
    BY <2>1, AnswersFitInt DEF Parsed, ReadValue, ReadSize, Literally
  <2>. QED
    BY <1>1, <2>2 DEF Remote!Return, Promised!Return, Remote!Become, Promised!Become,
                      Remote!Forget, Promised!Forget
<1>2. UNCHANGED Remote!remoteVars => UNCHANGED Promised!remoteVars
  BY DEF Remote!remoteVars, Promised!remoteVars, Remote!vars, Promised!vars
<1>. QED
  BY <1>1, <1>2, SameButForReturn DEF Remote!RemoteNext, Promised!RemoteNext

LEMMA SizesInside ==
    ASSUME NoOverflow, FitsInt(MaxMem)
    PROVE  SystemSpec => []SizesInv
<1>1. SystemInit => SizesInv
  BY SizesInit
<1>2. IInv /\ SInv /\ NetInv /\ SizesInv /\ [SystemNext]_systemVars => SizesInv'
  BY SizesStep
<1>. QED
  BY <1>1, <1>2, CacheInside, ServerInside, NetInvariant, PTL DEF SystemSpec

\* If no key or value has a ',' or a ':' in it and maxmem fits in an int, the
\* calls of the client library keep the promise of cache.hh: one that returns,
\* returns what the store held at the moment it was carried out.
THEOREM PlainTextComesBack ==
    ASSUME NoOverflow, NThreads = 1, FitsInt(MaxMem), Garbles = {}
    PROVE  SystemSpec => ReturnsWhatIsHeld
<1>1. Remote!RemoteInit => Promised!RemoteInit
  BY DEF Remote!RemoteInit, Promised!RemoteInit, Remote!Init, Promised!Init
<1>2. SInv /\ NetInv /\ SizesInv /\ [Remote!RemoteNext]_(Remote!remoteVars)
        => [Promised!RemoteNext]_(Promised!remoteVars)
  BY StepIsPromised
<1>3. SystemSpec => Remote!RemoteSpec
  BY SystemIsRemoteCache DEF ImplementsRemoteCache
<1>. QED
  BY <1>1, <1>2, <1>3, ServerInside, NetInvariant, SizesInside, PTL
     DEF SystemSpec, Remote!RemoteSpec, ReturnsWhatIsHeld, Promised!RemoteSpec
=============================================================================
