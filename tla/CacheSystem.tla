---------------------------- MODULE CacheSystem ----------------------------
(***************************************************************************)
(* The whole system: the client library (cache_client.cc), the connections *)
(* and the server.  A Cache object of the client owns one connection; each *)
(* of its calls writes a request, then blocks until it has read a response *)
(* or the connection has failed.  The listener turns a connection into a   *)
(* session.  The network may break any connection at any time; what is in  *)
(* transit then may arrive or not.                                         *)
(***************************************************************************)
EXTENDS CacheServer

CONSTANTS
    NoClient,   \* a connection that no Cache object uses
    Garbles     \* the keys and values that contain a ',' or a ':'

VARIABLES
    client,     \* the call in progress at each connection, or its outcome
    linked,     \* the connections that neither side has seen fail or close
    toServer,   \* the request in transit on each connection
    toClient,   \* the response in transit on each connection
    cut         \* an assertion on the number of parts of a body has failed

netVars == <<client, linked, toServer, toClient, cut>>
systemVars == <<vars, netVars>>

\* Any set, get or del whose key or value contains a '/'.
Cut == [verb |-> "CUT", key |-> NoKey, val |-> Absent]

\* The requests of cache_client.cc: reset() is the only POST.
Calls == {r \in Request : r.verb \notin {"POST", "OTHER"}} \cup {Cut}

Connected == Status("connected")
Threw == Status("threw")
Garbled == Status("garbled")      \* get() returned a wrong value and size
OutOfRange == Status("range")     \* stoi threw

Outcome == Reply \cup {Connected, Threw, Garbled, OutOfRange}

ASSUME SystemAssumption ==
    /\ NoRequest # Cut
    /\ Garbles \subseteq Key \cup Val
    /\ NoClient \notin Calls \cup Outcome
    /\ Calls \cap Outcome = {}
    /\ NoReply \notin Reply

SystemTypeOK ==
    /\ ServerTypeOK
    /\ client \in [Session -> Calls \cup Outcome \cup {NoClient}]
    /\ linked \subseteq Session
    /\ toServer \in [Session -> Calls \cup {NoRequest}]
    /\ toClient \in [Session -> Reply \cup {NoReply}]
    /\ cut \in BOOLEAN

SystemInit ==
    /\ ServerInit
    /\ client = [s \in Session |-> NoClient]
    /\ linked = {}
    /\ toServer = [s \in Session |-> NoRequest]
    /\ toClient = [s \in Session |-> NoReply]
    /\ cut = FALSE
----------------------------------------------------------------------------
(* The client library                                                      *)

Become(s, c) == client' = [client EXCEPT ![s] = c]

\* stoi reads into an int, half as wide as a size_type.
FitsInt(n) == n < SizeMod \div 2

\* space_used(): the number in the header.  The characters behind it, which
\* data() does not cut off, are no digits, and stoi stops at them.
ReadSize(response) == IF FitsInt(response.size) THEN {response} ELSE {OutOfRange}

\* get(): cuts the body at every ',' and ':' and takes two fields by position.
ReadValue(call, response) ==
    IF {call.key, response.val} \cap Garbles # {}
      THEN {Garbled, Threw}
      ELSE ReadSize(response)

\* What a call returns or throws when it has read this response.
Parsed(call, response) ==
    CASE response.kind = "found" -> ReadValue(call, response)
      [] response.kind = "space" -> ReadSize(response)
      [] OTHER -> {response}

\* The server is there.
Serving == Alive /\ ~cut

\* The constructor: resolves and connects.
Connect(s) ==
    /\ Serving
    /\ client[s] = NoClient
    /\ pc[s] = "closed"
    /\ toServer[s] = NoRequest
    /\ Become(s, Connected)
    /\ linked' = linked \cup {s}
    /\ UNCHANGED <<vars, toServer, toClient, cut>>

Up(s) == s \in linked /\ ~aborted /\ ~cut

\* set, get, del, space_used, reset: http::write.  It throws, or the read
\* after it does, on a connection that has failed before.
Begin(s, c) ==
    /\ client[s] \in Outcome
    /\ Up(s)
    /\ Become(s, c)
    /\ toServer' = [toServer EXCEPT ![s] = c]
    /\ UNCHANGED <<vars, linked, toClient, cut>>

BeginFails(s) ==
    /\ client[s] \in Outcome
    /\ ~Up(s)
    /\ Become(s, Threw)
    /\ linked' = linked \ {s}
    /\ UNCHANGED <<vars, toServer, toClient, cut>>

\* http::read has a response.
ReturnUnread(s) ==   \* faulty: set() does not wait for its response
    /\ client[s] \in Calls
    /\ \/ toClient[s] # NoReply
       \/ client[s].verb = "PUT"
    /\ \E outcome \in IF toClient[s] # NoReply THEN Parsed(client[s], toClient[s])
                      ELSE {Status("ok")} : Become(s, outcome)
    /\ toClient' = [toClient EXCEPT ![s] = NoReply]
    /\ UNCHANGED <<vars, linked, toServer, cut>>

Return(s) ==
    /\ client[s] \in Calls
    /\ toClient[s] # NoReply
    /\ \E outcome \in Parsed(client[s], toClient[s]) : Become(s, outcome)
    /\ toClient' = [toClient EXCEPT ![s] = NoReply]
    /\ UNCHANGED <<vars, linked, toServer, cut>>

\* http::read finds the connection closed or reset.
Throw(s) ==
    /\ client[s] \in Calls
    /\ ~Up(s)
    /\ Become(s, Threw)
    /\ linked' = linked \ {s}
    /\ toClient' = [toClient EXCEPT ![s] = NoReply]
    /\ UNCHANGED <<vars, toServer, cut>>

\* The destructor between two calls, or the death of the client's process.
Leave(s) ==
    /\ client[s] # NoClient
    /\ Become(s, NoClient)
    /\ linked' = linked \ {s}
    /\ toClient' = [toClient EXCEPT ![s] = NoReply]
    /\ UNCHANGED <<vars, toServer, cut>>

Break(s) ==
    /\ s \in linked
    /\ linked' = linked \ {s}
    /\ UNCHANGED <<vars, client, toServer, toClient, cut>>
----------------------------------------------------------------------------
(* The server's side of a connection                                       *)

\* on_accept, then do_accept again: connections wait in the backlog, maybe
\* with a request in them, until a thread takes them.
AcceptConnection(s) ==
    /\ s \in linked \/ toServer[s] # NoRequest
    /\ Accept(s)
    /\ UNCHANGED netVars

TakeRequestKept(s) ==   \* faulty: the request is not consumed
    /\ toServer[s] \in Request
    /\ Receive(s, toServer[s])
    /\ UNCHANGED netVars

TakeRequest(s) ==
    /\ toServer[s] \in Request
    /\ Receive(s, toServer[s])
    /\ toServer' = [toServer EXCEPT ![s] = NoRequest]
    /\ UNCHANGED <<client, linked, toClient, cut>>

\* assert(splitBody.size() == ...): a '/' too many in the body.
CutRequest(s) ==
    /\ ThreadFree
    /\ pc[s] = "read"
    /\ toServer[s] = Cut
    /\ cut' = TRUE
    /\ UNCHANGED <<vars, client, linked, toServer, toClient>>

\* The bytes of the response leave; nobody reads them if the client is gone.
Respond(s) ==
    /\ Written(s)
    /\ toClient' = IF s \in linked THEN [toClient EXCEPT ![s] = reply[s]] ELSE toClient
    /\ UNCHANGED <<client, linked, toServer, cut>>

EndSessionLeaks(s) ==   \* faulty: a reference is left, and the socket stays open
    /\ End(s)
    /\ toServer' = [toServer EXCEPT ![s] = NoRequest]
    /\ UNCHANGED <<client, linked, toClient, cut>>

\* The session's last reference goes, and its socket with it: unread requests
\* are lost, but a response that is already out may still be read.
EndSession(s) ==
    /\ End(s)
    /\ linked' = linked \ {s}
    /\ toServer' = [toServer EXCEPT ![s] = NoRequest]
    /\ UNCHANGED <<client, toClient, cut>>

\* The completion handlers of a connection, and the handler of a request.
Completion(s) ==
    /\ ~cut
    /\ AcceptConnection(s) \/ TakeRequest(s) \/ CutRequest(s) \/ Respond(s)

Handler(s) == ~cut /\ Handle(s) /\ UNCHANGED netVars
----------------------------------------------------------------------------
SystemNext ==
    \E s \in Session :
        \/ Connect(s)
        \/ \E c \in Calls : Begin(s, c)
        \/ BeginFails(s)
        \/ Return(s)
        \/ Throw(s)
        \/ Leave(s)
        \/ Break(s)
        \/ Completion(s)
        \/ Handler(s)
        \/ ~cut /\ EndSession(s)

\* The io_context runs completion handlers in the order in which they are
\* queued, so one that is ready again and again, whenever a thread is free,
\* gets its turn: strong fairness.  A client whose response or failure has
\* arrived goes on.  Nobody is obliged to call, and no connection to last.
SystemFairness ==
    \A s \in Session :
       /\ WF_systemVars(Handler(s))
       /\ SF_systemVars(Completion(s))
       /\ WF_systemVars(Return(s) \/ Throw(s))

SystemSpec == SystemInit /\ [][SystemNext]_systemVars /\ SystemFairness
----------------------------------------------------------------------------
(* Properties                                                              *)

\* The kinds of response that answer a call.
Suits(call, kind) ==
    \/ call.verb \in {"PUT", "RESET"} /\ kind = "ok"
    \/ call.verb = "GET" /\ kind \in {"found", "null"}
    \/ call.verb = "DELETE" /\ kind \in {"true", "false"}
    \/ call.verb = "HEAD" /\ kind = "space"

\* Requests carry no number, and a call takes the first response it reads:
\* while a connection is up, the one request or response on it belongs to the
\* call in progress, and there is none between calls.
InLockstep ==
    \A s \in Session :
        /\ s \in linked /\ client[s] \notin Calls =>
              toServer[s] = NoRequest /\ req[s] = NoRequest /\ toClient[s] = NoReply
        /\ s \in linked /\ client[s] \in Calls /\ toClient[s] = NoReply =>
              \/ toServer[s] = client[s] /\ req[s] = NoRequest
              \/ toServer[s] = NoRequest /\ req[s] = client[s]
        /\ toClient[s] # NoReply =>
              /\ toServer[s] = NoRequest
              /\ req[s] = NoRequest
              /\ client[s] \in Calls
              /\ Suits(client[s], toClient[s].kind)

\* stoi never throws: what the server stores and counts fits in an int.
SizesFitInt == \A s \in Session : client[s] # OutOfRange

\* A call returns or throws, although it has no timeout: whatever breaks or
\* aborts on the way, and whatever the other clients do.
CallsEnd ==
    \A s \in Session : client[s] \in Calls ~> client[s] \notin Calls \/ status = "undefined"

\* The request of a connection that may still be carried out, or has been.
Asked ==
    [s \in Session |->
        IF toServer[s] # NoRequest THEN toServer[s]
        ELSE IF toClient[s] # NoReply THEN client[s]
        ELSE req[s]]

Answered ==
    [s \in Session |-> IF toClient[s] # NoReply THEN toClient[s] ELSE Answer[s]]

Remote == INSTANCE RemoteCache WITH store <- vals, asked <- Asked, answer <- Answered

\* Seen from the callers, client library, connections and a server with one
\* thread are a serial store: no call is carried out twice, before it began
\* or with another's response, even if connections break and sessions end.
\* What get() makes of its response (Parsed) is left as it is here.
ImplementsRemoteCache == Remote!RemoteSpec

\* The response as it is: the value that the store held, and its size.
Literally(call, response) == {response}

Promised == INSTANCE RemoteCache
    WITH store <- vals, asked <- Asked, answer <- Answered, Parsed <- Literally

\* "Retrieve a pointer to the value associated with key in the cache [...]
\* Sets the actual size of the returned value" (cache.hh): the same store,
\* and a call that returns, returns what its response holds.
ReturnsWhatIsHeld == Promised!RemoteSpec
============================================================================
