---------------------------- MODULE RemoteCache ----------------------------
(***************************************************************************)
(* What the calls of the client library promise, stated without server     *)
(* handlers and without messages: a serial store (SerialServer) and a      *)
(* caller at each connection.  A call is carried out at most once, whether *)
(* it returns or throws; one that returns has been carried out exactly     *)
(* once since it began, and returns what Parsed makes of its response.     *)
(***************************************************************************)
EXTENDS SerialServer

CONSTANTS
    Calls,          \* the requests that calls send
    Parsed(_, _),   \* what a call may make of a response
    NoClient,       \* a connection that no Cache object uses
    Connected,      \* a Cache object that has made no call yet
    Threw           \* what a call has come to that threw

VARIABLE client   \* the call in progress at each connection, or its outcome

remoteVars == <<vars, client>>

RemoteInit == Init /\ client = [s \in Session |-> NoClient]

\* Nothing of this connection is waiting to be carried out or returned.
Quiet(s) == asked[s] = NoRequest /\ answer[s] = NoReply

Become(s, c) == client' = [client EXCEPT ![s] = c]

Connect(s) ==
    /\ client[s] = NoClient
    /\ Quiet(s)
    /\ Become(s, Connected)
    /\ UNCHANGED vars

Begin(s) ==
    /\ client[s] \notin Calls \cup {NoClient}
    /\ Quiet(s)
    /\ \E c \in Calls :
          /\ Become(s, c)
          /\ asked' = [asked EXCEPT ![s] = c]
    /\ UNCHANGED <<store, answer>>

Serve(s) ==
    /\ \/ Put(s)
       \/ \E k \in Key : MakeRoom(s, k)
       \/ Get(s)
       \/ Delete(s)
       \/ ResetCache(s)
       \/ HeadSpace(s)
    /\ UNCHANGED client

Return(s) ==
    /\ client[s] \in Calls
    /\ asked[s] = client[s]
    /\ answer[s] # NoReply
    /\ \E outcome \in Parsed(client[s], answer[s]) : Become(s, outcome)
    /\ Forget(s)

\* The connection is lost: the call throws.  What it asked for may still be
\* carried out after that.
Throw(s) ==
    /\ client[s] # NoClient
    /\ Become(s, Threw)
    /\ Forget(s) \/ UNCHANGED vars

Leave(s) ==
    /\ client[s] # NoClient
    /\ Become(s, NoClient)
    /\ Forget(s) \/ UNCHANGED vars

\* A request or a response is lost.
Lose(s) == Forget(s) /\ UNCHANGED client

RemoteNext ==
    \E s \in Session :
        \/ Connect(s)
        \/ Begin(s)
        \/ Serve(s)
        \/ Return(s)
        \/ Throw(s)
        \/ Leave(s)
        \/ Lose(s)

RemoteSpec == RemoteInit /\ [][RemoteNext]_remoteVars
============================================================================
