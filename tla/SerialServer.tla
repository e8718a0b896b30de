---------------------------- MODULE SerialServer ----------------------------
(***************************************************************************)
(* What clients may rely on, stated without threads, mutex, counter or     *)
(* eviction order: each request is carried out in one step, at some moment *)
(* between its arrival and its response, on a store with an allowance.     *)
(* Entries disappear only to make room for a value that does not fit yet.  *)
(***************************************************************************)
EXTENDS Space

CONSTANTS
    Val,        \* payloads, each with the size its caller declares for it
    SizeOf,     \* the declared size of each payload
    MaxMem,     \* the allowance for values
    Session,    \* connections
    NoRequest,  \* a session that has nothing to do
    NoReply     \* a session whose request has not been carried out

VARIABLES
    store,    \* the payload under each key, or Absent
    asked,    \* the request of each session
    answer    \* its response, once it has been carried out

vars == <<store, asked, answer>>

SizesIn(st) == [k \in Key |-> IF st[k] = Absent THEN Absent ELSE SizeOf[st[k]]]
FitsIn(st) == SpaceOf(SizesIn(st)) <= MaxMem

Init ==
    /\ store = [k \in Key |-> Absent]
    /\ asked = [s \in Session |-> NoRequest]
    /\ answer = [s \in Session |-> NoReply]

\* A request arrives.
Ask(s) ==
    /\ asked[s] = NoRequest
    /\ asked' = [asked EXCEPT ![s] = asked'[s]]
    /\ UNCHANGED <<store, answer>>

\* The response is out, or the connection is lost.
Forget(s) ==
    /\ asked' = [asked EXCEPT ![s] = NoRequest]
    /\ answer' = [answer EXCEPT ![s] = NoReply]
    /\ UNCHANGED store

Pending(s, verb) ==
    /\ asked[s] # NoRequest
    /\ asked[s].verb = verb
    /\ answer[s] = NoReply

Say(s, kind, val, size) ==
    /\ answer' = [answer EXCEPT ![s] = [kind |-> kind, val |-> val, size |-> size]]
    /\ UNCHANGED asked

\* The store with the value of a PUT in it.
With(s) == [store EXCEPT ![asked[s].key] = asked[s].val]

\* A value goes in if everything then held fits.  It is left out only if it
\* does not.
Put(s) ==
    /\ Pending(s, "PUT")
    /\ store' = IF FitsIn(With(s)) THEN With(s) ELSE store
    /\ Say(s, "ok", Absent, 0)

\* An entry is dropped for the sake of a PUT that is waiting for space.
MakeRoom(s, k) ==
    /\ Pending(s, "PUT")
    /\ SizeOf[asked[s].val] <= MaxMem
    /\ ~FitsIn(With(s))
    /\ store' = [store EXCEPT ![k] = Absent]
    /\ UNCHANGED <<asked, answer>>

Get(s) ==
    LET v == store[asked[s].key]
    IN  /\ Pending(s, "GET")
        /\ IF v = Absent THEN Say(s, "null", Absent, 0) ELSE Say(s, "found", v, SizeOf[v])
        /\ UNCHANGED store

Delete(s) ==
    LET k == asked[s].key
    IN  /\ Pending(s, "DELETE")
        /\ store' = [store EXCEPT ![k] = Absent]
        /\ Say(s, IF store[k] = Absent THEN "false" ELSE "true", Absent, 0)

ResetCache(s) ==
    /\ Pending(s, "RESET")
    /\ store' = [k \in Key |-> Absent]
    /\ Say(s, "ok", Absent, 0)

HeadSpace(s) ==
    /\ Pending(s, "HEAD")
    /\ Say(s, "space", Absent, SpaceOf(SizesIn(store)))
    /\ UNCHANGED store

Refuse(s) ==
    /\ \/ Pending(s, "POST") /\ Say(s, "notFound", Absent, 0)
       \/ Pending(s, "OTHER") /\ Say(s, "badRequest", Absent, 0)
    /\ UNCHANGED store

Next ==
    \E s \in Session :
        \/ Ask(s)
        \/ Forget(s)
        \/ Put(s)
        \/ \E k \in Key : MakeRoom(s, k)
        \/ Get(s)
        \/ Delete(s)
        \/ ResetCache(s)
        \/ HeadSpace(s)
        \/ Refuse(s)

Spec == Init /\ [][Next]_vars
============================================================================
