---------------------------- MODULE SerialProofs ----------------------------
(***************************************************************************)
(* With one thread, the server implements the serial server.  With any     *)
(* number of them it still does, but for the values that GETs copy.        *)
(***************************************************************************)
EXTENDS CacheServerProofs

USE CacheAssumption, ServerAssumption

\* SerialServer measures a store as Space does.
LEMMA SameSpace ==
    ASSUME NEW sz
    PROVE  Serial!SpaceOf(sz) = SpaceOf(sz)
<1>1. Serial!Bytes(sz) = Bytes(sz)
  BY DEF Serial!Bytes, Bytes, Serial!Present, Present, Serial!Row, Row
<1>. QED
  BY <1>1 DEF Serial!SpaceOf, SpaceOf, Serial!Cardinality, Cardinality

LEMMA SizesOfStore ==
    ASSUME Structure
    PROVE  Serial!SizesIn(vals) = sizes
  BY DEF Structure, MapsInStep, TypeOK, Serial!SizesIn

\* How much space a table takes with one entry more, or another one.
LEMMA SpaceWith ==
    ASSUME NEW sz, SizeTable(sz), NEW k \in Key, NEW n \in Nat
    PROVE  /\ sz[k] # Absent => sz[k] \in Nat
           /\ SpaceOf([sz EXCEPT ![k] = n]) =
                SpaceOf(sz) + n - (IF sz[k] = Absent THEN 0 ELSE sz[k])
           /\ SpaceOf([sz EXCEPT ![k] = n]) \in Nat
           /\ SpaceOf([sz EXCEPT ![k] = n]) >= n
<1>1. CASE sz[k] = Absent
  <2>1. SpaceOf([sz EXCEPT ![k] = n]) = SpaceOf(sz) + n
    BY <1>1, SpaceOfInsert
  <2>2. SpaceOf(sz) \in Nat
    BY FS_CardinalityType DEF SizeTable, SpaceOf
  <2>. QED
    BY <1>1, <2>1, <2>2
<1>2. CASE sz[k] # Absent
  <2>. DEFINE base == [j \in Key |-> IF j = k THEN Absent ELSE sz[j]]
  <2>1. /\ SizeTable(base) /\ sz[k] \in Nat /\ SpaceOf(base) \in Nat
        /\ SpaceOf(sz) = SpaceOf(base) + sz[k]
    BY <1>2, SpaceOfDrop
  <2>2. [sz EXCEPT ![k] = n] = [base EXCEPT ![k] = n] /\ base[k] = Absent
    BY DEF SizeTable
  <2>. HIDE DEF base
  <2>3. SpaceOf([base EXCEPT ![k] = n]) = SpaceOf(base) + n
    BY <2>1, <2>2, SpaceOfInsert
  <2>. QED
    BY <1>2, <2>1, <2>2, <2>3
<1>. QED
  BY <1>1, <1>2

\* What a store holds with v under k, in terms of the size table.
LEMMA StoreWith ==
    ASSUME Structure, NEW k \in Key, NEW v \in Val
    PROVE  Serial!SpaceOf(Serial!SizesIn([vals EXCEPT ![k] = v]))
              = SpaceOf([sizes EXCEPT ![k] = SizeOf[v]])
<1>1. Serial!SizesIn([vals EXCEPT ![k] = v]) = [sizes EXCEPT ![k] = SizeOf[v]]
  BY DEF Structure, MapsInStep, TypeOK, Serial!SizesIn
<1>. QED
  BY <1>1, SameSpace

\* A value that is larger than the cache does not fit in the store.
LEMMA TooLargeDoesNotFit ==
    ASSUME Structure, Counted, NEW k \in Key, NEW v \in Val, SizeOf[v] > MaxMem
    PROVE  ~Serial!FitsIn([vals EXCEPT ![k] = v])
<1>1. SizeTable(sizes) /\ SizeOf[v] \in Nat /\ MaxMem \in Nat
  BY CountedTable DEF Size
<1>2. SpaceOf([sizes EXCEPT ![k] = SizeOf[v]]) \in Nat
      /\ SpaceOf([sizes EXCEPT ![k] = SizeOf[v]]) >= SizeOf[v]
  BY <1>1, SpaceWith
<1>. QED
  BY <1>1, <1>2, StoreWith DEF Serial!FitsIn

\* A value that would add at least gain does not fit in the store when the
\* code finds that gain does not fit.
LEMMA TooMuchDoesNotFit ==
    ASSUME NoOverflow, Structure, Counted,
           NEW k \in Key, NEW v \in Val, SizeOf[v] <= MaxMem,
           NEW gain \in Nat,
           gain + (IF sizes[k] = Absent THEN 0 ELSE sizes[k]) <= SizeOf[v],
           ~Fits(gain)
    PROVE  ~Serial!FitsIn([vals EXCEPT ![k] = v])
<1>. DEFINE old == IF sizes[k] = Absent THEN 0 ELSE sizes[k]
            n == SizeOf[v]
            total == SpaceOf([sizes EXCEPT ![k] = n])
<1>1. /\ SizeTable(sizes) /\ n \in Nat /\ MaxMem \in Nat /\ SizeMod \in Nat
      /\ current \in Nat /\ current <= MaxMem /\ current = SpaceOf(sizes)
  BY CountedTable DEF Size, Counted
<1>2. total = current + n - old /\ old \in Nat
  BY <1>1, SpaceWith
<1>3. gain + old <= n /\ n <= MaxMem
  OBVIOUS
<1>. HIDE DEF old, n, total
<1>4. Add(current, gain) = current + gain
  <2>1. current + gain < SizeMod /\ current \in Size /\ gain \in Size
    BY <1>1, <1>2, <1>3 DEF NoOverflow, Size
  <2>. QED
    BY <2>1, AddWraps
<1>5. current + gain > MaxMem
  BY <1>1, <1>4 DEF Fits
<1>6. total > MaxMem
  BY <1>1, <1>2, <1>3, <1>5
<1>. QED
  BY <1>1, <1>2, <1>6, StoreWith DEF Serial!FitsIn, n, total

\* In particular when the size difference of a set does not fit.
LEMMA NeedDoesNotFit ==
    ASSUME NoOverflow, Structure, Counted,
           NEW k \in Key, NEW v \in Val, SizeOf[v] <= MaxMem, ~Fits(Need(k, v))
    PROVE  ~Serial!FitsIn([vals EXCEPT ![k] = v])
<1>1. SizeOf[v] \in Nat
  BY DEF Size
<1>2. CASE sizes[k] = Absent
  <2>1. Need(k, v) = SizeOf[v] /\ SizeOf[v] \in Nat
    BY <1>1, <1>2, NeedIsRight
  <2>2. Need(k, v) \in Nat /\ Need(k, v) + 0 <= SizeOf[v]
    BY <2>1
  <2>. HIDE DEF Need
  <2>. QED
    BY <1>2, <2>2, TooMuchDoesNotFit
<1>3. CASE sizes[k] # Absent
  <2>1. ~(SizeOf[v] <= sizes[k]) /\ sizes[k] \in Nat
    BY <1>3, ShrinkFits, NeedIsRight DEF Size
  <2>2. Need(k, v) = SizeOf[v] - sizes[k] /\ SizeOf[v] \in Nat
    BY <1>3, <2>1, NeedIsRight DEF Size
  <2>. HIDE DEF Need
  <2>. QED
    BY <1>3, <2>1, <2>2, TooMuchDoesNotFit
<1>. QED
  BY <1>2, <1>3

\* Nor does the value of a set that has to evict once more.
LEMMA LoopDoesNotFit ==
    ASSUME NoOverflow, IInv, InLoop
    PROVE  /\ op.key \in Key /\ op.val \in Val /\ SizeOf[op.val] <= MaxMem
           /\ ~Serial!FitsIn([vals EXCEPT ![op.key] = op.val])
<1>1. /\ op.key \in Key /\ op.val \in Val /\ op.need \in Nat /\ op # NoCall
      /\ ~Fits(op.need)
  BY DEF InLoop, IInv, Structure, TypeOK, SetCall, Size
<1>2. SizeOf[op.val] \in Nat
  BY <1>1 DEF Size
<1>3. /\ SizeOf[op.val] <= MaxMem
      /\ op.need + (IF sizes[op.key] = Absent THEN 0 ELSE sizes[op.key]) <= SizeOf[op.val]
  <2>1. /\ SizeOf[op.val] <= MaxMem /\ op.need <= SizeOf[op.val]
        /\ vals[op.key] # Absent => op.need + sizes[op.key] = SizeOf[op.val]
    BY <1>1, <1>2 DEF IInv, LoopKnowsItsNeed
  <2>2. sizes[op.key] = Absent <=> vals[op.key] = Absent
    BY <1>1, CountedTable DEF IInv
  <2>. QED
    BY <1>1, <1>2, <2>1, <2>2
<1>. QED
  BY <1>1, <1>3, TooMuchDoesNotFit DEF IInv
----------------------------------------------------------------------------
(* Responses.                                                              *)

\* A step of one session leaves the answers of the others alone.
LEMMA AnswerMoves ==
    ASSUME NEW s \in Session, NEW a,
           \A t \in Session \ {s} : /\ pc'[t] = pc[t] /\ req'[t] = req[t]
                                    /\ found'[t] = found[t] /\ reply'[t] = reply[t],
           Answer'[s] = a
    PROVE  Answer' = [Answer EXCEPT ![s] = a]
<1>1. \A t \in Session \ {s} : Answer'[t] = Answer[t]
  BY DEF Answer, Decided
<1>. QED
  BY <1>1 DEF Answer

\* A step that keeps the answer of its own session too changes none.
LEMMA AnswerStays ==
    ASSUME NEW s \in Session,
           \A t \in Session \ {s} : /\ pc'[t] = pc[t] /\ req'[t] = req[t]
                                    /\ found'[t] = found[t] /\ reply'[t] = reply[t],
           Answer'[s] = Answer[s]
    PROVE  Answer' = Answer
<1>1. \A t \in Session \ {s} : Answer'[t] = Answer[t]
  BY DEF Answer, Decided
<1>. QED
  BY <1>1 DEF Answer

\* Until its call is over, a request has no answer.
LEMMA NoAnswerYet ==
    ASSUME SInv, NEW s \in Session, pc[s] \in {"handle", "lock", "call"}
    PROVE  /\ Answer[s] = NoReply
           /\ req[s] \in Request /\ req[s] # NoRequest
           /\ \A verb : req[s].verb = verb => Serial!Pending(s, verb)
<1>1. Answer[s] = NoReply
  BY DEF Answer
<1>2. req[s] \in Request /\ req[s] # NoRequest
  BY DEF SInv, HandlesItsRequest, Handling
<1>. QED
  BY <1>1, <1>2 DEF Serial!Pending
----------------------------------------------------------------------------
(* The steps.                                                              *)

\* Taking the thread, the mutex or the connection changes nothing.
LEMMA QuietSteps ==
    ASSUME SInv, NEW s \in Session, Accept(s) \/ Lock(s)
    PROVE  UNCHANGED Serial!vars
<1>1. pc \in [Session -> Handling \cup {"closed", "read", "write"}]
  BY DEF SInv, ServerTypes
<1>2. Answer'[s] = Answer[s]
  BY <1>1 DEF Accept, Lock, At, Goto, Answer
<1>3. Answer' = Answer
  BY <1>1, <1>2, AnswerStays DEF Accept, Lock, At, Goto
<1>. QED
  BY <1>3 DEF Accept, Lock, cacheVars, Serial!vars

LEMMA ReceiveAsks ==
    ASSUME SInv, NEW s \in Session, NEW r \in Request, Receive(s, r)
    PROVE  Serial!Ask(s)
<1>1. /\ pc \in [Session -> Handling \cup {"closed", "read", "write"}]
      /\ req \in [Session -> Request \cup {NoRequest}] /\ req[s] = NoRequest
  BY DEF SInv, ServerTypes, HandlesItsRequest, Receive
<1>2. Answer'[s] = Answer[s]
  BY <1>1 DEF Receive, Goto, Answer
<1>3. Answer' = Answer
  BY <1>1, <1>2, AnswerStays DEF Receive, Goto
<1>. QED
  BY <1>1, <1>3 DEF Receive, cacheVars, Serial!Ask

LEMMA ResponseForgets ==
    ASSUME SInv, NEW s \in Session, Written(s) \/ End(s)
    PROVE  Serial!Forget(s)
<1>1. /\ pc \in [Session -> Handling \cup {"closed", "read", "write"}]
      /\ req \in [Session -> Request \cup {NoRequest}]
      /\ found \in [Session -> Val \cup {Absent}]
      /\ reply \in [Session -> Reply \cup {NoReply}]
  BY DEF SInv, ServerTypes
<1>2. Answer'[s] = NoReply
  BY <1>1 DEF Written, End, Goto, Answer
<1>3. Answer' = [Answer EXCEPT ![s] = NoReply]
  BY <1>1, <1>2, AnswerMoves DEF Written, End, Goto
<1>. QED
  BY <1>3 DEF Written, End, cacheVars, Serial!Forget

\* HEAD answers with the counter, which is what the store takes.
LEMMA HeadIsHead ==
    ASSUME IInv, SInv, NEW s \in Session, HeadSpace(s)
    PROVE  Serial!HeadSpace(s)
<1>1. /\ pc \in [Session -> Handling \cup {"closed", "read", "write"}]
      /\ reply \in [Session -> Reply \cup {NoReply}]
      /\ pc[s] = "handle" /\ Serial!Pending(s, "HEAD")
  BY NoAnswerYet DEF SInv, ServerTypes, HeadSpace, At
<1>2. current = Serial!SpaceOf(Serial!SizesIn(vals))
  BY SameSpace, SizesOfStore DEF IInv, Counted
<1>3. Answer'[s] = [kind |-> "space", val |-> Absent, size |-> current]
  BY <1>1 DEF HeadSpace, Send, Goto, Answer
<1>4. Answer' = [Answer EXCEPT ![s] = [kind |-> "space", val |-> Absent, size |-> current]]
  BY <1>1, <1>3, AnswerMoves DEF HeadSpace, Send, Goto
<1>. QED
  BY <1>1, <1>2, <1>4 DEF HeadSpace, cacheVars, Serial!HeadSpace, Serial!Say

LEMMA RefuseIsRefuse ==
    ASSUME SInv, NEW s \in Session, Refuse(s)
    PROVE  Serial!Refuse(s)
<1>. DEFINE kind == IF req[s].verb = "POST" THEN "notFound" ELSE "badRequest"
<1>1. /\ pc \in [Session -> Handling \cup {"closed", "read", "write"}]
      /\ reply \in [Session -> Reply \cup {NoReply}]
      /\ pc[s] = "handle" /\ Serial!Pending(s, req[s].verb)
  BY NoAnswerYet DEF SInv, ServerTypes, Refuse, At
<1>2. Answer'[s] = Status(kind)
  BY <1>1 DEF Refuse, Send, Goto, Answer
<1>3. Answer' = [Answer EXCEPT ![s] = Status(kind)]
  BY <1>1, <1>2, AnswerMoves DEF Refuse, Send, Goto
<1>4. Serial!Say(s, kind, Absent, 0)
  BY <1>3 DEF Refuse, Status, Serial!Say
<1>. QED
  BY <1>1, <1>4 DEF Refuse, cacheVars, Serial!Refuse

LEMMA GetIsGet ==
    ASSUME SInv, NEW s \in Session, Get(s)
    PROVE  Serial!Get(s)
<1>. DEFINE v == vals[req[s].key]
            a == IF v = Absent THEN Status("null")
                   ELSE [kind |-> "found", val |-> v, size |-> SizeOf[v]]
<1>1. /\ pc \in [Session -> Handling \cup {"closed", "read", "write"}]
      /\ found \in [Session -> Val \cup {Absent}]
      /\ pc[s] = "call" /\ req[s].verb = "GET" /\ Serial!Pending(s, "GET")
  BY NoAnswerYet DEF SInv, ServerTypes, Get, InCall, At
<1>2. pc'[s] = "unlock" /\ req' = req /\ reply' = reply /\ found'[s] = v
  BY <1>1 DEF Get, Goto
<1>3. Answer'[s] = a
  BY <1>1, <1>2 DEF Answer, Decided
<1>4. Answer' = [Answer EXCEPT ![s] = a]
  <2>. HIDE DEF a
  <2>1. \A t \in Session \ {s} : pc'[t] = pc[t] /\ found'[t] = found[t]
    BY <1>1 DEF Get, Goto
  <2>. QED
    BY <1>2, <1>3, <2>1, AnswerMoves
<1>5. vals' = vals
  BY DEF Get, GetHit, GetMiss, cacheVars
<1>. QED
  BY <1>1, <1>2, <1>4, <1>5 DEF Status, Serial!Get, Serial!Say

LEMMA DeleteIsDelete ==
    ASSUME SInv, NEW s \in Session, Delete(s)
    PROVE  Serial!Delete(s)
<1>. DEFINE k == req[s].key
            kind == IF vals[k] = Absent THEN "false" ELSE "true"
<1>1. /\ pc \in [Session -> Handling \cup {"closed", "read", "write"}]
      /\ reply \in [Session -> Reply \cup {NoReply}]
      /\ pc[s] = "call" /\ req[s].verb = "DELETE" /\ Serial!Pending(s, "DELETE")
  BY NoAnswerYet DEF SInv, ServerTypes, Delete, InCall, At
<1>2. pc'[s] = "unlock" /\ req' = req /\ found' = found /\ reply'[s] = Status(kind)
  BY <1>1 DEF Delete, Goto
<1>3. Answer'[s] = Status(kind)
  BY <1>1, <1>2 DEF Answer, Decided
<1>4. Answer' = [Answer EXCEPT ![s] = Status(kind)]
  <2>. HIDE DEF kind
  <2>1. \A t \in Session \ {s} : pc'[t] = pc[t] /\ reply'[t] = reply[t]
    BY <1>1 DEF Delete, Goto
  <2>. QED
    BY <1>2, <1>3, <2>1, AnswerMoves
<1>5. vals' = [vals EXCEPT ![k] = Absent]
  <2>1. vals \in [Key -> Val \cup {Absent}]
    BY DEF SInv, Structure, TypeOK
  <2>. QED
    BY <2>1 DEF Delete, DelHit, DelMiss, Erased, cacheVars
<1>. QED
  BY <1>1, <1>2, <1>4, <1>5 DEF Status, Serial!Delete, Serial!Say

LEMMA ResetIsReset ==
    ASSUME SInv, NEW s \in Session, ResetCache(s)
    PROVE  Serial!ResetCache(s)
<1>1. /\ pc \in [Session -> Handling \cup {"closed", "read", "write"}]
      /\ pc[s] = "call" /\ req[s].verb = "RESET" /\ Serial!Pending(s, "RESET")
  BY NoAnswerYet DEF SInv, ServerTypes, ResetCache, InCall, At
<1>2. Answer'[s] = Status("ok")
  BY <1>1 DEF ResetCache, Goto, Answer, Decided
<1>3. Answer' = [Answer EXCEPT ![s] = Status("ok")]
  BY <1>1, <1>2, AnswerMoves DEF ResetCache, Goto
<1>. QED
  BY <1>1, <1>3 DEF ResetCache, Reset, Status, Serial!ResetCache, Serial!Say

\* Releasing the mutex is not a moment of its own.
LEMMA UnlockIsQuiet ==
    ASSUME SInv, NEW s \in Session, Unlock(s)
    PROVE  UNCHANGED Serial!vars
<1>1. /\ pc \in [Session -> Handling \cup {"closed", "read", "write"}]
      /\ reply \in [Session -> Reply \cup {NoReply}]
      /\ pc[s] = "unlock" /\ req[s].verb \in Locking
      /\ UNCHANGED <<cacheVars, req, found>>
  BY DEF SInv, ServerTypes, HandlesItsRequest, Unlock, At
<1>2. \A t \in Session \ {s} : pc'[t] = pc[t] /\ reply'[t] = reply[t]
  BY <1>1, UnlockLeadsTo
<1>3. CASE req[s].verb = "PUT"
  <2>1. Answer'[s] = Answer[s]
    BY <1>1, <1>3 DEF Unlock, Send, Goto, Answer, Decided
  <2>. QED
    BY <1>1, <1>2, <2>1, AnswerStays DEF cacheVars, Serial!vars
<1>4. CASE req[s].verb = "DELETE"
  <2>1. Answer'[s] = Answer[s]
    BY <1>1, <1>4 DEF Unlock, Send, Goto, Answer, Decided
  <2>. QED
    BY <1>1, <1>2, <2>1, AnswerStays DEF cacheVars, Serial!vars
<1>5. CASE req[s].verb \in {"GET", "RESET"}
  <2>1. Answer'[s] = Answer[s]
    BY <1>1, <1>5 DEF Unlock, Goto, Answer, Decided
  <2>. QED
    BY <1>1, <1>2, <2>1, AnswerStays DEF cacheVars, Serial!vars
<1>. QED
  BY <1>1, <1>3, <1>4, <1>5 DEF Locking

\* Nor is the copy that follows it, if nobody has disturbed the buffer.
LEMMA CopyIsQuiet ==
    ASSUME SInv, OneThreadInv, NEW s \in Session, Copy(s)
    PROVE  UNCHANGED Serial!vars
<1>1. /\ pc \in [Session -> Handling \cup {"closed", "read", "write"}]
      /\ reply \in [Session -> Reply \cup {NoReply}]
      /\ pc[s] = "copy" /\ req[s].verb = "GET"
      /\ found[s] # Absent => getVal = found[s]
      /\ s \notin stale
      /\ UNCHANGED <<cacheVars, req, found>>
  BY DEF SInv, ServerTypes, HandlesItsRequest, OneThreadInv, Undisturbed, Copy, At
<1>2. pc' = [pc EXCEPT ![s] = "write"] /\ reply' = [reply EXCEPT ![s] = Decided(s)]
  BY <1>1 DEF Copy, Send, Goto, Decided
<1>3. Answer'[s] = Answer[s]
  <2>1. Answer[s] = Decided(s)
    BY <1>1 DEF Answer
  <2>2. pc'[s] = "write" /\ reply'[s] = Decided(s)
    BY <1>1, <1>2
  <2>3. Answer'[s] = Decided(s)
    BY <2>2 DEF Answer
  <2>. QED
    BY <2>1, <2>3
<1>. QED
  BY <1>1, <1>2, <1>3, AnswerStays DEF cacheVars, Serial!vars

\* Nor is the check that follows a reset.
LEMMA CheckIsQuiet ==
    ASSUME SInv, OneThreadInv, NEW s \in Session, Check(s)
    PROVE  UNCHANGED Serial!vars
<1>1. /\ pc \in [Session -> Handling \cup {"closed", "read", "write"}]
      /\ reply \in [Session -> Reply \cup {NoReply}]
      /\ pc[s] = "check" /\ req[s].verb = "RESET" /\ current = 0
      /\ UNCHANGED <<cacheVars, req, found>>
  BY DEF SInv, ServerTypes, HandlesItsRequest, OneThreadInv, Undisturbed, Check, At
<1>2. Answer'[s] = Answer[s]
  BY <1>1 DEF Check, Send, Goto, Answer, Decided
<1>. QED
  BY <1>1, <1>2, AnswerStays DEF Check, Send, Goto, cacheVars, Serial!vars
----------------------------------------------------------------------------
(* A PUT: the steps that decide it, and the evictions before.              *)

\* The answer of a PUT, once the cache has returned from set().
LEMMA PutAnswers ==
    ASSUME SInv, NEW s \in Session, Put(s)
    PROVE  /\ Serial!Pending(s, "PUT")
           /\ req[s].key \in Key /\ req[s].val \in Val
           /\ req' = req
           /\ op' = NoCall => Serial!Say(s, "ok", Absent, 0)
           /\ op' # NoCall => Answer' = Answer
<1>1. /\ pc \in [Session -> Handling \cup {"closed", "read", "write"}]
      /\ pc[s] = "call" /\ req[s].verb = "PUT" /\ Serial!Pending(s, "PUT")
      /\ req[s] \in Request /\ Answer[s] = NoReply
      /\ UNCHANGED <<req, found, reply>>
  BY NoAnswerYet DEF SInv, ServerTypes, Put, InCall, At
<1>2. req[s].key \in Key /\ req[s].val \in Val
  BY <1>1, RequestParts
<1>3. \A t \in Session \ {s} : pc'[t] = pc[t]
  BY <1>1 DEF Put, Goto
<1>4. ASSUME op' = NoCall
      PROVE  Serial!Say(s, "ok", Absent, 0)
  <2>1. Answer'[s] = Status("ok")
    BY <1>1, <1>4 DEF Put, Goto, Answer, Decided
  <2>2. Answer' = [Answer EXCEPT ![s] = Status("ok")]
    BY <1>1, <1>3, <2>1, AnswerMoves
  <2>. QED
    BY <1>1, <2>2 DEF Status, Serial!Say
<1>5. ASSUME op' # NoCall
      PROVE  Answer' = Answer
  <2>1. Answer'[s] = Answer[s]
    BY <1>1, <1>5 DEF Put, Goto, Answer
  <2>. QED
    BY <1>1, <1>3, <2>1, AnswerStays
<1>. QED
  BY <1>1, <1>2, <1>4, <1>5

\* A set in its loop is the request of the session whose step it takes.
LEMMA LoopIsOwn ==
    ASSUME SInv, NEW s \in Session, Put(s), op # NoCall
    PROVE  op.key = req[s].key /\ op.val = req[s].val
<1>1. mutex = s
  BY DEF SInv, MutexIsHeld, Put, InCall, At
<1>2. PICK t \in Session :
         mutex = t /\ req[t] = [verb |-> "PUT", key |-> op.key, val |-> op.val]
  BY DEF SInv, LoopIsLocked
<1>. QED
  BY <1>1, <1>2

LEMMA PutIsPut ==
    ASSUME NoOverflow, IInv, IInv', SInv, NEW s \in Session, Put(s)
    PROVE  \/ Serial!Put(s)
           \/ \E k \in Key : Serial!MakeRoom(s, k)
           \/ UNCHANGED Serial!vars
<1>. DEFINE k == req[s].key
            v == req[s].val
            with == [vals EXCEPT ![k] = v]
<1>1. /\ Serial!Pending(s, "PUT") /\ k \in Key /\ v \in Val /\ req' = req
      /\ op' = NoCall => Serial!Say(s, "ok", Absent, 0)
      /\ op' # NoCall => Answer' = Answer
  BY PutAnswers
<1>2. Serial!With(s) = with
  BY DEF Serial!With
<1>3. vals \in [Key -> Val \cup {Absent}]
  BY DEF SInv, Structure, TypeOK
<1>4. CASE SetTooLarge(k, v) \/ SetRejected(k, v)
  <2>1. op' = NoCall /\ vals' = vals
    BY <1>4 DEF SetTooLarge, SetRejected, Ready, cacheVars
  <2>2. ~Serial!FitsIn(with)
    BY <1>1, <1>4, TooLargeDoesNotFit, NeedDoesNotFit DEF SetTooLarge, SetRejected, IInv
  <2>. QED
    BY <1>1, <1>2, <2>1, <2>2 DEF Serial!Put
<1>5. ASSUME vals' = with, op' = NoCall
      PROVE  Serial!Put(s)
  <2>1. Serial!SpaceOf(Serial!SizesIn(vals)') <= MaxMem
    <3>1. Serial!SizesIn(vals)' = sizes'
      BY DEF IInv, Structure, MapsInStep, TypeOK, Serial!SizesIn
    <3>2. SpaceOf(sizes') <= MaxMem
      BY DEF IInv, Counted
    <3>. QED
      BY <3>1, <3>2, SameSpace
  <2>2. Serial!SizesIn(vals)' = Serial!SizesIn(with)
    BY <1>5 DEF Serial!SizesIn
  <2>3. Serial!FitsIn(with)
    BY <2>1, <2>2 DEF Serial!FitsIn
  <2>. QED
    BY <1>1, <1>2, <1>5, <2>3 DEF Serial!Put
<1>6. CASE SetFits(k, v)
  BY <1>5, <1>6 DEF SetFits, Ready, Store
<1>7. CASE SetMustEvict(k, v)
  <2>1. vals' = vals /\ ~Serial!FitsIn(with)
    BY <1>1, <1>7, NeedDoesNotFit DEF SetMustEvict, storeVars, IInv
  <2>. QED
    BY <1>1, <1>2, <2>1 DEF Serial!Put, Serial!vars
<1>8. CASE SetAfterEvictions
  <2>1. op.key = k /\ op.val = v
    BY <1>8, LoopIsOwn DEF SetAfterEvictions, LoopDone
  <2>. QED
    BY <1>5, <1>8, <2>1 DEF SetAfterEvictions, Store
<1>9. CASE SetThroughDanglingIterator
  <2>1. op' # NoCall /\ vals' = vals
    BY <1>9 DEF SetThroughDanglingIterator, LoopDone, storeVars
  <2>. QED
    BY <1>1, <2>1 DEF Serial!vars
<1>10. CASE EvictOne
  <2>. DEFINE victim == Victim(evictor, NoKey)
  <2>1. op' # NoCall /\ vals' = Erased(vals, victim) /\ InLoop /\ op # NoCall
    BY <1>10 DEF EvictOne, InLoop, Discard
  <2>2. op.key = k /\ op.val = v
    BY <2>1, LoopIsOwn
  <2>3. SizeOf[v] <= MaxMem /\ ~Serial!FitsIn(with)
    BY <2>1, <2>2, LoopDoesNotFit
  <2>4. CASE victim \in Key
    <3>1. vals' = [vals EXCEPT ![victim] = Absent]
      BY <1>3, <2>1 DEF Erased
    <3>2. Serial!MakeRoom(s, victim)
      BY <1>1, <1>2, <2>1, <2>3, <3>1 DEF Serial!MakeRoom
    <3>. QED
      BY <2>4, <3>2
  <2>5. CASE victim \notin Key
    <3>1. vals' = vals
      BY <1>3, <2>1, <2>5 DEF Erased
    <3>. QED
      BY <1>1, <2>1, <3>1 DEF Serial!vars
  <2>. QED
    BY <2>4, <2>5
<1>. QED
  BY <1>4, <1>6, <1>7, <1>8, <1>9, <1>10 DEF Put, SetStep
----------------------------------------------------------------------------
LEMMA StepIsSerial ==
    ASSUME NoOverflow, IInv, IInv', SInv, OneThreadInv, [ServerNext]_vars
    PROVE  [Serial!Next]_(Serial!vars)
<1>1. CASE UNCHANGED vars
  <2>1. UNCHANGED Serial!vars
    BY <1>1 DEF vars, cacheVars, serverVars, Answer, Decided, Serial!vars
  <2>. QED
    BY <2>1
<1>2. ASSUME NEW s \in Session, Accept(s) \/ Lock(s) \/ Unlock(s) \/ Copy(s) \/ Check(s)
      PROVE  UNCHANGED Serial!vars
  BY <1>2, QuietSteps, UnlockIsQuiet, CopyIsQuiet, CheckIsQuiet
<1>3. ASSUME NEW s \in Session, \E r \in Request : Receive(s, r)
      PROVE  Serial!Next
  BY <1>3, ReceiveAsks DEF Serial!Next
<1>4. ASSUME NEW s \in Session, Written(s) \/ End(s)
      PROVE  Serial!Next
  BY <1>4, ResponseForgets DEF Serial!Next
<1>5. ASSUME NEW s \in Session, HeadSpace(s) \/ Refuse(s)
      PROVE  Serial!Next
  BY <1>5, HeadIsHead, RefuseIsRefuse DEF Serial!Next
<1>6. ASSUME NEW s \in Session, Get(s) \/ Delete(s) \/ ResetCache(s)
      PROVE  Serial!Next
  BY <1>6, GetIsGet, DeleteIsDelete, ResetIsReset DEF Serial!Next
<1>7. ASSUME NEW s \in Session, Put(s)
      PROVE  Serial!Next \/ UNCHANGED Serial!vars
  BY <1>7, PutIsPut DEF Serial!Next
<1>. QED
  BY <1>1, <1>2, <1>3, <1>4, <1>5, <1>6, <1>7 DEF ServerNext, Handle

\* With one thread, and no sum of sizes that wraps around, every behaviour of
\* the server is one of the serial server: although the evictions of a set,
\* the copy of a GET and the check of a reset are steps of their own, clients
\* see each request carried out at one moment.
THEOREM OneThreadIsSerial ==
    ASSUME NoOverflow, NThreads = 1
    PROVE  ServerSpec => ImplementsSerialServer
<1>1. ServerInit => Serial!Init
  BY DEF ServerInit, Init, Answer, Serial!Init
<1>2. IInv /\ IInv' /\ SInv /\ OneThreadInv /\ [ServerNext]_vars
        => [Serial!Next]_(Serial!vars)
  BY StepIsSerial
<1>. QED
  BY <1>1, <1>2, CacheInvariant, SInvInvariant, OneThreadInvariant, PTL
     DEF ServerSpec, ImplementsSerialServer, Serial!Spec
----------------------------------------------------------------------------
(* Any number of threads: the serial server again, but for what GETs copy. *)

LEMMA SameFits ==
    ASSUME NEW st
    PROVE  /\ Intended!SpaceOf(Intended!SizesIn(st)) = Serial!SpaceOf(Serial!SizesIn(st))
           /\ Intended!FitsIn(st) = Serial!FitsIn(st)
<1>. DEFINE sz == Serial!SizesIn(st)
<1>1. Intended!SizesIn(st) = sz
  BY DEF Intended!SizesIn, Serial!SizesIn
<1>2. Intended!Bytes(sz) = Serial!Bytes(sz)
  BY DEF Intended!Bytes, Serial!Bytes, Intended!Present, Serial!Present,
         Intended!Row, Serial!Row
<1>3. Intended!SpaceOf(sz) = Serial!SpaceOf(sz)
  BY <1>2 DEF Intended!SpaceOf, Serial!SpaceOf, Intended!Cardinality, Serial!Cardinality
<1>. QED
  BY <1>1, <1>3 DEF Intended!FitsIn, Serial!FitsIn

\* What a step does not touch is answered as before.
LEMMA OthersAsFound ==
    ASSUME NEW s \in Session, NEW a,
           \A t \in Session \ {s} : /\ pc'[t] = pc[t] /\ req'[t] = req[t]
                                    /\ found'[t] = found[t] /\ reply'[t] = reply[t],
           AsFound'[s] = a
    PROVE  AsFound' = [AsFound EXCEPT ![s] = a]
<1>1. \A t \in Session \ {s} : AsFound'[t] = AsFound[t]
  BY DEF AsFound, Answer, Decided
<1>2. /\ AsFound = [t \in Session |-> AsFound[t]]
      /\ AsFound' = [t \in Session |-> AsFound'[t]]
  BY DEF AsFound
<1>. QED
  BY <1>1, <1>2

LEMMA AllAsFound ==
    ASSUME NEW s \in Session,
           \A t \in Session \ {s} : /\ pc'[t] = pc[t] /\ req'[t] = req[t]
                                    /\ found'[t] = found[t] /\ reply'[t] = reply[t],
           AsFound'[s] = AsFound[s]
    PROVE  AsFound' = AsFound
<1>1. \A t \in Session \ {s} : AsFound'[t] = AsFound[t]
  BY DEF AsFound, Answer, Decided
<1>2. /\ AsFound = [t \in Session |-> AsFound[t]]
      /\ AsFound' = [t \in Session |-> AsFound'[t]]
  BY DEF AsFound
<1>. QED
  BY <1>1, <1>2

\* The two ways to read the responses differ in those of GETs only.
LEMMA SameAnswer ==
    ASSUME NEW s \in Session,
           ~(pc[s] = "write" /\ reply[s].kind = "found")
    PROVE  AsFound[s] = Answer[s]
  BY DEF AsFound

\* A step of a handler touches no other session.
LEMMA HandlerIsAlone ==
    ASSUME SInv, NEW s \in Session, Handle(s)
    PROVE  /\ \A t \in Session \ {s} : /\ pc'[t] = pc[t] /\ req'[t] = req[t]
                                       /\ found'[t] = found[t] /\ reply'[t] = reply[t]
           /\ pc[s] \in Handling
<1>1. /\ pc \in [Session -> Handling \cup {"closed", "read", "write"}]
      /\ found \in [Session -> Val \cup {Absent}]
      /\ reply \in [Session -> Reply \cup {NoReply}]
  BY DEF SInv, ServerTypes
<1>2. CASE HeadSpace(s) \/ Refuse(s) \/ Lock(s) \/ Put(s)
  BY <1>1, <1>2 DEF HeadSpace, Refuse, Lock, Put, InCall, At, Send, Goto, Handling
<1>3. CASE Get(s) \/ Delete(s) \/ ResetCache(s)
  BY <1>1, <1>3 DEF Get, Delete, ResetCache, InCall, At, Goto, Handling
<1>4. CASE Unlock(s)
  <2>1. UNCHANGED <<req, found>>
    BY <1>4 DEF Unlock
  <2>. QED
    BY <1>1, <1>4, <2>1, UnlockLeadsTo DEF Handling
<1>5. CASE Copy(s) \/ Check(s)
  BY <1>1, <1>5 DEF Copy, Check, At, Send, Goto, Handling
<1>. QED
  BY <1>2, <1>3, <1>4, <1>5 DEF Handle

\* When a handler answers its request with anything else than a copy, the
\* answer is the same either way.
LEMMA SaysAsFound ==
    ASSUME SInv, NEW s \in Session, Handle(s),
           ~(pc'[s] = "write" /\ reply'[s].kind = "found")
    PROVE  /\ \A verb : Serial!Pending(s, verb) => Intended!Pending(s, verb)
           /\ \A kind, val, size :
                Serial!Say(s, kind, val, size) => Intended!Say(s, kind, val, size)
           /\ UNCHANGED Serial!vars => UNCHANGED Intended!vars
           /\ Intended!With(s) = Serial!With(s)
<1>1. AsFound[s] = Answer[s] /\ AsFound'[s] = Answer'[s]
  <2>1. pc[s] # "write"
    BY HandlerIsAlone DEF Handling
  <2>2. AsFound[s] = Answer[s]
    BY <2>1, SameAnswer
  <2>3. AsFound'[s] = Answer'[s]
    BY DEF AsFound
  <2>. QED
    BY <2>2, <2>3
<1>2. \A verb : Serial!Pending(s, verb) => Intended!Pending(s, verb)
  BY <1>1 DEF Serial!Pending, Intended!Pending
<1>3. ASSUME NEW kind, NEW val, NEW size, Serial!Say(s, kind, val, size)
      PROVE  Intended!Say(s, kind, val, size)
  <2>. DEFINE a == [kind |-> kind, val |-> val, size |-> size]
  <2>1. req' = req /\ Answer' = [Answer EXCEPT ![s] = a]
    BY <1>3 DEF Serial!Say
  <2>2. Answer'[s] = a
    BY <2>1 DEF Answer
  <2>3. AsFound' = [AsFound EXCEPT ![s] = a]
    <3>. HIDE DEF a
    <3>. QED
      BY <1>1, <2>2, HandlerIsAlone, OthersAsFound
  <2>. QED
    BY <2>1, <2>3 DEF Intended!Say
<1>4. ASSUME UNCHANGED Serial!vars
      PROVE  UNCHANGED Intended!vars
  <2>1. vals' = vals /\ req' = req /\ Answer' = Answer
    BY <1>4 DEF Serial!vars
  <2>2. AsFound' = AsFound
    BY <1>1, <2>1, HandlerIsAlone, AllAsFound
  <2>. QED
    BY <2>1, <2>2 DEF Intended!vars
<1>5. Intended!With(s) = Serial!With(s)
  BY DEF Serial!With, Intended!With
<1>. QED
  BY <1>2, <1>3, <1>4, <1>5

\* The copy of a GET is no moment of its own, whatever it has copied: hit or
\* miss, and the size, were decided when the cache was called.
LEMMA CopyIsQuietAsFound ==
    ASSUME SInv, NEW s \in Session, Copy(s)
    PROVE  UNCHANGED Intended!vars
<1>1. /\ pc \in [Session -> Handling \cup {"closed", "read", "write"}]
      /\ reply \in [Session -> Reply \cup {NoReply}]
      /\ pc[s] = "copy" /\ req[s].verb = "GET"
      /\ UNCHANGED <<cacheVars, req, found>>
  BY DEF SInv, ServerTypes, HandlesItsRequest, Copy, At
<1>2. AsFound[s] = Decided(s)
  BY <1>1 DEF AsFound, Answer
<1>3. pc'[s] = "write"
  BY <1>1 DEF Copy, Send, Goto
<1>4. AsFound'[s] = Decided(s)
  <2>1. CASE found[s] = Absent
    <3>1. reply'[s] = Status("null") /\ Decided(s) = Status("null")
      BY <1>1, <2>1 DEF Copy, Send, Decided
    <3>2. reply'[s].kind # "found"
      BY <3>1 DEF Status
    <3>. QED
      BY <1>3, <3>1, <3>2 DEF AsFound, Answer
  <2>2. CASE found[s] # Absent
    <3>. DEFINE size == SizeOf[found[s]]
    <3>1. PICK text : reply'[s] = [kind |-> "found", val |-> text, size |-> size]
      BY <1>1, <2>2 DEF Copy, Send
    <3>2. Decided(s) = [kind |-> "found", val |-> found[s], size |-> size]
      BY <1>1, <2>2 DEF Decided
    <3>. HIDE DEF size
    <3>3. /\ reply'[s].kind = "found"
          /\ [reply'[s] EXCEPT !.val = found[s]]
               = [kind |-> "found", val |-> found[s], size |-> size]
      BY <3>1
    <3>4. AsFound'[s] = [reply'[s] EXCEPT !.val = found'[s]]
      BY <1>3, <3>3 DEF AsFound
    <3>. QED
      BY <1>1, <3>2, <3>3, <3>4
  <2>. QED
    BY <2>1, <2>2
<1>5. Handle(s)
  BY DEF Handle
<1>6. AsFound' = AsFound
  BY <1>2, <1>4, <1>5, HandlerIsAlone, AllAsFound
<1>. QED
  BY <1>1, <1>6 DEF cacheVars, Intended!vars

\* Nor is the check after a reset, even when it fails.
LEMMA CheckIsQuietAsFound ==
    ASSUME SInv, NEW s \in Session, Check(s)
    PROVE  UNCHANGED Intended!vars
<1>1. /\ pc \in [Session -> Handling \cup {"closed", "read", "write"}]
      /\ reply \in [Session -> Reply \cup {NoReply}]
      /\ pc[s] = "check" /\ req[s].verb = "RESET"
      /\ UNCHANGED <<cacheVars, req, found>>
  BY DEF SInv, ServerTypes, HandlesItsRequest, Check, At
<1>2. CASE current = 0
  <2>1. pc'[s] = "write" /\ reply'[s] = Status("ok")
    BY <1>1, <1>2 DEF Check, Send, Goto
  <2>2. AsFound'[s] = Status("ok")
    BY <2>1 DEF AsFound, Answer, Status
  <2>3. AsFound[s] = Status("ok")
    BY <1>1 DEF AsFound, Answer, Decided
  <2>4. AsFound' = AsFound
    BY <2>2, <2>3, HandlerIsAlone, AllAsFound DEF Handle
  <2>. QED
    BY <1>1, <2>4 DEF cacheVars, Intended!vars
<1>3. CASE current # 0
  <2>1. pc' = pc /\ reply' = reply
    BY <1>3 DEF Check
  <2>2. AsFound' = AsFound
    BY <1>1, <2>1 DEF AsFound, Answer, Decided
  <2>. QED
    BY <1>1, <2>2 DEF cacheVars, Intended!vars
<1>. QED
  BY <1>2, <1>3

\* The steps around the handlers.
LEMMA SessionsAsFound ==
    ASSUME SInv, NEW s \in Session,
           Accept(s) \/ (\E r \in Request : Receive(s, r)) \/ Written(s) \/ End(s)
    PROVE  UNCHANGED Intended!vars \/ Intended!Ask(s) \/ Intended!Forget(s)
<1>1. /\ pc \in [Session -> Handling \cup {"closed", "read", "write"}]
      /\ req \in [Session -> Request \cup {NoRequest}]
      /\ found \in [Session -> Val \cup {Absent}]
      /\ reply \in [Session -> Reply \cup {NoReply}]
      /\ pc[s] \in {"closed", "read"} => req[s] = NoRequest
  BY DEF SInv, ServerTypes, HandlesItsRequest
<1>2. CASE Accept(s)
  <2>1. AsFound'[s] = AsFound[s]
    BY <1>1, <1>2 DEF Accept, Goto, AsFound, Answer
  <2>2. AsFound' = AsFound
    BY <1>1, <1>2, <2>1, AllAsFound DEF Accept, Goto
  <2>. QED
    BY <1>2, <2>2 DEF Accept, cacheVars, Intended!vars
<1>3. ASSUME NEW r \in Request, Receive(s, r)
      PROVE  Intended!Ask(s)
  <2>1. AsFound'[s] = AsFound[s]
    BY <1>1, <1>3 DEF Receive, Goto, AsFound, Answer
  <2>2. AsFound' = AsFound
    BY <1>1, <1>3, <2>1, AllAsFound DEF Receive, Goto
  <2>. QED
    BY <1>1, <1>3, <2>2 DEF Receive, cacheVars, Intended!Ask
<1>4. CASE Written(s) \/ End(s)
  <2>1. AsFound'[s] = NoReply
    BY <1>1, <1>4 DEF Written, End, Goto, AsFound, Answer
  <2>2. AsFound' = [AsFound EXCEPT ![s] = NoReply]
    BY <1>1, <1>4, <2>1, OthersAsFound DEF Written, End, Goto
  <2>. QED
    BY <1>4, <2>2 DEF Written, End, cacheVars, Intended!Forget
<1>. QED
  BY <1>2, <1>3, <1>4

\* A handler carries out its request, drops entries for it, or does nothing
\* that counts.
LEMMA HandlerAsFound ==
    ASSUME NoOverflow, IInv, IInv', SInv, NEW s \in Session, Handle(s)
    PROVE  Intended!Next \/ UNCHANGED Intended!vars
<1>1. /\ pc \in [Session -> Handling \cup {"closed", "read", "write"}]
      /\ reply \in [Session -> Reply \cup {NoReply}]
  BY DEF SInv, ServerTypes
<1>2. CASE Copy(s) \/ Check(s)
  BY <1>2, CopyIsQuietAsFound, CheckIsQuietAsFound
<1>3. CASE HeadSpace(s)
  <2>1. reply'[s].kind = "space"
    BY <1>1, <1>3 DEF HeadSpace, Send
  <2>2. Serial!HeadSpace(s)
    BY <1>3, HeadIsHead
  <2>3. Intended!HeadSpace(s)
    BY <2>1, <2>2, SaysAsFound, SameFits DEF Serial!HeadSpace, Intended!HeadSpace
  <2>. QED
    BY <2>3 DEF Intended!Next
<1>4. CASE Refuse(s)
  <2>1. reply'[s].kind # "found"
    BY <1>1, <1>4 DEF Refuse, Send, Status
  <2>2. Serial!Refuse(s)
    BY <1>4, RefuseIsRefuse
  <2>3. Intended!Refuse(s)
    BY <2>1, <2>2, SaysAsFound DEF Serial!Refuse, Intended!Refuse
  <2>. QED
    BY <2>3 DEF Intended!Next
<1>5. CASE Lock(s)
  <2>1. pc'[s] # "write" /\ UNCHANGED Serial!vars
    BY <1>1, <1>5, QuietSteps DEF Lock, Goto
  <2>. QED
    BY <2>1, SaysAsFound
<1>6. CASE Get(s) \/ Delete(s) \/ ResetCache(s)
  <2>1. pc'[s] # "write"
    BY <1>1, <1>6 DEF Get, Delete, ResetCache, Goto
  <2>2. Get(s) => Intended!Get(s)
    BY <2>1, GetIsGet, SaysAsFound DEF Serial!Get, Intended!Get
  <2>3. Delete(s) => Intended!Delete(s)
    BY <2>1, DeleteIsDelete, SaysAsFound DEF Serial!Delete, Intended!Delete
  <2>4. ResetCache(s) => Intended!ResetCache(s)
    BY <2>1, ResetIsReset, SaysAsFound DEF Serial!ResetCache, Intended!ResetCache
  <2>. QED
    BY <1>6, <2>2, <2>3, <2>4 DEF Intended!Next
<1>7. CASE Unlock(s)
  <2>1. pc[s] = "unlock" /\ req[s].verb \in Locking /\ HandlesItsRequest(s)
    BY <1>7 DEF Unlock, At, SInv, HandlesItsRequest
  <2>2. ~(pc'[s] = "write" /\ reply'[s].kind = "found")
    <3>1. CASE req[s].verb = "PUT"
      BY <1>1, <1>7, <3>1 DEF Unlock, Send, Status
    <3>2. CASE req[s].verb = "DELETE"
      BY <1>1, <1>7, <2>1, <3>2 DEF Unlock, Send, Status, HandlesItsRequest
    <3>3. CASE req[s].verb \in {"GET", "RESET"}
      BY <1>1, <1>7, <3>3 DEF Unlock, Goto
    <3>. QED
      BY <2>1, <3>1, <3>2, <3>3 DEF Locking
  <2>. QED
    BY <1>7, <2>2, UnlockIsQuiet, SaysAsFound
<1>8. CASE Put(s)
  <2>1. pc'[s] # "write"
    BY <1>1, <1>8 DEF Put, Goto
  <2>2. Serial!Put(s) => Intended!Put(s)
    BY <2>1, SaysAsFound, SameFits DEF Serial!Put, Intended!Put
  <2>3. ASSUME NEW k \in Key, Serial!MakeRoom(s, k)
        PROVE  Intended!MakeRoom(s, k)
    <3>1. Intended!Pending(s, "PUT") /\ Intended!With(s) = Serial!With(s)
      BY <2>1, <2>3, SaysAsFound DEF Serial!MakeRoom
    <3>2. AsFound' = AsFound
      <4>1. AsFound'[s] = Answer'[s] /\ AsFound[s] = Answer[s]
        BY <1>8, <2>1, SameAnswer DEF AsFound, Put, InCall, At
      <4>2. Answer' = Answer
        BY <2>3 DEF Serial!MakeRoom
      <4>. QED
        BY <4>1, <4>2, HandlerIsAlone, AllAsFound
    <3>. QED
      BY <2>3, <3>1, <3>2, SameFits DEF Serial!MakeRoom, Intended!MakeRoom
  <2>4. UNCHANGED Serial!vars => UNCHANGED Intended!vars
    BY <2>1, SaysAsFound
  <2>. QED
    BY <1>8, <2>2, <2>3, <2>4, PutIsPut DEF Intended!Next
<1>. QED
  BY <1>2, <1>3, <1>4, <1>5, <1>6, <1>7, <1>8 DEF Handle

LEMMA StepIsSerialAsFound ==
    ASSUME NoOverflow, IInv, IInv', SInv, [ServerNext]_vars
    PROVE  [Intended!Next]_(Intended!vars)
<1>1. CASE UNCHANGED vars
  BY <1>1 DEF vars, cacheVars, serverVars, AsFound, Answer, Decided, Intended!vars
<1>2. ASSUME NEW s \in Session,
             Accept(s) \/ (\E r \in Request : Receive(s, r)) \/ Written(s) \/ End(s)
      PROVE  Intended!Next \/ UNCHANGED Intended!vars
  BY <1>2, SessionsAsFound DEF Intended!Next
<1>3. ASSUME NEW s \in Session, Handle(s)
      PROVE  Intended!Next \/ UNCHANGED Intended!vars
  BY <1>3, HandlerAsFound
<1>. QED
  BY <1>1, <1>2, <1>3 DEF ServerNext

\* With any number of threads, and no sum of sizes that wraps around, the
\* server is the serial server in all but the values that GETs copy after
\* they have let go of the mutex: no other request is disturbed by the steps
\* that its handler takes outside it.
THEOREM SerialWhateverTheThreads ==
    ASSUME NoOverflow
    PROVE  ServerSpec => SerialButForCopies
<1>1. ServerInit => Intended!Init
  BY DEF ServerInit, Init, AsFound, Answer, Intended!Init
<1>2. IInv /\ IInv' /\ SInv /\ [ServerNext]_vars => [Intended!Next]_(Intended!vars)
  BY StepIsSerialAsFound
<1>. QED
  BY <1>1, <1>2, CacheInvariant, SInvInvariant, PTL
     DEF ServerSpec, SerialButForCopies, Intended!Spec
=============================================================================
