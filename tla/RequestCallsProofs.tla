------------------------- MODULE RequestCallsProofs -------------------------
(***************************************************************************)
(* What holds of RequestCalls for every set of functions, securities and   *)
(* fields and every bound: the types, the session in step with its calls,  *)
(* and then that a call that begins on a clean session returns its own     *)
(* answer, whole and in order, and stops on nothing but an error of its    *)
(* own.                                                                    *)
(***************************************************************************)
EXTENDS RequestCalls, SequenceTheorems, TLAPS

-----------------------------------------------------------------------------
(* Types *)

CallType == [fn : AllFns \cup {"none"}, secs : Seq(Names), flds : Seq(Names)]
QueryType == [class : Classes, secs : Seq(Names), flds : Seq(Names)]

LEMMA CallsType == Calls \subseteq [fn : AllFns, secs : Seq(Names), flds : Seq(Names)]
  <1>1. SecLists \subseteq Seq(Names) /\ Singles \subseteq Seq(Names) /\ FieldLists \subseteq Seq(Names)
    BY SessionAssumption DEF Names, Singles
  <1>2. \A f \in BulkFields : <<f>> \in Seq(Names)
    BY DEF Names
  <1>3. <<>> \in Seq(Names)
    OBVIOUS
  <1> QED BY <1>1, <1>2, <1>3, FnsAssumption DEF Calls, BdpCalls, BdhCalls, BulkCalls, FieldInfoCalls, QueryCalls

LEMMA PlanType ==
  ASSUME NEW c \in Calls
  PROVE  Plan(c) \in Seq(QueryType) /\ Plan(c) # <<>>
  <1>1. c \in [fn : AllFns, secs : Seq(Names), flds : Seq(Names)]
    BY CallsType
  <1>2. FieldRequests(c) \in Seq(QueryType)
    <2>1. \A i \in DOMAIN c.flds : <<c.flds[i]>> \in Seq(Names)
      BY <1>1
    <2>2. DOMAIN c.flds = 1 .. Len(c.flds) /\ Len(c.flds) \in Nat
      BY <1>1
    <2> QED BY <2>1, <2>2, IsASeq DEF FieldRequests, QueryType, Classes
  <1>3. DataRequest(c) \in QueryType
    BY <1>1 DEF DataRequest, QueryType, AnswerClass, Classes, AllFns, TypedFns, ReturnAtFirst,
                KeepLast, Collect, Authenticate
  <1>4. CASE c.fn = "fieldInfo"
    <2>1. c.flds \in FieldLists
      BY <1>4 DEF Calls, BdpCalls, BdhCalls, BulkCalls, FieldInfoCalls, QueryCalls,
                ReturnAtFirst, KeepLast, Collect, Authenticate
    <2>2. Len(c.flds) # 0
      BY <2>1, SessionAssumption
    <2>3. Len(FieldRequests(c)) = Len(c.flds)
      BY <1>1 DEF FieldRequests
    <2>4. Plan(c) = FieldRequests(c)
      BY <1>4 DEF Plan, TypedFns
    <2> QED BY <1>2, <2>2, <2>3, <2>4, EmptySeq
  <1>5. CASE c.fn \in TypedFns
    <2>1. Plan(c) = Append(FieldRequests(c), DataRequest(c))
      BY <1>5 DEF Plan, TypedFns
    <2> QED BY <1>2, <1>3, <2>1
  <1>6. CASE c.fn # "fieldInfo" /\ c.fn \notin TypedFns
    <2>1. Plan(c) = <<DataRequest(c)>>
      BY <1>6 DEF Plan
    <2> QED BY <1>3, <2>1
  <1> QED BY <1>4, <1>5, <1>6

\* TypeOK, and a call that is about to send has something to send.
TypeInv == TypeOK /\ (pc = "send" => todo # <<>>)

LEMMA BlankEvents == NoEvent \in Event /\ SessionTerminated \in Event
  <1>1. NoRequest \in Request
    BY EmptySeq DEF NoRequest, Request
  <1> QED BY <1>1 DEF NoEvent, SessionTerminated, Event

\* Another part of an answer is sent.
LEMMA BumpType ==
  ASSUME NEW p \in [req : Request, sent : Nat]
  PROVE  /\ [p EXCEPT !.sent = @ + 1] \in [req : Request, sent : Nat]
         /\ [p EXCEPT !.sent = @ + 1].req = p.req
         /\ [p EXCEPT !.sent = @ + 1].sent = p.sent + 1
  OBVIOUS

LEMMA EmitType ==
  ASSUME queue \in Seq(Event), NEW p \in [req : Request, sent : Nat],
         NEW t \in RequestEventTypes, NEW b \in {"data", "unusable", "error"}, Emit(p, t, b)
  PROVE  queue' \in Seq(Event)
  <1>1. [type |-> t, req |-> p.req, part |-> p.sent + 1, body |-> b] \in Event
    BY DEF Event
  <1> QED BY <1>1 DEF Emit

LEMMA TypeInit == Init => TypeInv
  <1> QED BY BlankEvents DEF Init, SessionInit, TypeInv, TypeOK, SessionTypeOK, AllFns

LEMMA TypeService ==
  ASSUME TypeInv, Service
  PROVE  TypeInv'
  <1>1. SessionTypeOK
    BY DEF TypeInv, TypeOK
  <1>2. SessionTypeOK'
    <2>1. CASE Terminate
      <3>1. queue' \in Seq(Event)
        BY <1>1, <2>1, BlankEvents DEF Terminate, SessionTypeOK
      <3>2. up' = FALSE /\ pending' = {} /\ lastId' = lastId
        BY <2>1 DEF Terminate
      <3> QED BY <1>1, <3>1, <3>2 DEF SessionTypeOK
    <2>2. ASSUME NEW p \in pending,
                 PartialAnswer(p) \/ FinalAnswer(p) \/ ErrorAnswer(p) \/ RequestFailure(p)
          PROVE  SessionTypeOK'
      <3>1. p \in [req : Request, sent : Nat] /\ queue \in Seq(Event)
        BY <1>1 DEF SessionTypeOK
      <3>2. queue' \in Seq(Event)
        BY <2>2, <3>1, EmitType
           DEF PartialAnswer, FinalAnswer, ErrorAnswer, RequestFailure, Bodies, RequestEventTypes, AnswerTypes
      <3>3. pending' \subseteq [req : Request, sent : Nat] /\ lastId' = lastId /\ up' = up
        BY <1>1, <2>2, <3>1, BumpType
           DEF SessionTypeOK, PartialAnswer, FinalAnswer, ErrorAnswer, RequestFailure
      <3> QED BY <1>1, <3>2, <3>3 DEF SessionTypeOK
    <2> QED BY <2>1, <2>2 DEF Service, Answer
  <1>3. UNCHANGED <<pc, call, todo, types, got, outcome, mine, clean, last>>
    BY DEF Service, callVars
  <1> QED BY <1>2, <1>3 DEF TypeInv, TypeOK

LEMMA TypeRead ==
  ASSUME TypeInv, ReadEvent
  PROVE  TypeInv'
  <1> DEFINE e == Head(queue)
  <1>1. /\ SessionTypeOK /\ queue # <<>> /\ todo \in Seq(QueryType)
        /\ types \in Seq(Event) /\ got \in Seq(Event)
    BY DEF TypeInv, TypeOK, QueryType, ReadEvent
  <1>2. e \in Event /\ Tail(queue) \in Seq(Event)
    BY <1>1 DEF SessionTypeOK
  <1>3. NextEvent(e)
    BY DEF ReadEvent, IgnoreEvent, StopOnStatus, EndWithSession, ReadFieldInfo, SwallowError,
           ReadData, StopOnAnswer
  <1>4. SessionTypeOK' /\ last' \in Event /\ UNCHANGED <<call, mine, clean>> /\ pc = "wait"
    BY <1>1, <1>2, <1>3 DEF NextEvent, SessionTypeOK
  <1>5. types' \in Seq(Event) /\ got' \in Seq(Event)
    <2>1. types' \in {types, Append(types, e)} /\ got' \in {got, Append(got, e), <<e>>}
      BY DEF ReadEvent, IgnoreEvent, StopOnStatus, EndWithSession, ReadFieldInfo, SwallowError,
             ReadData, StopOnAnswer, Keep
    <2>2. Append(types, e) \in Seq(Event) /\ Append(got, e) \in Seq(Event) /\ <<e>> \in Seq(Event)
      BY <1>1, <1>2
    <2> QED BY <1>1, <2>1, <2>2
  <1>6. \/ UNCHANGED <<pc, todo, outcome>>
        \/ pc' = "send" /\ UNCHANGED <<todo, outcome>> /\ todo # <<>>
        \/ \E o \in {"ok", "status", "rejected"} : Return(o)
    BY DEF ReadEvent, IgnoreEvent, StopOnStatus, EndWithSession, ReadFieldInfo, SwallowError,
           ReadData, StopOnAnswer
  <1>7. /\ pc' \in {"idle", "send", "wait"} /\ todo' \in Seq(QueryType)
        /\ outcome' \in {"none", "ok", "unsent", "status", "timeout", "rejected"}
        /\ pc' = "send" => todo' # <<>>
    <2>1. pc = "wait" /\ outcome \in {"none", "ok", "unsent", "status", "timeout", "rejected"}
      BY <1>4 DEF TypeInv, TypeOK
    <2>2. CASE \E o \in {"ok", "status", "rejected"} : Return(o)
      BY <2>2, EmptySeq DEF Return
    <2> QED BY <1>1, <1>6, <2>1, <2>2
  <1> QED BY <1>4, <1>5, <1>7 DEF TypeInv, TypeOK, QueryType

LEMMA TypeSend ==
  ASSUME TypeInv, Send
  PROVE  TypeInv'
  <1>1. todo \in Seq(QueryType) /\ todo # <<>> /\ SessionTypeOK /\ mine \in Seq(Nat)
    BY DEF TypeInv, TypeOK, QueryType, Send
  <1>2. Head(todo) \in QueryType /\ Tail(todo) \in Seq(QueryType)
    BY <1>1
  <1>3. lastId' = lastId + 1 /\ lastId' \in Nat
    BY <1>1 DEF Send, SendRequest, SessionTypeOK
  <1>4. [id |-> lastId + 1, class |-> Head(todo).class, secs |-> Head(todo).secs,
         flds |-> Head(todo).flds] \in Request
    BY <1>2, <1>3 DEF QueryType, Request
  <1>5. SessionTypeOK'
    BY <1>1, <1>3, <1>4 DEF Send, SendRequest, SessionTypeOK
  <1>6. mine' \in Seq(Nat) /\ todo' \in Seq(QueryType)
    BY <1>1, <1>2, <1>3 DEF Send
  <1> QED BY <1>5, <1>6 DEF Send, TypeInv, TypeOK, QueryType

LEMMA TypeStart ==
  ASSUME TypeInv, NEW c \in Calls, StartCall(c)
  PROVE  TypeInv'
  <1>1. c \in [fn : AllFns \cup {"none"}, secs : Seq(Names), flds : Seq(Names)]
    BY CallsType
  <1>2. todo' \in Seq(QueryType) /\ todo' # <<>>
    BY PlanType DEF StartCall
  <1>3. types' \in Seq(Event) /\ got' \in Seq(Event) /\ mine' \in Seq(Nat) /\ clean' \in BOOLEAN
    BY DEF StartCall
  <1>4. SessionTypeOK'
    BY DEF StartCall, sessionVars, TypeInv, TypeOK, SessionTypeOK
  <1> QED BY <1>1, <1>2, <1>3, <1>4 DEF StartCall, TypeInv, TypeOK, QueryType

LEMMA TypeNext ==
  ASSUME TypeInv, [Next]_vars
  PROVE  TypeInv'
  <1>1. CASE StopUnsent
    BY <1>1 DEF StopUnsent, Return, sessionVars, TypeInv, TypeOK, SessionTypeOK
  <1>2. CASE TimeOut
    BY <1>2 DEF TimeOut, Return, sessionVars, TypeInv, TypeOK, SessionTypeOK
  <1>3. CASE UNCHANGED vars
    BY <1>3 DEF vars, sessionVars, callVars, TypeInv, TypeOK, SessionTypeOK
  <1> QED BY <1>1, <1>2, <1>3, TypeStart, TypeSend, TypeRead, TypeService DEF Next, CallStep

\* Every reachable state is well typed.
THEOREM TypeCorrect == Spec => []TypeOK
  <1>1. TypeInv => TypeOK
    BY DEF TypeInv
  <1> QED BY <1>1, TypeInit, TypeNext, PTL DEF Spec

-----------------------------------------------------------------------------
(* The session stays in step *)

InStepInv == TypeInv /\ InStep

LEMMA OwedIff ==
  \A x : x \in Owed <=> \/ \E p \in pending : x = p.req.id
                        \/ \E i \in DOMAIN queue : queue[i].type \in RequestEventTypes /\ x = queue[i].req.id
  BY DEF Owed

LEMMA OwedIffNext ==
  \A x : x \in Owed' <=> \/ \E p \in pending' : x = p.req.id
                         \/ \E i \in DOMAIN queue' : queue'[i].type \in RequestEventTypes /\ x = queue'[i].req.id
  BY DEF Owed

\* What Append and Tail do to the events of a queue.
LEMMA AppendEvents ==
  ASSUME NEW s \in Seq(Event), NEW x \in Event
  PROVE  /\ Len(s) \in Nat /\ Len(Append(s, x)) = Len(s) + 1
         /\ DOMAIN s = 1 .. Len(s) /\ DOMAIN Append(s, x) = 1 .. Len(s) + 1
         /\ \A i \in 1 .. Len(s) : Append(s, x)[i] = s[i]
         /\ Append(s, x)[Len(s) + 1] = x
  OBVIOUS

LEMMA TailEvents ==
  ASSUME NEW s \in Seq(Event), s # <<>>
  PROVE  /\ Len(s) \in Nat \ {0} /\ Len(Tail(s)) = Len(s) - 1
         /\ DOMAIN s = 1 .. Len(s) /\ DOMAIN Tail(s) = 1 .. Len(s) - 1
         /\ \A i \in 1 .. Len(s) - 1 : Tail(s)[i] = s[i + 1]
         /\ Head(s) = s[1]
  OBVIOUS

\* The service moves what is owed into the queue, and only Terminate drops any.
LEMMA ServiceOwes ==
  ASSUME TypeInv, SessionOrder, Service
  PROVE  SessionOrder' /\ Owed' \subseteq Owed
  <1>1. SessionTypeOK
    BY DEF TypeInv, TypeOK
  <1>2. CASE Terminate
    <2>1. up /\ ~up' /\ queue' = Append(queue, SessionTerminated) /\ pending' = {} /\ lastId' = lastId
      BY <1>2 DEF Terminate
    <2>2. \A i \in DOMAIN queue : queue[i].type # "SESSION_STATUS"
      BY <2>1 DEF SessionOrder
    <2>3. SessionTerminated.type = "SESSION_STATUS" /\ SessionTerminated.req.id = 0
      BY DEF SessionTerminated, NoRequest
    <2>4. SessionOrder'
      BY <1>1, <2>1, <2>2, <2>3, AppendEvents, BlankEvents DEF SessionOrder, SessionTypeOK, Final, RequestEventTypes, AnswerTypes
    <2>5. Owed' \subseteq Owed
      BY <1>1, <2>1, <2>3, AppendEvents, BlankEvents, OwedIff, OwedIffNext
         DEF SessionTypeOK, RequestEventTypes, AnswerTypes
    <2> QED BY <2>4, <2>5
  <1>3. ASSUME NEW p \in pending,
               PartialAnswer(p) \/ FinalAnswer(p) \/ ErrorAnswer(p) \/ RequestFailure(p)
        PROVE  SessionOrder' /\ Owed' \subseteq Owed
    <2>1. p \in [req : Request, sent : Nat] /\ queue \in Seq(Event) /\ lastId \in Nat
      BY <1>1, <1>3 DEF SessionTypeOK
    <2>2. up' = up /\ up /\ lastId' = lastId /\ p.req.id \in 1 .. lastId
      BY <1>1, <1>3, <2>1 DEF PartialAnswer, FinalAnswer, ErrorAnswer, RequestFailure, SessionOrder, SessionTypeOK
    <2>3. CASE PartialAnswer(p)
      <3> DEFINE p2 == [p EXCEPT !.sent = @ + 1]
      <3>1. PICK x \in Event : /\ queue' = Append(queue, x) /\ x.req = p.req
                               /\ x.type = "PARTIAL_RESPONSE"
        <4>1. PICK b \in {"data", "unusable"} : Emit(p, "PARTIAL_RESPONSE", b)
          BY <2>3 DEF PartialAnswer, Bodies
        <4> DEFINE x == [type |-> "PARTIAL_RESPONSE", req |-> p.req, part |-> p.sent + 1, body |-> b]
        <4>2. x \in Event
          BY <2>1 DEF Event, RequestEventTypes, AnswerTypes
        <4> QED BY <4>1, <4>2 DEF Emit
      <3>2. pending' = (pending \ {p}) \cup {p2} /\ p2.req = p.req
        BY <2>1, <2>3, BumpType DEF PartialAnswer
      <3>3. p.req.class \notin SingleAnswer
        BY <2>3 DEF PartialAnswer, MayGoOn, SingleAnswer
      <3> HIDE DEF p2
      <3>4. SessionOrder'
        BY <2>1, <2>2, <3>1, <3>2, <3>3, AppendEvents, SMTT(20) DEF SessionOrder, Final, RequestEventTypes, AnswerTypes
      <3>5. Owed' \subseteq Owed
        BY <1>3, <2>1, <3>1, <3>2, AppendEvents, OwedIff, OwedIffNext
      <3> QED BY <3>4, <3>5
    <2>4. CASE FinalAnswer(p) \/ ErrorAnswer(p) \/ RequestFailure(p)
      <3>1. PICK x \in Event : /\ queue' = Append(queue, x) /\ x.req = p.req
                               /\ x.type \in {"RESPONSE", "REQUEST_STATUS"}
        <4>1. PICK t \in {"RESPONSE", "REQUEST_STATUS"}, b \in {"data", "unusable", "error"} : Emit(p, t, b)
          BY <2>4 DEF FinalAnswer, ErrorAnswer, RequestFailure, Bodies
        <4> DEFINE x == [type |-> t, req |-> p.req, part |-> p.sent + 1, body |-> b]
        <4>2. x \in Event
          BY <2>1 DEF Event, RequestEventTypes, AnswerTypes
        <4> QED BY <4>1, <4>2 DEF Emit
      <3>2. pending' = pending \ {p}
        BY <2>4 DEF FinalAnswer, ErrorAnswer, RequestFailure
      <3>3. SessionOrder'
        BY <1>3, <2>1, <2>2, <3>1, <3>2, AppendEvents DEF SessionOrder, Final, RequestEventTypes, AnswerTypes
      <3>4. Owed' \subseteq Owed
        BY <1>3, <2>1, <3>1, <3>2, AppendEvents, OwedIff, OwedIffNext
      <3> QED BY <3>3, <3>4
    <2> QED BY <1>3, <2>3, <2>4
  <1> QED BY <1>2, <1>3 DEF Service, Answer

\* Reading an event only lessens what is owed; a final event settles its request,
\* and after SessionTerminated nothing is owed.
LEMMA ReadOwes ==
  ASSUME TypeInv, SessionOrder, queue # <<>>, NextEvent(Head(queue))
  PROVE  LET e == Head(queue) IN
         /\ SessionOrder'
         /\ Owed' \subseteq Owed
         /\ Final(e) => e.req.id \in Owed \ Owed'
         /\ e.type = "SESSION_STATUS" => Owed' = {}
         /\ e.type = "PARTIAL_RESPONSE" => e.req.class \notin SingleAnswer
         /\ last' = e
  <1> DEFINE e == Head(queue)
  <1>1. queue \in Seq(Event) /\ pending \subseteq [req : Request, sent : Nat] /\ lastId \in Nat
    BY DEF TypeInv, TypeOK, SessionTypeOK
  <1>2. UNCHANGED <<pending, lastId, up>> /\ queue' = Tail(queue) /\ last' = e
    BY DEF NextEvent
  <1>3. e = queue[1] /\ 1 \in DOMAIN queue
    BY <1>1, TailEvents
  <1>4. SessionOrder'
    BY <1>1, <1>2, TailEvents DEF SessionOrder, Final, RequestEventTypes, AnswerTypes
  <1>5. Owed' \subseteq Owed
    BY <1>1, <1>2, TailEvents, OwedIff, OwedIffNext
  <1>6. ASSUME Final(e)
        PROVE  e.req.id \in Owed /\ e.req.id \notin Owed'
    <2>1. e.req.id \in Owed
      BY <1>3, <1>6, OwedIff DEF Final, RequestEventTypes, AnswerTypes
    <2>2. \A p \in pending' : p.req.id # e.req.id
      BY <1>2, <1>3, <1>6 DEF SessionOrder
    <2>3. \A i \in DOMAIN queue' : queue'[i].req.id # e.req.id
      BY <1>1, <1>2, <1>3, <1>6, TailEvents DEF SessionOrder
    <2> QED BY <2>1, <2>2, <2>3, OwedIffNext
  <1>7. ASSUME e.type = "SESSION_STATUS"
        PROVE  Owed' = {}
    <2>1. Len(queue) = 1 /\ pending' = {}
      BY <1>2, <1>3, <1>7 DEF SessionOrder
    <2>2. DOMAIN queue' = {}
      BY <1>1, <1>2, <2>1, TailEvents
    <2> QED BY <2>1, <2>2, OwedIffNext
  <1>8. e.type = "PARTIAL_RESPONSE" => e.req.class \notin SingleAnswer
    BY <1>3 DEF SessionOrder
  <1> QED BY <1>2, <1>4, <1>5, <1>6, <1>7, <1>8

\* A call that reads a final answer while in step is owed nothing any more, and
\* every normal end but that of bds and getPortfolio is at a final event.
LEMMA ReadInStep ==
  ASSUME InStepInv, ReadEvent
  PROVE  InStep'
  <1> DEFINE e == Head(queue)
  <1>1. TypeInv /\ SessionOrder /\ queue # <<>>
    BY DEF InStepInv, InStep, ReadEvent
  <1>2. NextEvent(e)
    BY DEF ReadEvent, IgnoreEvent, StopOnStatus, EndWithSession, ReadFieldInfo, SwallowError,
           ReadData, StopOnAnswer
  <1>3. /\ SessionOrder' /\ Owed' \subseteq Owed
        /\ Final(e) => e.req.id \in Owed \ Owed'
        /\ e.type = "SESSION_STATUS" => Owed' = {}
        /\ e.type = "PARTIAL_RESPONSE" => e.req.class \notin SingleAnswer
        /\ last' = e
    BY <1>1, <1>2, ReadOwes
  <1>4. pc = "wait" /\ clean' = clean /\ mine' = mine /\ call' = call
    BY <1>2 DEF NextEvent
  <1>5. CASE clean
    <2>1. mine # <<>> /\ Owed \subseteq {Last(mine)}
      BY <1>4, <1>5 DEF InStepInv, InStep
    <2>2. Final(e) \/ e.type = "SESSION_STATUS" => Owed' = {}
      BY <1>3, <2>1
    <2>3. \/ pc' = "wait"
          \/ pc' = "idle" /\ outcome' # "ok"
          \/ pc' \in {"send", "idle"} /\ (Final(e) \/ e.type = "SESSION_STATUS")
          \/ pc' = "idle" /\ e.type = "PARTIAL_RESPONSE" /\ call.fn \in ReturnAtFirst
      <3>1. CASE IgnoreEvent(e)
        BY <1>4, <3>1 DEF IgnoreEvent
      <3>2. CASE StopOnStatus(e) \/ StopOnAnswer(e)
        BY <3>2 DEF StopOnStatus, StopOnAnswer, Return
      <3>3. CASE EndWithSession(e)
        BY <3>3 DEF EndWithSession, Return
      <3>4. CASE ReadFieldInfo(e)
        BY <1>4, <3>4 DEF ReadFieldInfo, Return, Final, AnswerTypes
      <3>5. CASE SwallowError(e)
        BY <1>4, <3>5 DEF SwallowError, Return, Final
      <3>6. CASE ReadData(e)
        <4>1. CASE ~EndsAt(e)
          BY <1>4, <3>6, <4>1 DEF ReadData
        <4>2. CASE EndsAt(e) /\ call.fn # "authenticateWithApp"
          BY <3>6, <4>2 DEF ReadData, EndsAt, Return, AnswerTypes, Final
        <4>3. CASE EndsAt(e) /\ call.fn = "authenticateWithApp"
          <5>1. e.req.class = AnswerClass(call.fn)
            BY <3>6, <4>3 DEF ReadData, MayPass, BdpPasses, BdhPasses, SearchPasses
          <5>2. e.req.class \in SingleAnswer
            BY <4>3, <5>1 DEF AnswerClass, SingleAnswer, Authenticate
          <5>3. e.type = "RESPONSE"
            BY <1>3, <3>6, <5>2 DEF ReadData, AnswerTypes
          <5> QED BY <3>6, <4>3, <5>3 DEF ReadData, Return, Final
        <4> QED BY <4>1, <4>2, <4>3
      <3> QED BY <3>1, <3>2, <3>3, <3>4, <3>5, <3>6 DEF ReadEvent
    <2> QED BY <1>3, <1>4, <2>1, <2>2, <2>3 DEF InStep, SuccessLeavesNothingOwed, Ended
  <1>6. CASE ~clean
    BY <1>3, <1>4, <1>6 DEF InStep
  <1> QED BY <1>5, <1>6

LEMMA SendInStep ==
  ASSUME InStepInv, Send
  PROVE  InStep'
  <1>1. PICK req \in Request : /\ req.id = lastId + 1
                               /\ pending' = pending \cup {[req |-> req, sent |-> 0]}
    <2> DEFINE q == Head(todo)
               r == [id |-> lastId + 1, class |-> q.class, secs |-> q.secs, flds |-> q.flds]
    <2>1. todo \in Seq(QueryType) /\ todo # <<>> /\ lastId \in Nat
      BY DEF InStepInv, TypeInv, TypeOK, SessionTypeOK, QueryType, Send
    <2>2. q \in QueryType
      BY <2>1
    <2>3. r \in Request
      BY <2>1, <2>2 DEF Request, QueryType
    <2> QED BY <2>3 DEF Send, SendRequest
  <1>2. /\ lastId \in Nat /\ lastId' = lastId + 1 /\ up /\ queue' = queue /\ up' = up
        /\ mine' = Append(mine, lastId') /\ mine \in Seq(Nat) /\ pc = "send" /\ pc' = "wait"
        /\ clean' = clean
    BY DEF InStepInv, TypeInv, TypeOK, SessionTypeOK, Send, SendRequest
  <1>3. SessionOrder'
    BY <1>1, <1>2 DEF InStepInv, InStep, SessionOrder, Final, RequestEventTypes, AnswerTypes
  <1>4. Last(mine') = lastId' /\ mine' # <<>>
    BY <1>2 DEF Last
  <1>5. Owed' \subseteq Owed \cup {lastId'}
    BY <1>1, <1>2, OwedIff, OwedIffNext
  <1> QED BY <1>2, <1>3, <1>4, <1>5 DEF InStepInv, InStep

LEMMA InStepNext ==
  ASSUME InStepInv, [Next]_vars
  PROVE  InStepInv'
  <1>1. TypeInv'
    BY TypeNext DEF InStepInv
  <1>2. CASE ReadEvent
    BY <1>1, <1>2, ReadInStep DEF InStepInv
  <1>3. CASE Send
    BY <1>1, <1>3, SendInStep DEF InStepInv
  <1>4. ASSUME UNCHANGED sessionVars
        PROVE  Owed' = Owed /\ SessionOrder'
    <2>1. Owed' = Owed
      BY <1>4 DEF sessionVars, Owed
    <2>2. SessionOrder'
      BY <1>4 DEF InStepInv, InStep, sessionVars, SessionOrder
    <2> QED BY <2>1, <2>2
  <1>5. ASSUME NEW c \in Calls, StartCall(c)
        PROVE  InStepInv'
    <2>1. Owed' = Owed /\ SessionOrder' /\ pc' = "send" /\ clean' = (Owed = {})
      BY <1>4, <1>5 DEF StartCall
    <2> QED BY <1>1, <2>1 DEF InStepInv, InStep
  <1>6. CASE StopUnsent \/ TimeOut
    <2>1. Owed' = Owed /\ SessionOrder' /\ pc' = "idle" /\ outcome' # "ok"
      BY <1>4, <1>6 DEF StopUnsent, TimeOut, Return
    <2>2. SuccessLeavesNothingOwed'
      BY <2>1 DEF SuccessLeavesNothingOwed, Ended
    <2> QED BY <1>1, <2>1, <2>2 DEF InStepInv, InStep
  <1>7. CASE Service
    <2>1. SessionOrder' /\ Owed' \subseteq Owed /\ UNCHANGED callVars
      BY <1>7, ServiceOwes DEF InStepInv, InStep, Service
    <2>2. UNCHANGED <<pc, call, outcome, mine, clean, last>>
      BY <2>1 DEF callVars
    <2>3. CASE pc = "idle"
      <3>1. SuccessLeavesNothingOwed'
        BY <2>1, <2>2, <2>3 DEF InStepInv, InStep, SuccessLeavesNothingOwed, Ended
      <3> QED BY <1>1, <2>1, <2>2, <2>3, <3>1 DEF InStepInv, InStep
    <2>4. CASE pc \in {"send", "wait"}
      BY <1>1, <2>1, <2>2, <2>4 DEF InStepInv, InStep
    <2> QED BY <2>3, <2>4 DEF InStepInv, TypeInv, TypeOK
  <1>8. CASE UNCHANGED vars
    <2>1. Owed' = Owed /\ SessionOrder' /\ UNCHANGED callVars
      BY <1>4, <1>8 DEF vars
    <2> QED BY <1>1, <2>1 DEF InStepInv, InStep, SuccessLeavesNothingOwed, Ended, callVars
  <1> QED BY <1>2, <1>3, <1>5, <1>6, <1>7, <1>8 DEF Next, CallStep

LEMMA InStepInit == Init => InStepInv
  <1> SUFFICES ASSUME Init PROVE InStepInv
    OBVIOUS
  <1>1. queue = <<>> /\ pending = {} /\ pc = "idle" /\ outcome = "none" /\ up = TRUE
    BY DEF Init, SessionInit
  <1>2. SessionOrder
    BY <1>1 DEF SessionOrder
  <1> QED BY <1>1, <1>2, TypeInit DEF InStepInv, InStep, SuccessLeavesNothingOwed, Ended

\* The inductive invariant holds of every behaviour.
THEOREM SessionInStep == Spec => []InStep
  <1>1. InStepInv => InStep
    BY DEF InStepInv
  <1> QED BY <1>1, InStepInit, InStepNext, PTL DEF Spec

\* A call begun with nothing owed that returns normally leaves nothing owed
\* (bds and getPortfolio returning at a PARTIAL_RESPONSE excepted), so that
\* normal calls alone never put the session out of step.
THEOREM SuccessKeepsStep == Spec => []SuccessLeavesNothingOwed
  <1>1. InStepInv => SuccessLeavesNothingOwed
    <2>1. InStepInv /\ clean /\ Ended("ok") => SuccessLeavesNothingOwed
      BY DEF InStepInv, InStep, Ended
    <2> QED BY <2>1 DEF SuccessLeavesNothingOwed
  <1> QED BY <1>1, InStepInit, InStepNext, PTL DEF Spec

-----------------------------------------------------------------------------
(* A call of its own *)

\* The request the call sent last, as its plan has it.
Asked == Plan(call)[Len(mine)]
IsOwn(req) ==
  /\ req.id = Last(mine)
  /\ req.class = Asked.class /\ req.secs = Asked.secs /\ req.flds = Asked.flds

Awaited(i) == queue[i].type \in RequestEventTypes

\* Parts of the answer the call has read: beqs and bsrch keep the last of them.
PartsRead == IF got = <<>> THEN 0 ELSE Last(got).part

\* How far the call is in its plan.
Progress ==
  pc # "idle" =>
    /\ call \in Calls
    /\ Len(mine) + Len(todo) = Len(Plan(call))
    /\ \A i \in DOMAIN todo : todo[i] = Plan(call)[Len(mine) + i]
    /\ Len(types) = IF pc = "send" THEN Len(mine) ELSE Len(mine) - 1
    /\ pc = "send" \/ ReadingTypes => got = <<>>

\* What the service keeps to: an error is a whole answer, and a history has one
\* part for each security.
Honest ==
  /\ \A p \in pending : p.req.class = "Historical" => p.sent < Len(p.req.secs)
  /\ \A i \in DOMAIN queue :
       /\ queue[i].body = "error" => Final(queue[i])
       /\ queue[i].body = "error" /\ queue[i].type = "RESPONSE" => queue[i].part = 1
       /\ Awaited(i) /\ queue[i].req.class = "Historical" =>
            /\ queue[i].part <= Len(queue[i].req.secs)
            /\ queue[i].type = "RESPONSE" /\ queue[i].body # "error" =>
                 queue[i].part = Len(queue[i].req.secs)

\* All that is still to come is for the last request of the call,
OnlyOwn ==
  /\ \A p \in pending : IsOwn(p.req)
  /\ \A i \in DOMAIN queue : Awaited(i) => IsOwn(queue[i].req)

\* and comes in order, from the part after those read.
InOrder ==
  /\ \A i \in DOMAIN queue : Awaited(i) =>
       /\ PartsRead < queue[i].part
       /\ \/ queue[i].part = PartsRead + 1
          \/ \E j \in 1 .. i - 1 : Awaited(j) /\ queue[j].part = queue[i].part - 1
       /\ \A j \in 1 .. i - 1 : Awaited(j) => queue[j].part < queue[i].part
  /\ \A p \in pending :
       /\ PartsRead <= p.sent
       /\ \A i \in DOMAIN queue : Awaited(i) => queue[i].part <= p.sent
       /\ p.sent = PartsRead \/ \E i \in DOMAIN queue : Awaited(i) /\ queue[i].part = p.sent

\* What has been gathered is the call's own.
TypesOwn == \A i \in DOMAIN types : types[i].req.id = mine[i]

GotOwn ==
  /\ \A i \in DOMAIN got : got[i].req.id = Last(mine)
  /\ CASE call.fn \in ReturnAtFirst \cup Authenticate -> got = <<>>
       [] call.fn \in KeepLast -> Len(got) <= 1
       [] OTHER -> \A i \in DOMAIN got : got[i].part = i

CleanInv ==
  clean =>
    /\ pc # "idle" => TypesOwn
    /\ pc = "wait" => OnlyOwn /\ InOrder /\ GotOwn

AnswerInv ==
  /\ InStepInv
  /\ Progress
  /\ Honest
  /\ CleanInv
  /\ CleanCallReturnsItsOwnAnswer
  /\ CleanCallRejectsOnlyErrors

-----------------------------------------------------------------------------
(* The plan of a call *)

\* What the call asks for next is a field's information or its data.
LEMMA PlanParts ==
  ASSUME NEW c \in Calls
  PROVE  /\ c.fn \in Fns /\ c.fn \in AllFns
         /\ c.fn \in {"bdp", "bdh"} => c.secs # <<>>
         /\ c.secs \in Seq(Names) /\ c.flds \in Seq(Names)
         /\ Plan(c) \in Seq(QueryType)
         /\ Len(Plan(c)) = IF c.fn = "fieldInfo" THEN Len(c.flds)
                           ELSE IF c.fn \in TypedFns THEN Len(c.flds) + 1 ELSE 1
         /\ \A i \in 1 .. Len(Plan(c)) :
              IF c.fn = "fieldInfo" \/ (c.fn \in TypedFns /\ i < Len(Plan(c)))
              THEN Plan(c)[i].class = "FieldInfo" ELSE Plan(c)[i] = DataRequest(c)
  <1>1. c \in [fn : AllFns, secs : Seq(Names), flds : Seq(Names)] /\ Plan(c) \in Seq(QueryType)
    BY CallsType, PlanType
  <1>2. c.fn \in Fns
    BY DEF Calls, BdpCalls, BdhCalls, BulkCalls, FieldInfoCalls, QueryCalls
  <1>3. c.fn \in {"bdp", "bdh"} => c.secs # <<>>
    <2>1. c.fn \in {"bdp", "bdh"} => c.secs \in SecLists
      BY DEF Calls, BdpCalls, BdhCalls, BulkCalls, FieldInfoCalls, QueryCalls,
             ReturnAtFirst, KeepLast, Collect, Authenticate
    <2> QED BY <2>1, SessionAssumption
  <1>4. /\ Len(c.flds) \in Nat /\ DOMAIN c.flds = 1 .. Len(c.flds)
        /\ Len(FieldRequests(c)) = Len(c.flds) /\ DOMAIN FieldRequests(c) = 1 .. Len(c.flds)
    BY <1>1 DEF FieldRequests
  <1>5. \A i \in 1 .. Len(c.flds) :
          FieldRequests(c)[i] = [class |-> "FieldInfo", secs |-> <<c.flds[i]>>, flds |-> <<>>]
    BY <1>4 DEF FieldRequests
  <1>6. FieldRequests(c) \in Seq(QueryType)
    <2>1. \A i \in DOMAIN c.flds : <<c.flds[i]>> \in Seq(Names)
      BY <1>1
    <2> QED BY <2>1, <1>4, IsASeq DEF FieldRequests, QueryType, Classes
  <1>7. CASE c.fn = "fieldInfo"
    <2>1. Plan(c) = FieldRequests(c)
      BY <1>7 DEF Plan, TypedFns
    <2> QED BY <1>1, <1>2, <1>3, <1>4, <1>5, <1>7, <2>1 DEF TypedFns
  <1>8. CASE c.fn # "fieldInfo" /\ c.fn \in TypedFns
    <2>1. Plan(c) = Append(FieldRequests(c), DataRequest(c))
      BY <1>8 DEF Plan
    <2> QED BY <1>1, <1>2, <1>3, <1>4, <1>5, <1>6, <1>8, <2>1
  <1>9. CASE c.fn # "fieldInfo" /\ c.fn \notin TypedFns
    <2>1. Plan(c) = <<DataRequest(c)>>
      BY <1>9 DEF Plan
    <2> QED BY <1>1, <1>2, <1>3, <1>9, <2>1
  <1> QED BY <1>7, <1>8, <1>9

\* A waiting call waits for a field's information or for its data.
LEMMA AskedIs ==
  ASSUME TypeInv, Progress, pc = "wait"
  PROVE  /\ Len(mine) \in Nat \ {0}
         /\ ReadingTypes => Asked.class = "FieldInfo"
         /\ ~ReadingTypes => Asked = DataRequest(call)
         /\ ~ReadingTypes => todo = <<>>
         /\ call.fn \in AllFns
         /\ call.fn \in {"bdp", "bdh"} => call.secs # <<>>
  <1>1. /\ call \in Calls /\ Len(mine) + Len(todo) = Len(Plan(call)) /\ Len(types) = Len(mine) - 1
        /\ types \in Seq(Event) /\ mine \in Seq(Nat) /\ todo \in Seq(QueryType)
    BY DEF Progress, TypeInv, TypeOK, QueryType
  <1>2. Len(mine) \in Nat \ {0} /\ Len(todo) \in Nat
    BY <1>1
  <1>3. Len(mine) \in 1 .. Len(Plan(call)) /\ (todo = <<>> <=> Len(mine) = Len(Plan(call)))
    BY <1>1, <1>2, PlanParts
  <1>4. CASE ReadingTypes
    <2>1. call.fn = "fieldInfo" \/ (call.fn \in TypedFns /\ Len(mine) < Len(Plan(call)))
      BY <1>1, <1>2, <1>3, <1>4 DEF ReadingTypes
    <2>2. Asked.class = "FieldInfo"
      BY <1>1, <1>3, <2>1, PlanParts DEF Asked
    <2> QED BY <1>1, <1>2, <1>4, <2>2, PlanParts
  <1>5. CASE ~ReadingTypes
    <2>1. call.fn # "fieldInfo" /\ (call.fn \in TypedFns => Len(mine) = Len(Plan(call)))
      BY <1>3, <1>5 DEF ReadingTypes
    <2>2. Asked = DataRequest(call)
      <3>1. ~(call.fn = "fieldInfo" \/ (call.fn \in TypedFns /\ Len(mine) < Len(Plan(call))))
        BY <1>2, <2>1
      <3> QED BY <1>1, <1>3, <3>1, PlanParts DEF Asked
    <2>3. todo = <<>>
      <3>1. CASE call.fn \in TypedFns
        BY <1>3, <2>1, <3>1
      <3>2. CASE call.fn \notin TypedFns
        <4>1. Len(Plan(call)) = 1
          BY <1>1, <2>1, <3>2, PlanParts
        <4> QED BY <1>2, <1>3, <4>1
      <3> QED BY <3>1, <3>2
    <2> QED BY <1>1, <1>2, <1>5, <2>2, <2>3, PlanParts
  <1> QED BY <1>4, <1>5

-----------------------------------------------------------------------------
(* Parts come in order *)

\* The first event that is awaited is the next part.
LEMMA NextPart ==
  ASSUME TypeInv, InOrder, queue # <<>>, Awaited(1)
  PROVE  queue[1].part = PartsRead + 1
  <1>1. queue \in Seq(Event) /\ 1 \in DOMAIN queue
    BY DEF TypeInv, TypeOK, SessionTypeOK
  <1> QED BY <1>1 DEF InOrder

LEMMA PartsReadType ==
  ASSUME TypeInv
  PROVE  PartsRead \in Nat
  <1>1. got \in Seq(Event)
    BY DEF TypeInv, TypeOK
  <1>2. got # <<>> => Last(got) \in Event
    BY <1>1 DEF Last
  <1> QED BY <1>2 DEF PartsRead, Event

\* Reading an event that is not awaited changes nothing of the order,
LEMMA ReadOther ==
  ASSUME TypeInv, InOrder, queue # <<>>, ~Awaited(1),
         queue' = Tail(queue), UNCHANGED <<pending, got>>
  PROVE  InOrder'
  <1>1. queue \in Seq(Event) /\ PartsRead' = PartsRead
    BY DEF TypeInv, TypeOK, SessionTypeOK, PartsRead
  <1>2. /\ Len(queue) \in Nat \ {0} /\ DOMAIN queue = 1 .. Len(queue)
        /\ DOMAIN queue' = 1 .. Len(queue) - 1
        /\ \A i \in 1 .. Len(queue) - 1 : queue'[i] = queue[i + 1]
    BY <1>1, TailEvents
  <1>3. \A i \in 1 .. Len(queue) - 1 : Awaited(i)' = Awaited(i + 1)
    BY <1>2 DEF Awaited
  <1>4. ASSUME NEW i \in DOMAIN queue', Awaited(i)'
        PROVE  /\ PartsRead' < queue'[i].part
               /\ \/ queue'[i].part = PartsRead' + 1
                  \/ \E j \in 1 .. i - 1 : Awaited(j)' /\ queue'[j].part = queue'[i].part - 1
               /\ \A j \in 1 .. i - 1 : Awaited(j)' => queue'[j].part < queue'[i].part
    <2>1. i + 1 \in DOMAIN queue /\ Awaited(i + 1) /\ queue'[i] = queue[i + 1]
      BY <1>2, <1>3, <1>4
    <2>2. \A j \in 1 .. i - 1 : Awaited(j)' => queue'[j].part < queue'[i].part
      BY <1>2, <1>3, <2>1 DEF InOrder
    <2>3. ASSUME NEW j \in 1 .. (i + 1) - 1, Awaited(j), queue[j].part = queue[i + 1].part - 1
          PROVE  \E k \in 1 .. i - 1 : Awaited(k)' /\ queue'[k].part = queue'[i].part - 1
      <3>1. j - 1 \in 1 .. i - 1 /\ Awaited(j - 1)' /\ queue'[j - 1] = queue[j]
        BY <1>2, <1>3, <2>1, <2>3
      <3> QED BY <2>1, <2>3, <3>1
    <2> QED BY <1>1, <2>1, <2>2, <2>3 DEF InOrder
  <1>5. ASSUME NEW p \in pending'
        PROVE  /\ PartsRead' <= p.sent
               /\ \A i \in DOMAIN queue' : Awaited(i)' => queue'[i].part <= p.sent
               /\ p.sent = PartsRead' \/ \E i \in DOMAIN queue' : Awaited(i)' /\ queue'[i].part = p.sent
    <2>1. ASSUME NEW i \in DOMAIN queue, Awaited(i), queue[i].part = p.sent
          PROVE  \E k \in DOMAIN queue' : Awaited(k)' /\ queue'[k].part = p.sent
      <3>1. i - 1 \in DOMAIN queue' /\ Awaited(i - 1)' /\ queue'[i - 1] = queue[i]
        BY <1>2, <1>3, <2>1
      <3> QED BY <2>1, <3>1
    <2> QED BY <1>1, <1>2, <1>3, <2>1 DEF InOrder
  <1> QED BY <1>4, <1>5 DEF InOrder

\* and reading the next part counts it.
LEMMA ReadPart ==
  ASSUME TypeInv, InOrder, queue # <<>>, Awaited(1),
         queue' = Tail(queue), UNCHANGED pending, PartsRead' = queue[1].part
  PROVE  InOrder'
  <1>1. /\ queue \in Seq(Event) /\ PartsRead \in Nat /\ PartsRead' = PartsRead + 1
        /\ pending \subseteq [req : Request, sent : Nat]
    BY NextPart, PartsReadType DEF TypeInv, TypeOK, SessionTypeOK
  <1>2. /\ Len(queue) \in Nat \ {0} /\ DOMAIN queue = 1 .. Len(queue)
        /\ DOMAIN queue' = 1 .. Len(queue) - 1
        /\ \A i \in 1 .. Len(queue) - 1 : queue'[i] = queue[i + 1]
        /\ \A i \in 1 .. Len(queue) : queue[i].part \in Nat
    <2>1. \A i \in DOMAIN queue : queue[i] \in Event
      BY <1>1
    <2> QED BY <1>1, <2>1, TailEvents DEF Event
  <1>3. \A i \in 1 .. Len(queue) - 1 : Awaited(i)' = Awaited(i + 1)
    BY <1>2 DEF Awaited
  <1>4. ASSUME NEW i \in DOMAIN queue', Awaited(i)'
        PROVE  /\ PartsRead' < queue'[i].part
               /\ \/ queue'[i].part = PartsRead' + 1
                  \/ \E j \in 1 .. i - 1 : Awaited(j)' /\ queue'[j].part = queue'[i].part - 1
               /\ \A j \in 1 .. i - 1 : Awaited(j)' => queue'[j].part < queue'[i].part
    <2>1. i + 1 \in DOMAIN queue /\ Awaited(i + 1) /\ queue'[i] = queue[i + 1]
      BY <1>2, <1>3, <1>4
    <2>2. \A j \in 1 .. i - 1 : Awaited(j)' => queue'[j].part < queue'[i].part
      BY <1>2, <1>3, <2>1 DEF InOrder
    <2>3. 1 \in 1 .. (i + 1) - 1
      BY <1>2
    <2>4. queue[1].part < queue[i + 1].part
      BY <2>1, <2>3 DEF InOrder
    <2>5. PartsRead' < queue'[i].part
      BY <1>1, <2>1, <2>4
    <2>6. PICK j \in 1 .. (i + 1) - 1 : Awaited(j) /\ queue[j].part = queue[i + 1].part - 1
      BY <1>1, <2>1, <2>5 DEF InOrder
    <2>7. CASE j = 1
      <3>1. queue'[i].part = PartsRead' + 1
        <4>1. queue[i + 1].part - 1 = PartsRead' /\ queue[i + 1].part \in Nat
          BY <1>2, <2>1, <2>6, <2>7
        <4> QED BY <1>1, <2>1, <4>1
      <3> QED BY <2>2, <2>5, <3>1
    <2>8. CASE j # 1
      <3>1. j - 1 \in 1 .. i - 1 /\ Awaited(j - 1)' /\ queue'[j - 1] = queue[j]
        BY <1>2, <1>3, <2>6, <2>8
      <3> QED BY <2>1, <2>2, <2>5, <2>6, <3>1
    <2> QED BY <2>2, <2>5, <2>7, <2>8
  <1>5. ASSUME NEW p \in pending'
        PROVE  /\ PartsRead' <= p.sent
               /\ \A i \in DOMAIN queue' : Awaited(i)' => queue'[i].part <= p.sent
               /\ p.sent = PartsRead' \/ \E i \in DOMAIN queue' : Awaited(i)' /\ queue'[i].part = p.sent
    <2>1. p \in pending /\ p.sent \in Nat
      BY <1>1
    <2>2. 1 \in DOMAIN queue
      BY <1>2
    <2>3. queue[1].part <= p.sent
      BY <2>1, <2>2 DEF InOrder
    <2>4. \A i \in DOMAIN queue' : Awaited(i)' => queue'[i].part <= p.sent
      BY <1>2, <1>3, <2>1 DEF InOrder
    <2>5. PICK i \in DOMAIN queue : Awaited(i) /\ queue[i].part = p.sent
      BY <1>1, <1>2, <2>1, <2>3 DEF InOrder
    <2>6. CASE i = 1
      BY <2>3, <2>4, <2>5, <2>6
    <2>7. CASE i # 1
      <3>1. i - 1 \in DOMAIN queue' /\ Awaited(i - 1)' /\ queue'[i - 1] = queue[i]
        BY <1>2, <1>3, <2>5, <2>7
      <3> QED BY <2>3, <2>4, <2>5, <3>1
    <2> QED BY <2>6, <2>7
  <1> QED BY <1>4, <1>5 DEF InOrder

\* So does an event queued for nobody,
LEMMA QueueOther ==
  ASSUME TypeInv, InOrder, NEW x \in Event, x.type \notin RequestEventTypes,
         queue' = Append(queue, x), pending' \subseteq pending, UNCHANGED got
  PROVE  InOrder'
  <1>1. queue \in Seq(Event) /\ PartsRead' = PartsRead
    BY DEF TypeInv, TypeOK, SessionTypeOK, PartsRead
  <1>2. PICK n \in Nat : /\ DOMAIN queue = 1 .. n /\ DOMAIN queue' = 1 .. n + 1
                         /\ \A i \in 1 .. n : queue'[i] = queue[i]
                         /\ queue'[n + 1] = x
    BY <1>1, AppendEvents
  <1>3. (\A i \in 1 .. n : Awaited(i)' <=> Awaited(i)) /\ ~Awaited(n + 1)'
    BY <1>2 DEF Awaited
  <1>4. ASSUME NEW i \in DOMAIN queue', Awaited(i)'
        PROVE  /\ i \in DOMAIN queue /\ Awaited(i) /\ queue'[i] = queue[i]
               /\ \A j \in 1 .. i - 1 : (Awaited(j)' <=> Awaited(j)) /\ queue'[j] = queue[j]
    BY <1>2, <1>3, <1>4
  <1>5. ASSUME NEW p \in pending'
        PROVE  /\ PartsRead' <= p.sent
               /\ \A i \in DOMAIN queue' : Awaited(i)' => queue'[i].part <= p.sent
               /\ p.sent = PartsRead' \/ \E i \in DOMAIN queue' : Awaited(i)' /\ queue'[i].part = p.sent
    BY <1>1, <1>2, <1>3, <1>4 DEF InOrder
  <1> QED BY <1>1, <1>4, <1>5 DEF InOrder

\* and the service adds the next part.
LEMMA QueuePart ==
  ASSUME TypeInv, InOrder, NEW p \in pending, pending = {p}, NEW x \in Event,
         x.type \in RequestEventTypes, x.part = p.sent + 1,
         queue' = Append(queue, x), \A q \in pending' : q.sent = p.sent + 1, UNCHANGED got
  PROVE  InOrder'
  <1>1. /\ queue \in Seq(Event) /\ PartsRead' = PartsRead /\ PartsRead \in Nat /\ p.sent \in Nat
    BY PartsReadType DEF TypeInv, TypeOK, SessionTypeOK, PartsRead
  <1>2. PICK n \in Nat : /\ DOMAIN queue = 1 .. n /\ DOMAIN queue' = 1 .. n + 1
                         /\ \A i \in 1 .. n : queue'[i] = queue[i] /\ queue[i] \in Event
                         /\ queue'[n + 1] = x
    BY <1>1, AppendEvents
  <1>3. /\ \A i \in 1 .. n : (Awaited(i)' <=> Awaited(i)) /\ queue[i].part \in Nat
        /\ Awaited(n + 1)'
    BY <1>2 DEF Awaited, Event
  <1>4. ASSUME NEW i \in DOMAIN queue', Awaited(i)'
        PROVE  /\ PartsRead' < queue'[i].part
               /\ \/ queue'[i].part = PartsRead' + 1
                  \/ \E j \in 1 .. i - 1 : Awaited(j)' /\ queue'[j].part = queue'[i].part - 1
               /\ \A j \in 1 .. i - 1 : Awaited(j)' => queue'[j].part < queue'[i].part
    <2>1. CASE i \in 1 .. n
      <3>1. /\ i \in DOMAIN queue /\ Awaited(i) /\ queue'[i].part = queue[i].part
            /\ \A j \in 1 .. i - 1 : (Awaited(j)' <=> Awaited(j)) /\ queue'[j].part = queue[j].part
        BY <1>2, <1>3, <1>4, <2>1
      <3> QED BY <1>1, <3>1 DEF InOrder
    <2>2. CASE i = n + 1
      <3>1. PartsRead <= p.sent /\ \A j \in 1 .. n : Awaited(j) => queue[j].part <= p.sent
        BY <1>2 DEF InOrder
      <3>2. p.sent = PartsRead \/ \E j \in 1 .. n : Awaited(j) /\ queue[j].part = p.sent
        BY <1>2 DEF InOrder
      <3>3. i - 1 = n /\ queue'[i].part = p.sent + 1
        BY <1>2, <2>2
      <3>4. PartsRead' < queue'[i].part
        BY <1>1, <3>1, <3>3
      <3>5. \A j \in 1 .. n : Awaited(j)' => queue'[j].part < queue'[i].part
        BY <1>1, <1>2, <1>3, <3>1, <3>3
      <3>6. \/ queue'[i].part = PartsRead' + 1
            \/ \E j \in 1 .. n : Awaited(j)' /\ queue'[j].part = queue'[i].part - 1
        <4>1. queue'[i].part - 1 = p.sent
          BY <1>1, <3>3
        <4>2. CASE p.sent = PartsRead
          BY <1>1, <3>3, <4>2
        <4>3. ASSUME NEW j \in 1 .. n, Awaited(j), queue[j].part = p.sent
              PROVE  Awaited(j)' /\ queue'[j].part = queue'[i].part - 1
          BY <1>2, <1>3, <4>1, <4>3
        <4> QED BY <3>2, <4>2, <4>3
      <3> QED BY <3>3, <3>4, <3>5, <3>6
    <2> QED BY <1>2, <2>1, <2>2
  <1>5. ASSUME NEW q \in pending'
        PROVE  /\ PartsRead' <= q.sent
               /\ \A i \in DOMAIN queue' : Awaited(i)' => queue'[i].part <= q.sent
               /\ q.sent = PartsRead' \/ \E i \in DOMAIN queue' : Awaited(i)' /\ queue'[i].part = q.sent
    <2>1. q.sent = p.sent + 1
      OBVIOUS
    <2>2. PartsRead <= p.sent /\ \A j \in 1 .. n : Awaited(j) => queue[j].part <= p.sent
      BY <1>2 DEF InOrder
    <2>3. \A i \in DOMAIN queue' : Awaited(i)' => queue'[i].part <= q.sent
      BY <1>1, <1>2, <1>3, <2>1, <2>2
    <2> QED BY <1>1, <1>2, <1>3, <2>1, <2>2, <2>3
  <1> QED BY <1>4, <1>5 DEF InOrder

-----------------------------------------------------------------------------
(* A call keeps to its plan *)

\* What reading an event leaves alone,
LEMMA ReadFrame ==
  ASSUME ReadEvent
  PROVE  /\ pc = "wait" /\ queue # <<>> /\ queue' = Tail(queue) /\ last' = Head(queue)
         /\ UNCHANGED <<pending, lastId, up, call, mine, clean>>
  BY DEF ReadEvent, IgnoreEvent, StopOnStatus, EndWithSession, ReadFieldInfo, SwallowError,
         ReadData, StopOnAnswer, NextEvent

\* and what it changes while the call goes on.
LEMMA ReadGoesOn ==
  ASSUME ReadEvent
  PROVE  LET e == Head(queue) IN
         \/ pc' = "idle"
         \/ /\ pc' = "wait" /\ UNCHANGED <<todo, types, got>>
            /\ IgnoreEvent(e) \/ ReadFieldInfo(e) \/ SwallowError(e)
         \/ /\ pc' = "wait" /\ UNCHANGED <<todo, types>>
            /\ ReadData(e) /\ ~EndsAt(e)
         \/ /\ pc' = "send" /\ ReadFieldInfo(e) /\ e.type # "PARTIAL_RESPONSE"
            /\ types' = Append(types, e) /\ UNCHANGED <<todo, got>> /\ todo # <<>>
  <1> DEFINE e == Head(queue)
  <1>1. pc = "wait"
    BY ReadFrame
  <1>2. CASE StopOnStatus(e) \/ EndWithSession(e) \/ StopOnAnswer(e)
    BY <1>2 DEF StopOnStatus, EndWithSession, StopOnAnswer, Return
  <1>3. CASE IgnoreEvent(e)
    BY <1>1, <1>3 DEF IgnoreEvent
  <1>4. CASE ReadFieldInfo(e)
    BY <1>1, <1>4 DEF ReadFieldInfo, Return
  <1>5. CASE SwallowError(e)
    BY <1>1, <1>5 DEF SwallowError, Return
  <1>6. CASE ReadData(e)
    BY <1>1, <1>6 DEF ReadData, Return
  <1> QED BY <1>2, <1>3, <1>4, <1>5, <1>6 DEF ReadEvent

LEMMA ProgressRead ==
  ASSUME TypeInv, Progress, ReadEvent
  PROVE  Progress'
  <1> DEFINE e == Head(queue)
  <1>1. pc = "wait" /\ UNCHANGED <<call, mine>>
    BY ReadFrame
  <1>2. /\ call \in Calls /\ Len(mine) + Len(todo) = Len(Plan(call)) /\ Len(types) = Len(mine) - 1
        /\ \A i \in DOMAIN todo : todo[i] = Plan(call)[Len(mine) + i]
        /\ types \in Seq(Event) /\ mine \in Seq(Nat) /\ todo \in Seq(QueryType)
    BY <1>1 DEF Progress, TypeInv, TypeOK, QueryType
  <1>3. CASE pc' = "idle"
    BY <1>3 DEF Progress
  <1>4. CASE pc' = "wait" /\ UNCHANGED <<todo, types, got>>
    BY <1>1, <1>4 DEF Progress, ReadingTypes
  <1>5. CASE pc' = "wait" /\ UNCHANGED <<todo, types>> /\ ReadData(e)
    <2>1. ~ReadingTypes'
      BY <1>1, <1>5 DEF ReadData, ReadingTypes
    <2> QED BY <1>1, <1>5, <2>1 DEF Progress
  <1>6. CASE pc' = "send" /\ ReadFieldInfo(e) /\ types' = Append(types, e) /\ UNCHANGED <<todo, got>>
    <2>1. Len(types') = Len(types) + 1
      BY <1>2, <1>6
    <2>2. got' = <<>>
      BY <1>1, <1>6 DEF Progress, ReadFieldInfo
    <2> QED BY <1>1, <1>2, <1>6, <2>1, <2>2 DEF Progress
  <1> QED BY <1>3, <1>4, <1>5, <1>6, ReadGoesOn

LEMMA ProgressSend ==
  ASSUME TypeInv, Progress, Send
  PROVE  Progress' /\ Asked' = Head(todo) /\ Last(mine') = lastId'
  <1>1. /\ pc = "send" /\ pc' = "wait" /\ todo' = Tail(todo) /\ mine' = Append(mine, lastId')
        /\ lastId' = lastId + 1 /\ UNCHANGED <<call, types, got>>
    BY DEF Send, SendRequest
  <1>2. /\ call \in Calls /\ Len(mine) + Len(todo) = Len(Plan(call)) /\ Len(types) = Len(mine)
        /\ \A i \in DOMAIN todo : todo[i] = Plan(call)[Len(mine) + i]
        /\ types \in Seq(Event) /\ mine \in Seq(Nat) /\ todo \in Seq(QueryType) /\ todo # <<>>
        /\ got = <<>> /\ lastId \in Nat
    BY <1>1 DEF Progress, TypeInv, TypeOK, SessionTypeOK, QueryType
  <1>3. Len(mine') = Len(mine) + 1 /\ Last(mine') = lastId'
    BY <1>1, <1>2 DEF Last
  <1>4. /\ Len(todo') = Len(todo) - 1 /\ DOMAIN todo' = 1 .. Len(todo) - 1
        /\ \A i \in 1 .. Len(todo) - 1 : todo'[i] = todo[i + 1]
        /\ DOMAIN todo = 1 .. Len(todo) /\ Len(todo) \in Nat \ {0} /\ Head(todo) = todo[1]
        /\ Len(mine) \in Nat
    BY <1>1, <1>2
  <1>5. \A i \in DOMAIN todo' : todo'[i] = Plan(call)[Len(mine') + i]
    <2> SUFFICES ASSUME NEW i \in 1 .. Len(todo) - 1
                 PROVE  todo'[i] = Plan(call)[Len(mine') + i]
      BY <1>4
    <2>1. i + 1 \in DOMAIN todo /\ Len(mine) + (i + 1) = Len(mine') + i
      BY <1>3, <1>4
    <2> QED BY <1>2, <1>4, <2>1
  <1>6. Asked' = Head(todo)
    <2>1. 1 \in DOMAIN todo
      BY <1>4
    <2> QED BY <1>1, <1>2, <1>3, <1>4, <2>1 DEF Asked
  <1>7. Progress'
    BY <1>1, <1>2, <1>3, <1>4, <1>5 DEF Progress
  <1> QED BY <1>3, <1>6, <1>7

LEMMA ProgressStart ==
  ASSUME TypeInv, NEW c \in Calls, StartCall(c)
  PROVE  Progress'
  <1>1. /\ pc' = "send" /\ call' = c /\ mine' = <<>> /\ types' = <<>> /\ got' = <<>> /\ todo' = Plan(c)
    BY DEF StartCall
  <1>2. Plan(c) \in Seq(QueryType)
    BY PlanParts
  <1> QED BY <1>1, <1>2 DEF Progress

LEMMA ProgressNext ==
  ASSUME TypeInv, Progress, [Next]_vars
  PROVE  Progress'
  <1>1. CASE StopUnsent \/ TimeOut
    BY <1>1 DEF StopUnsent, TimeOut, Return, Progress
  <1>2. CASE Service \/ UNCHANGED vars
    <2>1. UNCHANGED callVars
      BY <1>2 DEF Service, vars
    <2> QED BY <2>1 DEF callVars, Progress, ReadingTypes
  <1> QED BY <1>1, <1>2, ProgressRead, ProgressSend, ProgressStart DEF Next, CallStep

-----------------------------------------------------------------------------
(* What the service sends *)

\* The session ends, or one event is queued for one pending request: a part of
\* its answer, its last, an error in its place, or a refusal.
Ends(x) == x.type = "SESSION_STATUS" /\ x.body = "none" /\ pending' = {} /\ ~up' /\ MayTerminate

Sends(p, x) ==
  /\ x.req = p.req /\ x.part = p.sent + 1 /\ up' = up
  /\ \/ /\ x.type = "PARTIAL_RESPONSE" /\ x.body # "error" /\ MayGoOn(p)
        /\ \E q \in [req : Request, sent : Nat] :
             pending' = (pending \ {p}) \cup {q} /\ q.req = p.req /\ q.sent = p.sent + 1
     \/ /\ pending' = pending \ {p}
        /\ \/ x.type = "RESPONSE" /\ x.body # "error" /\ MayEnd(p)
           \/ x.type = "RESPONSE" /\ x.body = "error" /\ p.sent = 0
           \/ x.type = "REQUEST_STATUS" /\ p.req.class \in FailingClasses

LEMMA ServiceSends ==
  ASSUME TypeInv, Service
  PROVE  /\ UNCHANGED callVars /\ lastId' = lastId
         /\ \E x \in Event : /\ queue' = Append(queue, x)
                             /\ Ends(x) \/ \E p \in pending : Sends(p, x)
  <1>1. UNCHANGED callVars /\ lastId' = lastId
    BY DEF Service, Answer, PartialAnswer, FinalAnswer, ErrorAnswer, RequestFailure, Terminate
  <1>2. CASE Terminate
    <2>1. SessionTerminated.type = "SESSION_STATUS" /\ SessionTerminated.body = "none"
      BY DEF SessionTerminated
    <2> QED BY <1>1, <1>2, <2>1, BlankEvents DEF Terminate, Ends
  <1>3. ASSUME NEW p \in pending,
               PartialAnswer(p) \/ FinalAnswer(p) \/ ErrorAnswer(p) \/ RequestFailure(p)
        PROVE  \E x \in Event : queue' = Append(queue, x) /\ Sends(p, x)
    <2>1. p \in [req : Request, sent : Nat]
      BY DEF TypeInv, TypeOK, SessionTypeOK
    <2> DEFINE x(t, b) == [type |-> t, req |-> p.req, part |-> p.sent + 1, body |-> b]
    <2>2. \A t \in RequestEventTypes : \A b \in {"data", "unusable", "error"} :
            /\ x(t, b) \in Event
            /\ x(t, b).type = t /\ x(t, b).body = b /\ x(t, b).req = p.req /\ x(t, b).part = p.sent + 1
      BY <2>1 DEF Event
    <2>3. \A t, b : Emit(p, t, b) <=> queue' = Append(queue, x(t, b))
      BY DEF Emit
    <2>4. {"PARTIAL_RESPONSE", "RESPONSE", "REQUEST_STATUS"} \subseteq RequestEventTypes
      BY DEF RequestEventTypes, AnswerTypes
    <2> HIDE DEF x
    <2>5. CASE PartialAnswer(p)
      <3> DEFINE q == [p EXCEPT !.sent = @ + 1]
      <3>1. q \in [req : Request, sent : Nat] /\ q.req = p.req /\ q.sent = p.sent + 1
        BY <2>1, BumpType
      <3>2. PICK b \in {"data", "unusable"} : Emit(p, "PARTIAL_RESPONSE", b)
        BY <2>5 DEF PartialAnswer, Bodies
      <3>3. MayGoOn(p) /\ pending' = (pending \ {p}) \cup {q} /\ up' = up
        BY <2>5 DEF PartialAnswer
      <3> QED BY <2>2, <2>3, <2>4, <3>1, <3>2, <3>3 DEF Sends
    <2>6. CASE FinalAnswer(p)
      <3>1. PICK b \in {"data", "unusable"} : Emit(p, "RESPONSE", b)
        BY <2>6 DEF FinalAnswer, Bodies
      <3> QED BY <2>2, <2>3, <2>4, <2>6, <3>1 DEF Sends, FinalAnswer
    <2>7. CASE ErrorAnswer(p)
      BY <2>2, <2>3, <2>4, <2>7 DEF Sends, ErrorAnswer
    <2>8. CASE RequestFailure(p)
      BY <2>2, <2>3, <2>4, <2>8 DEF Sends, RequestFailure
    <2> QED BY <1>3, <2>5, <2>6, <2>7, <2>8
  <1> QED BY <1>1, <1>2, <1>3 DEF Service, Answer

\* The service keeps to what it keeps to,
LEMMA HonestAppend ==
  ASSUME TypeInv, Honest, NEW x \in Event, queue' = Append(queue, x),
         \/ x.type \notin RequestEventTypes /\ x.body # "error" /\ pending' \subseteq pending
         \/ \E p \in pending : Sends(p, x)
  PROVE  Honest'
  <1>1. queue \in Seq(Event) /\ pending \subseteq [req : Request, sent : Nat]
    BY DEF TypeInv, TypeOK, SessionTypeOK
  <1>2. PICK n \in Nat : /\ DOMAIN queue = 1 .. n /\ DOMAIN queue' = 1 .. n + 1
                         /\ \A i \in 1 .. n : queue'[i] = queue[i]
                         /\ queue'[n + 1] = x
    BY <1>1, AppendEvents
  <1>3. /\ \A i \in DOMAIN queue' : \/ i \in DOMAIN queue /\ queue'[i] = queue[i]
                                   \/ queue'[i] = x
    BY <1>2
  <1> DEFINE Good(e) == /\ e.body = "error" => Final(e)
                        /\ e.body = "error" /\ e.type = "RESPONSE" => e.part = 1
                        /\ e.type \in RequestEventTypes /\ e.req.class = "Historical" =>
                             /\ e.part <= Len(e.req.secs)
                             /\ e.type = "RESPONSE" /\ e.body # "error" => e.part = Len(e.req.secs)
  <1>4. \A i \in DOMAIN queue : Good(queue[i])
    BY DEF Honest, Awaited
  <1>5. Good(x) /\ \A q \in pending' : q.req.class = "Historical" => q.sent < Len(q.req.secs)
    <2>1. CASE x.type \notin RequestEventTypes /\ x.body # "error" /\ pending' \subseteq pending
      BY <2>1 DEF Honest
    <2>2. ASSUME NEW p \in pending, Sends(p, x)
          PROVE  Good(x) /\ \A q \in pending' : q.req.class = "Historical" => q.sent < Len(q.req.secs)
      <3>1. p \in [req : Request, sent : Nat] /\ p.sent \in Nat /\ Len(p.req.secs) \in Nat
        BY <1>1 DEF Request
      <3>2. p.req.class = "Historical" => p.sent < Len(p.req.secs)
        BY DEF Honest
      <3>3. Good(x)
        BY <2>2, <3>1, <3>2 DEF Sends, MayGoOn, MayEnd, Final
      <3>4. ASSUME NEW q \in pending', q.req.class = "Historical"
            PROVE  q.sent < Len(q.req.secs)
        BY <2>2, <3>1, <3>4 DEF Sends, MayGoOn, Honest
      <3> QED BY <3>3, <3>4
    <2> QED BY <2>1, <2>2
  <1>6. \A i \in DOMAIN queue' : Good(queue'[i])
    BY <1>3, <1>4, <1>5
  <1> QED BY <1>5, <1>6 DEF Honest, Awaited

LEMMA HonestRead ==
  ASSUME TypeInv, Honest, queue # <<>>, queue' = Tail(queue), pending' = pending
  PROVE  Honest'
  <1>1. queue \in Seq(Event)
    BY DEF TypeInv, TypeOK, SessionTypeOK
  <1>2. \A i \in DOMAIN queue' : i + 1 \in DOMAIN queue /\ queue'[i] = queue[i + 1]
    BY <1>1, TailEvents
  <1> QED BY <1>2 DEF Honest, Awaited

LEMMA HistoryIsBdh == \A f \in AllFns : AnswerClass(f) = "Historical" <=> f = "bdh"
  BY DEF AnswerClass, AllFns, TypedFns, ReturnAtFirst, KeepLast, Collect, Authenticate

LEMMA HonestNext ==
  ASSUME TypeInv, Progress, Honest, [Next]_vars
  PROVE  Honest'
  <1>1. CASE ReadEvent
    BY <1>1, ReadFrame, HonestRead
  <1>2. CASE Send
    <2>1. PICK req : /\ req.class = Head(todo).class /\ req.secs = Head(todo).secs
                     /\ pending' = pending \cup {[req |-> req, sent |-> 0]}
      BY <1>2 DEF Send, SendRequest
    <2>2. Head(todo).class = "Historical" => Len(Head(todo).secs) > 0
      <3>1. /\ call \in Calls /\ Len(mine) + Len(todo) = Len(Plan(call)) /\ todo # <<>>
            /\ \A i \in DOMAIN todo : todo[i] = Plan(call)[Len(mine) + i]
            /\ mine \in Seq(Nat) /\ todo \in Seq(QueryType)
        BY <1>2 DEF Send, Progress, TypeInv, TypeOK, QueryType
      <3>2. Len(mine) + 1 \in 1 .. Len(Plan(call)) /\ Head(todo) = Plan(call)[Len(mine) + 1]
        BY <3>1
      <3>3. Head(todo).class = "FieldInfo" \/ Head(todo) = DataRequest(call)
        <4> DEFINE field == call.fn = "fieldInfo" \/ (call.fn \in TypedFns /\ Len(mine) + 1 < Len(Plan(call)))
        <4>1. CASE field
          BY <3>1, <3>2, <4>1, PlanParts
        <4>2. CASE ~field
          BY <3>1, <3>2, <4>2, PlanParts
        <4> QED BY <4>1, <4>2
      <3>4. Head(todo).class = "Historical" => call.fn = "bdh" /\ Head(todo).secs = call.secs
        <4>1. call.fn \in AllFns
          BY <3>1, PlanParts
        <4> QED BY <3>3, <4>1, HistoryIsBdh DEF DataRequest
      <3>5. call.secs \in Seq(Names) /\ (call.fn = "bdh" => call.secs # <<>>)
        BY <3>1, PlanParts
      <3> QED BY <3>4, <3>5
    <2>3. queue' = queue
      BY <1>2 DEF Send
    <2> QED BY <2>1, <2>2, <2>3 DEF Honest, Awaited
  <1>3. CASE Service
    <2>1. PICK x \in Event : queue' = Append(queue, x) /\ (Ends(x) \/ \E p \in pending : Sends(p, x))
      BY <1>3, ServiceSends
    <2>2. Ends(x) => x.type \notin RequestEventTypes /\ x.body # "error" /\ pending' \subseteq pending
      BY DEF Ends, RequestEventTypes, AnswerTypes
    <2> QED BY <2>1, <2>2, HonestAppend
  <1>4. CASE UNCHANGED sessionVars
    BY <1>4 DEF sessionVars, Honest, Awaited
  <1> QED BY <1>1, <1>2, <1>3, <1>4 DEF Next, CallStep, StopUnsent, TimeOut, StartCall, vars

-----------------------------------------------------------------------------
(* What is to come is the call's own *)

LEMMA CleanWait ==
  ASSUME AnswerInv, clean, pc = "wait"
  PROVE  /\ TypeInv /\ SessionOrder /\ Progress /\ Honest
         /\ TypesOwn /\ OnlyOwn /\ InOrder /\ GotOwn
         /\ queue \in Seq(Event) /\ pending \subseteq [req : Request, sent : Nat]
         /\ got \in Seq(Event) /\ types \in Seq(Event) /\ mine \in Seq(Nat)
         /\ \A p, q \in pending : p = q
  <1>1. /\ TypeInv /\ SessionOrder /\ Progress /\ Honest
        /\ TypesOwn /\ OnlyOwn /\ InOrder /\ GotOwn
    BY DEF AnswerInv, InStepInv, InStep, CleanInv
  <1>2. \A p, q \in pending : p = q
    BY <1>1 DEF SessionOrder, OnlyOwn, IsOwn
  <1> QED BY <1>1, <1>2 DEF TypeInv, TypeOK, SessionTypeOK

\* What is queued while a clean call waits is its own, if it is awaited at all.
LEMMA QueueOwn ==
  ASSUME AnswerInv, clean, pc = "wait", UNCHANGED callVars,
         NEW x \in Event, queue' = Append(queue, x),
         \/ x.type \notin RequestEventTypes /\ pending' \subseteq pending
         \/ \E p \in pending : Sends(p, x)
  PROVE  OnlyOwn' /\ InOrder' /\ GotOwn'
  <1>1. /\ TypeInv /\ OnlyOwn /\ InOrder /\ GotOwn /\ \A p, q \in pending : p = q
        /\ queue \in Seq(Event)
    BY CleanWait
  <1>2. UNCHANGED <<call, mine, got>>
    BY DEF callVars
  <1>3. GotOwn'
    BY <1>1, <1>2 DEF GotOwn
  <1>4. PICK n \in Nat : /\ DOMAIN queue = 1 .. n /\ DOMAIN queue' = 1 .. n + 1
                         /\ \A i \in 1 .. n : queue'[i] = queue[i]
                         /\ queue'[n + 1] = x
    BY <1>1, AppendEvents
  <1>5. CASE x.type \notin RequestEventTypes /\ pending' \subseteq pending
    <2>1. InOrder'
      BY <1>1, <1>2, <1>5, QueueOther
    <2>2. \A i \in DOMAIN queue' : Awaited(i)' => i \in DOMAIN queue /\ Awaited(i) /\ queue'[i] = queue[i]
      BY <1>4, <1>5 DEF Awaited
    <2>3. OnlyOwn'
      BY <1>1, <1>2, <1>5, <2>2 DEF OnlyOwn, IsOwn, Asked
    <2> QED BY <1>3, <2>1, <2>3
  <1>6. ASSUME NEW p \in pending, Sends(p, x)
        PROVE  OnlyOwn' /\ InOrder' /\ GotOwn'
    <2>1. pending = {p} /\ x.type \in RequestEventTypes /\ x.part = p.sent + 1 /\ x.req = p.req
      BY <1>1, <1>6 DEF Sends, RequestEventTypes, AnswerTypes
    <2>2. \A q \in pending' : q.sent = p.sent + 1 /\ q.req = p.req
      BY <1>6, <2>1 DEF Sends
    <2>3. InOrder'
      BY <1>1, <1>2, <2>1, <2>2, QueuePart
    <2>4. OnlyOwn'
      <3>1. \A i \in DOMAIN queue' : Awaited(i)' =>
              \/ i \in DOMAIN queue /\ Awaited(i) /\ queue'[i] = queue[i]
              \/ queue'[i] = x
        BY <1>4 DEF Awaited
      <3>2. IsOwn(p.req)
        BY <1>1 DEF OnlyOwn
      <3> QED BY <1>1, <1>2, <2>1, <2>2, <3>1, <3>2 DEF OnlyOwn, IsOwn, Asked
    <2> QED BY <1>3, <2>3, <2>4
  <1> QED BY <1>5, <1>6

LEMMA SendOwn ==
  ASSUME AnswerInv, clean, Send
  PROVE  TypesOwn' /\ OnlyOwn' /\ InOrder' /\ GotOwn'
  <1>1. /\ pc = "send" /\ mine' = Append(mine, lastId') /\ lastId' = lastId + 1
        /\ UNCHANGED <<queue, call, types, got>>
    BY DEF Send, SendRequest
  <1>2. /\ TypeInv /\ Progress /\ Owed = {} /\ TypesOwn /\ got = <<>>
        /\ Len(types) = Len(mine) /\ types \in Seq(Event) /\ mine \in Seq(Nat) /\ lastId \in Nat
    BY <1>1 DEF AnswerInv, InStepInv, InStep, CleanInv, Progress, TypeInv, TypeOK, SessionTypeOK
  <1>3. pending = {} /\ \A i \in DOMAIN queue : ~Awaited(i)
    BY <1>2, OwedIff DEF Awaited
  <1>4. PICK req : /\ req.id = lastId + 1 /\ req.class = Head(todo).class
                   /\ req.secs = Head(todo).secs /\ req.flds = Head(todo).flds
                   /\ pending' = {[req |-> req, sent |-> 0]}
    BY <1>3 DEF Send, SendRequest
  <1>5. IsOwn(req)'
    BY <1>1, <1>2, <1>4, ProgressSend DEF IsOwn
  <1>6. OnlyOwn'
    BY <1>1, <1>3, <1>4, <1>5 DEF OnlyOwn, Awaited
  <1>7. InOrder'
    BY <1>1, <1>2, <1>3, <1>4 DEF InOrder, Awaited, PartsRead
  <1>8. GotOwn'
    BY <1>1, <1>2 DEF GotOwn
  <1>9. TypesOwn'
    BY <1>1, <1>2 DEF TypesOwn
  <1> QED BY <1>6, <1>7, <1>8, <1>9

-----------------------------------------------------------------------------
(* What a clean call reads is its own *)

\* The event read, if a request is behind it, is the next part of the answer
\* that the call waits for.
LEMMA HeadOwn ==
  ASSUME AnswerInv, clean, ReadEvent
  PROVE  LET e == Head(queue) IN
         /\ e = queue[1] /\ 1 \in DOMAIN queue /\ e \in Event
         /\ e.type \in RequestEventTypes => /\ Awaited(1) /\ IsOwn(e.req)
                                            /\ e.part = PartsRead + 1
         /\ e.type = "PARTIAL_RESPONSE" => e.req.class \notin SingleAnswer
         /\ e.type = "SESSION_STATUS" => ~up
         /\ e.body = "error" => Final(e)
         /\ e.body = "error" /\ e.type = "RESPONSE" => e.part = 1
  <1>1. pc = "wait" /\ queue # <<>>
    BY ReadFrame
  <1>2. TypeInv /\ SessionOrder /\ Honest /\ OnlyOwn /\ InOrder /\ queue \in Seq(Event)
    BY <1>1, CleanWait
  <1>3. Head(queue) = queue[1] /\ 1 \in DOMAIN queue /\ queue[1] \in Event
    BY <1>1, <1>2
  <1>4. Awaited(1) => IsOwn(queue[1].req) /\ queue[1].part = PartsRead + 1
    BY <1>1, <1>2, <1>3, NextPart DEF OnlyOwn
  <1> QED BY <1>2, <1>3, <1>4 DEF Awaited, SessionOrder, Honest

\* A call reads the info of a field in one piece.
LEMMA TypesInOne ==
  ASSUME AnswerInv, clean, ReadEvent, ReadingTypes
  PROVE  Head(queue).type # "PARTIAL_RESPONSE"
  <1>1. pc = "wait"
    BY ReadFrame
  <1>2. Asked.class = "FieldInfo"
    BY <1>1, AskedIs, CleanWait
  <1> QED BY <1>2, HeadOwn DEF IsOwn, RequestEventTypes, AnswerTypes, SingleAnswer

\* Parts of data are kept in order, from the first.
LEMMA PartsReadIs ==
  ASSUME AnswerInv, clean, pc = "wait"
  PROVE  /\ got = <<>> => PartsRead = 0
         /\ call.fn \notin KeepLast => PartsRead = Len(got)
  <1>1. got \in Seq(Event) /\ GotOwn
    BY CleanWait
  <1>2. got # <<>> => Len(got) \in DOMAIN got /\ Last(got) = got[Len(got)]
    BY <1>1 DEF Last
  <1>3. call.fn \notin KeepLast \cup ReturnAtFirst \cup Authenticate => \A i \in DOMAIN got : got[i].part = i
    BY <1>1 DEF GotOwn
  <1>4. call.fn \notin KeepLast /\ call.fn \in ReturnAtFirst \cup Authenticate => got = <<>>
    BY <1>1 DEF GotOwn
  <1>5. got = <<>> => PartsRead = 0 /\ Len(got) = 0
    BY DEF PartsRead
  <1>6. got # <<>> /\ call.fn \notin KeepLast => PartsRead = Len(got)
    BY <1>1, <1>2, <1>3, <1>4 DEF PartsRead
  <1> QED BY <1>5, <1>6

LEMMA KeepOwn ==
  ASSUME AnswerInv, clean, ReadEvent, ReadData(Head(queue))
  PROVE  LET e == Head(queue) IN
         /\ Last(got') = e /\ Len(got') \in Nat \ {0} /\ DOMAIN got' = 1 .. Len(got')
         /\ \A i \in DOMAIN got' : got'[i].req.id = Last(mine)
         /\ call.fn \in KeepLast \cup ReturnAtFirst \cup Authenticate => got' = <<e>>
         /\ call.fn \notin KeepLast => /\ Len(got') = e.part
                                       /\ \A i \in DOMAIN got' : got'[i].part = i
  <1> DEFINE e == Head(queue)
  <1>1. pc = "wait" /\ e.type \in RequestEventTypes /\ got' = Keep(e)
    BY ReadFrame DEF ReadData, RequestEventTypes
  <1>2. got \in Seq(Event) /\ GotOwn
    BY <1>1, CleanWait
  <1>3. e \in Event /\ e.req.id = Last(mine) /\ e.part = PartsRead + 1
    BY <1>1, HeadOwn DEF IsOwn
  <1> HIDE DEF e
  <1>4. CASE call.fn \in KeepLast \cup ReturnAtFirst \cup Authenticate
    <2>1. got' = <<e>> /\ Last(got') = e /\ Len(got') = 1 /\ DOMAIN got' = 1 .. 1 /\ got'[1] = e
      BY <1>1, <1>4 DEF Keep, Last
    <2>2. call.fn \notin KeepLast => e.part = 1
      <3>1. call.fn \notin KeepLast => got = <<>>
        BY <1>2, <1>4 DEF GotOwn
      <3> QED BY <1>1, <1>3, <3>1, PartsReadIs
    <2> QED BY <1>3, <1>4, <2>1, <2>2 DEF e
  <1>5. CASE call.fn \notin KeepLast \cup ReturnAtFirst \cup Authenticate
    <2>1. got' = Append(got, e)
      BY <1>1, <1>5 DEF Keep
    <2>2. PICK n \in Nat : /\ n = Len(got) /\ DOMAIN got = 1 .. n /\ DOMAIN got' = 1 .. n + 1
                           /\ \A i \in 1 .. n : got'[i] = got[i]
                           /\ got'[n + 1] = e /\ Len(got') = n + 1
      BY <1>2, <1>3, <2>1, AppendEvents
    <2>3. Last(got') = e
      BY <2>2 DEF Last
    <2>4. e.part = n + 1
      BY <1>1, <1>3, <1>5, <2>2, PartsReadIs
    <2>5. \A i \in 1 .. n : got[i].part = i /\ got[i].req.id = Last(mine)
      BY <1>2, <1>5, <2>2 DEF GotOwn
    <2>6. \A i \in DOMAIN got' : got'[i].req.id = Last(mine) /\ got'[i].part = i
      BY <1>3, <2>2, <2>4, <2>5
    <2> QED BY <1>5, <2>2, <2>3, <2>4, <2>6 DEF e
  <1> QED BY <1>4, <1>5

\* After a refusal of its request nothing is to come for the call.
LEMMA RefusedIsLast ==
  ASSUME AnswerInv, clean, ReadEvent, Head(queue).type = "REQUEST_STATUS"
  PROVE  pending = {} /\ \A i \in DOMAIN queue' : ~Awaited(i)'
  <1>1. pc = "wait" /\ queue # <<>> /\ queue' = Tail(queue)
    BY ReadFrame
  <1>2. SessionOrder /\ OnlyOwn /\ queue \in Seq(Event)
    BY <1>1, CleanWait
  <1>3. Head(queue) = queue[1] /\ 1 \in DOMAIN queue /\ IsOwn(queue[1].req) /\ Final(queue[1])
    BY HeadOwn DEF RequestEventTypes, Final
  <1>4. pending = {}
    BY <1>2, <1>3 DEF SessionOrder, OnlyOwn, IsOwn
  <1>5. ASSUME NEW i \in DOMAIN queue', Awaited(i)'
        PROVE  FALSE
    <2>1. i + 1 \in DOMAIN queue /\ i + 1 > 1 /\ queue'[i] = queue[i + 1]
      BY <1>1, <1>2, TailEvents
    <2>2. Awaited(i + 1)
      BY <1>5, <2>1 DEF Awaited
    <2> QED BY <1>2, <1>3, <2>1, <2>2 DEF SessionOrder, OnlyOwn, IsOwn
  <1> QED BY <1>4, <1>5

\* What is to come, and what is gathered, stays the call's own.
LEMMA ReadOwn ==
  ASSUME AnswerInv, clean, ReadEvent
  PROVE  /\ pc' # "idle" => TypesOwn'
         /\ pc' = "wait" => OnlyOwn' /\ InOrder' /\ GotOwn'
  <1> DEFINE e == Head(queue)
  <1>1. /\ pc = "wait" /\ queue # <<>> /\ queue' = Tail(queue)
        /\ UNCHANGED <<pending, call, mine>>
    BY ReadFrame
  <1>2. /\ TypeInv /\ OnlyOwn /\ InOrder /\ TypesOwn /\ GotOwn /\ Progress
        /\ queue \in Seq(Event) /\ got \in Seq(Event) /\ types \in Seq(Event) /\ mine \in Seq(Nat)
    BY <1>1, CleanWait
  <1>3. OnlyOwn'
    <2>1. \A i \in DOMAIN queue' : i + 1 \in DOMAIN queue /\ queue'[i] = queue[i + 1]
      BY <1>1, <1>2, TailEvents
    <2> QED BY <1>1, <1>2, <2>1 DEF OnlyOwn, IsOwn, Asked, Awaited
  <1>4. CASE pc' = "idle"
    BY <1>4
  <1>5. CASE /\ pc' = "wait" /\ UNCHANGED <<todo, types, got>>
             /\ IgnoreEvent(e) \/ ReadFieldInfo(e) \/ SwallowError(e)
    <2>1. ~ReadFieldInfo(e)
      <3>1. ReadFieldInfo(e) => e.type = "PARTIAL_RESPONSE" /\ ReadingTypes
        BY <1>5 DEF ReadFieldInfo, Return
      <3> QED BY <3>1, TypesInOne
    <2>2. ~SwallowError(e)
      <3>1. SwallowError(e) => e.type = "PARTIAL_RESPONSE" /\ e.body = "error"
        BY <1>5 DEF SwallowError, Swallows, Return, AnswerTypes
      <3> QED BY <3>1, HeadOwn DEF Final
    <2>3. InOrder'
      <3>1. CASE e.type = "REQUEST_STATUS"
        BY <1>1, <3>1, RefusedIsLast DEF InOrder
      <3>2. CASE e.type # "REQUEST_STATUS"
        <4>1. ~Awaited(1)
          BY <1>5, <2>1, <2>2, <3>2, HeadOwn DEF IgnoreEvent, Awaited, RequestEventTypes, AnswerTypes
        <4> QED BY <1>1, <1>2, <1>5, <4>1, ReadOther
      <3> QED BY <3>1, <3>2
    <2> QED BY <1>1, <1>2, <1>3, <1>5, <2>3 DEF TypesOwn, GotOwn
  <1>6. CASE pc' = "wait" /\ UNCHANGED <<todo, types>> /\ ReadData(e) /\ ~EndsAt(e)
    <2>1. e.type = "PARTIAL_RESPONSE" /\ e.type \in RequestEventTypes /\ ~ReadingTypes
      BY <1>6 DEF ReadData, EndsAt, AnswerTypes, RequestEventTypes
    <2>2. call.fn \notin ReturnAtFirst \cup Authenticate
      <3>1. e.req.class = AnswerClass(call.fn)
        BY <1>1, <1>2, <2>1, AskedIs, HeadOwn DEF IsOwn, DataRequest
      <3>2. call.fn \in Authenticate => AnswerClass(call.fn) = "Authorization"
        BY DEF Authenticate, AnswerClass
      <3> QED BY <1>6, <2>1, <3>1, <3>2, HeadOwn DEF EndsAt, SingleAnswer
    <2>3. /\ Last(got') = e /\ Len(got') \in Nat \ {0} /\ DOMAIN got' = 1 .. Len(got')
          /\ \A i \in DOMAIN got' : got'[i].req.id = Last(mine)
          /\ call.fn \in KeepLast => got' = <<e>>
          /\ call.fn \notin KeepLast => \A i \in DOMAIN got' : got'[i].part = i
      BY <1>6, KeepOwn
    <2>4. GotOwn'
      <3>1. call.fn \in KeepLast => Len(got') <= 1
        BY <2>3
      <3>2. \A i \in DOMAIN got' : got'[i].req.id = Last(mine')
        BY <1>1, <2>3
      <3>3. CASE call.fn \in KeepLast
        BY <1>1, <2>2, <3>1, <3>2, <3>3 DEF GotOwn
      <3>4. CASE call.fn \notin KeepLast
        BY <1>1, <2>2, <2>3, <3>2, <3>4 DEF GotOwn
      <3> QED BY <3>3, <3>4
    <2>5. PartsRead' = queue[1].part /\ Awaited(1)
      <3>1. got' # <<>>
        BY <2>3
      <3> QED BY <2>1, <2>3, <3>1, HeadOwn DEF PartsRead
    <2>6. InOrder'
      BY <1>1, <1>2, <2>5, ReadPart
    <2> QED BY <1>1, <1>2, <1>3, <1>6, <2>4, <2>6 DEF TypesOwn
  <1>7. CASE /\ pc' = "send" /\ ReadFieldInfo(e) /\ types' = Append(types, e)
    <2>1. e \in Event /\ e.req.id = Last(mine)
      BY <1>7, HeadOwn DEF ReadFieldInfo, RequestEventTypes, IsOwn
    <2>2. Len(types) = Len(mine) - 1 /\ Last(mine) = mine[Len(mine)]
      BY <1>1, <1>2 DEF Progress, Last
    <2> HIDE DEF e
    <2>3. PICK n \in Nat : /\ n = Len(types) /\ DOMAIN types = 1 .. n /\ DOMAIN types' = 1 .. n + 1
                           /\ \A i \in 1 .. n : types'[i] = types[i]
                           /\ types'[n + 1] = e
      BY <1>2, <1>7, <2>1, AppendEvents
    <2>4. Len(mine) \in Nat /\ Len(mine) = n + 1
      BY <1>2, <2>2, <2>3
    <2> QED BY <1>1, <1>2, <1>7, <2>1, <2>2, <2>3, <2>4 DEF TypesOwn
  <1> QED BY <1>4, <1>5, <1>6, <1>7, ReadGoesOn

-----------------------------------------------------------------------------
(* What a clean call returns is its own *)

\* With its data a call has the types of all its fields.
LEMMA TypesCount ==
  ASSUME AnswerInv, pc = "wait"
  PROVE  /\ call.flds \in Seq(Names) /\ Len(call.flds) \in Nat /\ call.secs \in Seq(Names)
         /\ ~ReadingTypes =>
              Len(types) = IF call.fn \in TypedFns \cup {"fieldInfo"} THEN Len(call.flds) ELSE 0
         /\ call.fn = "fieldInfo" /\ todo = <<>> => Len(types) + 1 = Len(call.flds)
  <1>1. TypeInv /\ Progress
    BY DEF AnswerInv, InStepInv
  <1>2. /\ call \in Calls /\ Len(mine) + Len(todo) = Len(Plan(call)) /\ Len(types) = Len(mine) - 1
        /\ types \in Seq(Event) /\ mine \in Seq(Nat) /\ todo \in Seq(QueryType)
    BY <1>1 DEF Progress, TypeInv, TypeOK, QueryType
  <1>3. Len(mine) \in Nat /\ Len(types) \in Nat /\ (todo = <<>> => Len(todo) = 0)
    BY <1>2
  <1>4. ~ReadingTypes => todo = <<>> /\ call.fn # "fieldInfo"
    BY <1>1, AskedIs DEF ReadingTypes
  <1>5. /\ call.flds \in Seq(Names) /\ call.secs \in Seq(Names)
        /\ Len(Plan(call)) = IF call.fn = "fieldInfo" THEN Len(call.flds)
                             ELSE IF call.fn \in TypedFns THEN Len(call.flds) + 1 ELSE 1
    BY <1>2, PlanParts
  <1>6. Len(call.flds) \in Nat
    BY <1>5
  <1> QED BY <1>2, <1>3, <1>4, <1>5, <1>6

\* A clean call that waits for its data reads what it has asked for.
LEMMA OwnData ==
  ASSUME AnswerInv, clean, ReadEvent, ~ReadingTypes, Head(queue).type \in RequestEventTypes
  PROVE  LET e == Head(queue) IN
         /\ e.req.id = Last(mine) /\ e.req.class = AnswerClass(call.fn)
         /\ e.req.secs = call.secs /\ e.req.flds = call.flds
         /\ call.fn \in {"bdp", "bdh"} => call.secs # <<>>
         /\ call.fn = "bdh" =>
              /\ e.part <= Len(call.secs)
              /\ e.type = "RESPONSE" /\ e.body # "error" => e.part = Len(call.secs)
  <1> DEFINE e == Head(queue)
  <1>1. pc = "wait" /\ TypeInv /\ Progress /\ Honest
    BY ReadFrame, CleanWait
  <1>2. e = queue[1] /\ 1 \in DOMAIN queue /\ Awaited(1) /\ IsOwn(e.req)
    BY HeadOwn
  <1>3. /\ Asked = DataRequest(call) /\ call.fn \in AllFns
        /\ call.fn \in {"bdp", "bdh"} => call.secs # <<>>
    BY <1>1, AskedIs
  <1>4. /\ e.req.id = Last(mine) /\ e.req.class = AnswerClass(call.fn)
        /\ e.req.secs = call.secs /\ e.req.flds = call.flds
    BY <1>2, <1>3 DEF IsOwn, DataRequest
  <1>5. call.fn = "bdh" => e.req.class = "Historical"
    BY <1>3, <1>4, HistoryIsBdh
  <1> QED BY <1>1, <1>2, <1>3, <1>4, <1>5 DEF Honest

LEMMA EndedOwn ==
  ASSUME AnswerInv, clean, ReadEvent, Ended("ok")'
  PROVE  CleanCallReturnsItsOwnAnswer'
  <1> DEFINE e == Head(queue)
             count == IF call.fn \in TypedFns \cup {"fieldInfo"} THEN Len(call.flds) ELSE 0
  <1>1. /\ pc = "wait" /\ last' = e /\ UNCHANGED <<up, call, mine, clean>>
        /\ pc' = "idle" /\ outcome' = "ok"
    BY ReadFrame DEF Ended
  <1>2. /\ TypesOwn /\ GotOwn /\ Progress /\ TypeInv
        /\ got \in Seq(Event) /\ types \in Seq(Event) /\ mine \in Seq(Nat)
    BY <1>1, CleanWait
  <1>3. EndWithSession(e) \/ ReadFieldInfo(e) \/ SwallowError(e) \/ ReadData(e)
    BY <1>1 DEF ReadEvent, IgnoreEvent, StopOnStatus, StopOnAnswer, Return
  <1>4. CASE EndWithSession(e)
    <2>1. /\ call.fn \in Collect \cup KeepLast /\ e.type = "SESSION_STATUS"
          /\ UNCHANGED <<types, got>>
      BY <1>4 DEF EndWithSession, EndsWithSession
    <2>2. ~up
      BY <2>1, HeadOwn
    <2>3. ~ReadingTypes /\ call.fn \notin ReturnAtFirst /\ call.fn # "bdh"
      BY <2>1 DEF ReadingTypes, Collect, KeepLast, TypedFns, ReturnAtFirst
    <2>4. Len(types) = count
      BY <1>1, <2>3, TypesCount
    <2>5. call.fn \in KeepLast \/ (call.fn \notin KeepLast /\ call.fn \in Collect)
      BY <2>1
    <2> QED BY <1>1, <1>2, <2>1, <2>2, <2>3, <2>4, <2>5 DEF CleanCallReturnsItsOwnAnswer, TypesOwn
  <1>5. CASE ReadFieldInfo(e)
    <2>1. call.fn = "fieldInfo" /\ todo = <<>> /\ types' = Append(types, e)
      BY <1>1, <1>5 DEF ReadFieldInfo, ReadingTypes
    <2>2. e \in Event /\ e.req.id = Last(mine)
      BY <1>5, HeadOwn DEF ReadFieldInfo, RequestEventTypes, IsOwn
    <2>3. Len(types) = Len(mine) - 1 /\ Last(mine) = mine[Len(mine)]
      BY <1>1, <1>2 DEF Progress, Last
    <2> HIDE DEF e
    <2>4. PICK n \in Nat : /\ n = Len(types) /\ DOMAIN types = 1 .. n /\ DOMAIN types' = 1 .. n + 1
                           /\ \A i \in 1 .. n : types'[i] = types[i]
                           /\ types'[n + 1] = e /\ Len(types') = n + 1
      BY <1>2, <2>1, <2>2, AppendEvents
    <2>5. Len(mine) \in Nat /\ Len(mine) = n + 1
      BY <1>2, <2>3, <2>4
    <2>6. ASSUME NEW i \in DOMAIN types'
          PROVE  types'[i].req.id = mine[i]
      <3>1. i \in 1 .. n => types'[i].req.id = mine[i]
        BY <1>2, <2>4 DEF TypesOwn
      <3>2. i = n + 1 => types'[i].req.id = mine[i]
        BY <2>2, <2>3, <2>4, <2>5
      <3> QED BY <2>4, <3>1, <3>2
    <2>7. Len(types') = count
      BY <1>1, <2>1, <2>4, TypesCount
    <2> QED BY <1>1, <2>1, <2>6, <2>7 DEF CleanCallReturnsItsOwnAnswer
  <1>6. CASE SwallowError(e)
    <2>1. /\ call.fn \in Collect /\ e.type = "RESPONSE" /\ e.body = "error"
          /\ UNCHANGED <<types, got>>
      BY <1>1, <1>6 DEF SwallowError, Swallows
    <2>2. /\ ~ReadingTypes /\ call.fn \notin ReturnAtFirst \cup KeepLast
          /\ call.fn # "bdh"
      BY <2>1 DEF ReadingTypes, Collect, KeepLast, TypedFns, ReturnAtFirst
    <2>3. Len(types) = count
      BY <1>1, <2>2, TypesCount
    <2>4. e.part = 1 /\ e.part = PartsRead + 1 /\ PartsRead \in Nat
      BY <1>2, <2>1, HeadOwn, PartsReadType DEF RequestEventTypes, AnswerTypes
    <2>5. got = <<>>
      BY <1>1, <1>2, <2>2, <2>4, PartsReadIs
    <2> QED BY <1>1, <1>2, <2>1, <2>2, <2>3, <2>5 DEF CleanCallReturnsItsOwnAnswer, TypesOwn
  <1>7. CASE ReadData(e)
    <2>1. /\ e.type \in AnswerTypes /\ e.type \in RequestEventTypes /\ ~ReadingTypes
          /\ EndsAt(e) /\ UNCHANGED types /\ e.body = "data"
      BY <1>1, <1>7 DEF ReadData, RequestEventTypes, MayPass
    <2>2. call.fn \notin ReturnAtFirst => e.type = "RESPONSE"
      <3>1. call.fn = "authenticateWithApp" => e.req.class = "Authorization"
        BY <2>1, OwnData DEF AnswerClass, Authenticate
      <3> QED BY <2>1, <3>1, HeadOwn DEF EndsAt, AnswerTypes, SingleAnswer
    <2>3. Len(types) = count /\ call.fn # "fieldInfo"
      BY <1>1, <2>1, TypesCount DEF ReadingTypes
    <2>4. /\ Last(got') = e /\ Len(got') \in Nat \ {0} /\ DOMAIN got' = 1 .. Len(got')
          /\ \A i \in DOMAIN got' : got'[i].req.id = Last(mine)
          /\ call.fn \in KeepLast \cup ReturnAtFirst \cup Authenticate => got' = <<e>>
          /\ call.fn \notin KeepLast => /\ Len(got') = e.part
                                        /\ \A i \in DOMAIN got' : got'[i].part = i
      BY <1>7, KeepOwn
    <2>5. call.fn = "bdh" => Len(got') = Len(call.secs)
      <3>1. call.fn = "bdh" => call.fn \notin ReturnAtFirst \cup KeepLast
        BY DEF ReturnAtFirst, KeepLast
      <3> QED BY <2>1, <2>2, <2>4, <3>1, OwnData
    <2>6. got' # <<>> /\ 1 \in DOMAIN got'
      BY <2>4
    <2>7. /\ \A i \in DOMAIN types' : types'[i].req.id = mine'[i]
          /\ Len(types') = IF call'.fn \in TypedFns \cup {"fieldInfo"} THEN Len(call'.flds) ELSE 0
          /\ call'.fn = "bdh" => Len(got') = Len(call'.secs)
      BY <1>1, <1>2, <2>1, <2>3, <2>5 DEF TypesOwn
    <2>8. CASE call.fn \in ReturnAtFirst
      <3>1. call.fn \notin KeepLast \cup Collect
        BY <2>8 DEF ReturnAtFirst, KeepLast, Collect
      <3>2. /\ got' # <<>> /\ got'[1].req.id = Last(mine') /\ got'[1].part = 1
            /\ call'.fn \in ReturnAtFirst /\ call'.fn \notin KeepLast \cup Collect
        BY <1>1, <2>4, <2>6, <2>8, <3>1
      <3> QED BY <2>7, <3>2 DEF CleanCallReturnsItsOwnAnswer
    <2>9. CASE call.fn \notin ReturnAtFirst /\ call.fn \in KeepLast
      <3>1. got' = <<e>> /\ e.type = "RESPONSE" /\ got'[1].req.id = Last(mine')
        BY <1>1, <2>2, <2>4, <2>6, <2>9
      <3> HIDE DEF e
      <3>2. /\ Len(got') = 1 /\ got'[1].req.id = Last(mine') /\ got'[1].type = "RESPONSE"
            /\ call'.fn \in KeepLast /\ call'.fn \notin ReturnAtFirst \cup Collect
        BY <1>1, <2>9, <3>1 DEF KeepLast, Collect
      <3> QED BY <2>7, <3>2 DEF CleanCallReturnsItsOwnAnswer
    <2>10. CASE call.fn \notin ReturnAtFirst \cup KeepLast
      <3>1. Whole(got', Last(mine'))
        BY <1>1, <2>2, <2>4, <2>6, <2>10 DEF Whole
      <3>2. call'.fn \notin ReturnAtFirst /\ call'.fn \notin KeepLast
        BY <1>1, <2>10
      <3> QED BY <2>7, <3>1, <3>2 DEF CleanCallReturnsItsOwnAnswer
    <2> QED BY <2>8, <2>9, <2>10
  <1> QED BY <1>3, <1>4, <1>5, <1>6, <1>7

\* Its own data a clean call never refuses.
LEMMA RejectedOwn ==
  ASSUME AnswerInv, clean, ReadEvent, Ended("rejected")'
  PROVE  CleanCallRejectsOnlyErrors'
  <1> DEFINE e == Head(queue)
  <1>1. /\ pc = "wait" /\ last' = e /\ mine' = mine
        /\ pc' = "idle" /\ outcome' = "rejected"
    BY ReadFrame DEF Ended
  <1>2. StopOnAnswer(e)
    BY <1>1 DEF ReadEvent, IgnoreEvent, StopOnStatus, EndWithSession, ReadFieldInfo, SwallowError,
                ReadData, Return
  <1>3. /\ e.type \in RequestEventTypes /\ e.req.id = Last(mine)
        /\ e.req.class = Asked.class /\ e.part = PartsRead + 1
    BY <1>2, HeadOwn DEF StopOnAnswer, RequestEventTypes, IsOwn
  <1>4. CASE ReadingTypes
    <2>1. Asked.class = "FieldInfo"
      BY <1>1, <1>4, AskedIs, CleanWait
    <2> QED BY <1>1, <1>2, <1>3, <1>4, <2>1 DEF StopOnAnswer, CleanCallRejectsOnlyErrors
  <1>5. CASE ~ReadingTypes
    <2>1. /\ e.req.class = AnswerClass(call.fn)
          /\ e.req.secs = call.secs /\ e.req.flds = call.flds
          /\ call.fn \in {"bdp", "bdh"} => call.secs # <<>>
          /\ call.fn = "bdh" => e.part <= Len(call.secs)
      BY <1>3, <1>5, OwnData
    <2>2. call.secs \in Seq(Names) /\ got \in Seq(Event)
      BY <1>1, TypesCount, CleanWait
    <2>3. KnownFields(e)
      BY <2>1 DEF KnownFields
    <2>4. call.fn = "bdp" => BdpPasses(e) /\ IsPrefix(e.req.secs, call.secs)
      <3>1. call.secs # <<>> => 1 \in DOMAIN call.secs
        BY <2>2
      <3>2. call.fn = "bdp" => e.req.class = "Reference"
        BY <2>1 DEF AnswerClass, Authenticate
      <3>3. IsPrefix(call.secs, call.secs)
        BY <2>2 DEF IsPrefix
      <3> QED BY <2>1, <3>1, <3>2, <3>3 DEF BdpPasses
    <2>5. call.fn = "bdh" => BdhPasses(e)
      <3>1. call.fn = "bdh" => Len(got) = PartsRead
        BY <1>1, PartsReadIs DEF KeepLast
      <3>2. Len(got) \in Nat /\ Len(call.secs) \in Nat
        BY <2>2
      <3>3. call.fn = "bdh" => e.req.class = "Historical"
        BY <2>1 DEF AnswerClass, Authenticate
      <3> QED BY <1>3, <2>1, <3>1, <3>2, <3>3 DEF BdhPasses, HasSlot
    <2>6. call.fn = "fieldSearch" => SearchPasses(e)
      BY <2>1 DEF SearchPasses, AnswerClass, Authenticate
    <2>7. e.body = "data" => MayPass(e)
      BY <2>1, <2>4, <2>5, <2>6 DEF MayPass
    <2>8. e.body # "data"
      BY <1>2, <1>5, <2>3, <2>4, <2>7 DEF StopOnAnswer, MayStop
    <2> QED BY <1>1, <1>3, <2>8 DEF CleanCallRejectsOnlyErrors
  <1> QED BY <1>4, <1>5

-----------------------------------------------------------------------------
(* The invariant is inductive *)

\* While no call runs only the session moves, and an ended one stays ended.
LEMMA IdleKeeps ==
  ASSUME CleanCallReturnsItsOwnAnswer, CleanCallRejectsOnlyErrors, UNCHANGED callVars, up' => up
  PROVE  CleanCallReturnsItsOwnAnswer' /\ CleanCallRejectsOnlyErrors'
  <1>1. UNCHANGED <<pc, call, types, got, outcome, mine, clean, last>>
    BY DEF callVars
  <1> QED BY <1>1 DEF CleanCallReturnsItsOwnAnswer, CleanCallRejectsOnlyErrors, Ended, Whole

LEMMA AnswerInit == Init => AnswerInv
  <1> SUFFICES ASSUME Init PROVE AnswerInv
    OBVIOUS
  <1>1. InStepInv
    BY InStepInit
  <1>2. pc = "idle" /\ outcome = "none" /\ queue = <<>> /\ pending = {}
    BY DEF Init, SessionInit
  <1> QED BY <1>1, <1>2 DEF AnswerInv, Progress, Honest, CleanInv, CleanCallReturnsItsOwnAnswer,
                            CleanCallRejectsOnlyErrors, Ended

LEMMA AnswerNext ==
  ASSUME AnswerInv, [Next]_vars
  PROVE  AnswerInv'
  <1>1. TypeInv /\ Progress /\ Honest /\ InStepInv
    BY DEF AnswerInv, InStepInv
  <1>2. InStepInv' /\ Honest'
    BY <1>1, InStepNext, HonestNext
  <1>3. Progress'
    BY <1>1, ProgressNext
  <1>4. ASSUME NEW c \in Calls, StartCall(c)
        PROVE  AnswerInv'
    <2>1. pc' = "send" /\ types' = <<>>
      BY <1>4 DEF StartCall
    <2> QED BY <1>2, <1>3, <2>1 DEF AnswerInv, CleanInv, TypesOwn, CleanCallReturnsItsOwnAnswer,
                                   CleanCallRejectsOnlyErrors, Ended
  <1>5. CASE Send
    <2>1. pc' = "wait" /\ clean' = clean
      BY <1>5 DEF Send
    <2> QED BY <1>2, <1>3, <1>5, <2>1, SendOwn
            DEF AnswerInv, CleanInv, CleanCallReturnsItsOwnAnswer, CleanCallRejectsOnlyErrors, Ended
  <1>6. CASE StopUnsent \/ TimeOut
    <2>1. pc' = "idle" /\ outcome' \in {"unsent", "timeout"}
      BY <1>6 DEF StopUnsent, TimeOut, Return
    <2> QED BY <1>2, <1>3, <2>1
            DEF AnswerInv, CleanInv, CleanCallReturnsItsOwnAnswer, CleanCallRejectsOnlyErrors, Ended
  <1>7. CASE ReadEvent
    <2>1. clean' = clean
      BY <1>7, ReadFrame
    <2>2. CleanInv'
      BY <1>7, <2>1, ReadOwn DEF CleanInv
    <2>3. CleanCallReturnsItsOwnAnswer'
      BY <1>7, <2>1, EndedOwn DEF CleanCallReturnsItsOwnAnswer
    <2>4. CleanCallRejectsOnlyErrors'
      BY <1>7, <2>1, RejectedOwn DEF CleanCallRejectsOnlyErrors
    <2> QED BY <1>2, <1>3, <2>2, <2>3, <2>4 DEF AnswerInv
  <1>8. CASE Service
    <2>1. PICK x \in Event : queue' = Append(queue, x) /\ (Ends(x) \/ \E p \in pending : Sends(p, x))
      BY <1>1, <1>8, ServiceSends
    <2>2. Ends(x) => x.type \notin RequestEventTypes /\ pending' \subseteq pending
      BY DEF Ends, RequestEventTypes, AnswerTypes
    <2>3. UNCHANGED callVars /\ UNCHANGED <<pc, clean, types, mine>>
      BY <1>8 DEF Service, callVars
    <2>4. clean /\ pc = "wait" => OnlyOwn' /\ InOrder' /\ GotOwn'
      BY <2>1, <2>2, <2>3, QueueOwn
    <2>5. CleanInv'
      BY <2>3, <2>4 DEF CleanInv, AnswerInv, TypesOwn
    <2>6. up' => up
      BY <2>1 DEF Ends, Sends
    <2> QED BY <1>2, <1>3, <2>3, <2>5, <2>6, IdleKeeps DEF AnswerInv
  <1>9. CASE UNCHANGED vars
    <2>1. UNCHANGED <<queue, pending, up, callVars>> /\ UNCHANGED callVars
      BY <1>9 DEF vars, sessionVars
    <2>2. CleanInv'
      BY <2>1 DEF callVars, AnswerInv, CleanInv, TypesOwn, OnlyOwn, InOrder, GotOwn, IsOwn, Asked,
                  Awaited, PartsRead
    <2> QED BY <1>2, <1>3, <2>1, <2>2, IdleKeeps DEF AnswerInv
  <1> QED BY <1>4, <1>5, <1>6, <1>7, <1>8, <1>9 DEF Next, CallStep

LEMMA AnswerAlways == Spec => []AnswerInv
  BY AnswerInit, AnswerNext, PTL DEF Spec

\* A call that begins with nothing owed on the session and returns normally
\* returns its own answer and nothing else, whole and in order as its function
\* promises it, whatever calls ran before and however the service cuts answers.
THEOREM OwnAnswer == Spec => []CleanCallReturnsItsOwnAnswer
  <1>1. AnswerInv => CleanCallReturnsItsOwnAnswer
    BY DEF AnswerInv
  <1> QED BY <1>1, AnswerAlways, PTL

\* It stops on an answer only if that is an error, and an error of its own.
THEOREM OnlyErrorsReject == Spec => []CleanCallRejectsOnlyErrors
  <1>1. AnswerInv => CleanCallRejectsOnlyErrors
    BY DEF AnswerInv
  <1> QED BY <1>1, AnswerAlways, PTL
=============================================================================
