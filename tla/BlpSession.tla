----------------------------- MODULE BlpSession -----------------------------
(***************************************************************************)
(* What the package sees of one blpapi::Session: the requests it has sent  *)
(* and not seen the end of, and the one event queue that nextEvent() reads.*)
(* The library is not in the repository; it is modelled from the way       *)
(* src/Rblpapi-master/src/*.cpp uses it.  Requests outstanding together    *)
(* may be answered interleaved, each by PARTIAL_RESPONSE events and one    *)
(* closing RESPONSE, in order.  Instead of the RESPONSE a request may end  *)
(* with REQUEST_STATUS, and the session may terminate.                     *)
(* Events every loop of the package ignores (ADMIN, SERVICE_STATUS, ...)   *)
(* would be stuttering steps and are left out.                             *)
(***************************************************************************)
EXTENDS Naturals, Sequences, FiniteSets, SequencesExt

CONSTANTS
  Securities, Fields,  \* names a user asks for (queries count as securities)
  BulkFields,          \* fields asked of bds and getPortfolio
  SecLists,            \* the lists of securities, or single queries, of the calls
  FieldLists,          \* the lists of fields of the calls
  FailingClasses,      \* classes whose requests may end with REQUEST_STATUS
  ErrorClasses,        \* classes whose answers may be errors or unusable
  MayTerminate,        \* whether the session may terminate
  MaxPartials,         \* bound: PARTIAL_RESPONSE events before one RESPONSE
  MaxRequests          \* bound: requests sent in a behaviour

ASSUME SessionAssumption ==
  /\ SecLists \subseteq Seq(Securities) \ {<<>>}
  /\ FieldLists \subseteq Seq(Fields) \ {<<>>}
  /\ MaxPartials \in Nat
  /\ MaxRequests \in Nat
  /\ MayTerminate \in BOOLEAN

Names == Securities \cup Fields \cup BulkFields

VARIABLES
  queue,    \* events not yet returned by nextEvent()
  pending,  \* requests the service has still to finish: [req, sent]
  lastId,   \* requests sent so far; each request's id is its rank
  up        \* FALSE once the session has terminated

sessionVars == <<queue, pending, lastId, up>>

\* The message kinds of the services the package opens.
Classes == {"FieldInfo", "FieldSearch", "Reference", "Historical", "Portfolio",
            "Tick", "Bar", "InstrumentList", "Beqs", "Grid", "Authorization"}

\* One item is asked for, and the answer is one RESPONSE.
SingleAnswer == {"FieldInfo", "Authorization"}

AnswerTypes == {"PARTIAL_RESPONSE", "RESPONSE"}
RequestEventTypes == AnswerTypes \cup {"REQUEST_STATUS"}

NoRequest == [id |-> 0, class |-> "none", secs |-> <<>>, flds |-> <<>>]

SessionTerminated ==
  [type |-> "SESSION_STATUS", req |-> NoRequest, part |-> 0, body |-> "none"]

\* The n-th message of a running subscription.
SubscriptionData(n) ==
  [type |-> "SUBSCRIPTION_DATA", req |-> NoRequest, part |-> n, body |-> "data"]

\* What a call that has read nothing yet has read last.
NoEvent == [type |-> "none", req |-> NoRequest, part |-> 0, body |-> "none"]

Request == [id : Nat, class : Classes \cup {"none"}, secs : Seq(Names), flds : Seq(Names)]
Event == [type : RequestEventTypes \cup {"SUBSCRIPTION_DATA", "SESSION_STATUS", "none"},
          req : Request, part : Nat, body : {"data", "unusable", "error", "none"}]

SessionTypeOK ==
  /\ queue \in Seq(Event)
  /\ pending \subseteq [req : Request, sent : Nat]
  /\ lastId \in Nat
  /\ up \in BOOLEAN

SessionInit ==
  /\ queue = <<>>
  /\ pending = {}
  /\ lastId = 0
  /\ up = TRUE

\* sendRequest(): the library numbers the request; the callers keep no id.
SendRequest(q) ==
  LET req == [id |-> lastId + 1, class |-> q.class, secs |-> q.secs, flds |-> q.flds]
  IN  /\ up
      /\ lastId' = lastId + 1
      /\ pending' = pending \cup {[req |-> req, sent |-> 0]}

\* A HistoricalDataResponse event holds one security, so their number is fixed.
MayGoOn(p) ==
  IF p.req.class = "Historical" THEN p.sent + 1 < Len(p.req.secs)
  ELSE p.req.class \notin SingleAnswer /\ p.sent < MaxPartials

MayEnd(p) == p.req.class = "Historical" => p.sent + 1 >= Len(p.req.secs)

\* "unusable": data the reading function throws on (a value of another type
\* than its column, a missing element, a fieldError).
Bodies(p) == {"data"} \cup (IF p.req.class \in ErrorClasses THEN {"unusable"} ELSE {})

Emit(p, type, body) ==
  queue' = Append(queue, [type |-> type, req |-> p.req, part |-> p.sent + 1, body |-> body])

PartialAnswer(p) ==
  /\ MayGoOn(p)
  /\ \E body \in Bodies(p) : Emit(p, "PARTIAL_RESPONSE", body)
  /\ pending' = (pending \ {p}) \cup {[p EXCEPT !.sent = @ + 1]}
  /\ UNCHANGED <<lastId, up>>

FinalAnswer(p) ==
  /\ MayEnd(p)
  /\ \E body \in Bodies(p) : Emit(p, "RESPONSE", body)
  /\ pending' = pending \ {p}
  /\ UNCHANGED <<lastId, up>>

\* The whole answer is one error element (responseError, fieldError,
\* AuthorizationFailure).
ErrorAnswer(p) ==
  /\ p.req.class \in ErrorClasses
  /\ p.sent = 0
  /\ Emit(p, "RESPONSE", "error")
  /\ pending' = pending \ {p}
  /\ UNCHANGED <<lastId, up>>

RequestFailure(p) ==
  /\ p.req.class \in FailingClasses
  /\ Emit(p, "REQUEST_STATUS", "error")
  /\ pending' = pending \ {p}
  /\ UNCHANGED <<lastId, up>>

\* After SessionTerminated nothing more arrives.
Terminate ==
  /\ MayTerminate
  /\ up
  /\ up' = FALSE
  /\ queue' = Append(queue, SessionTerminated)
  /\ pending' = {}
  /\ UNCHANGED lastId

Answer == \E p \in pending : PartialAnswer(p) \/ FinalAnswer(p) \/ ErrorAnswer(p) \/ RequestFailure(p)

\* The requests whose last event nobody has read yet.
Owed == {p.req.id : p \in pending}
          \cup {queue[i].req.id : i \in {j \in DOMAIN queue : queue[j].type \in RequestEventTypes}}

Final(e) == e.type \in {"RESPONSE", "REQUEST_STATUS"}

\* What the queue keeps of the library's order: ids are ranks, a final event is
\* the last of its request, nothing follows SessionTerminated, and one item is
\* never answered in parts.
SessionOrder ==
  /\ \A p \in pending : p.req.id \in 1 .. lastId
  /\ \A p, q \in pending : p.req.id = q.req.id => p = q
  /\ \A i \in DOMAIN queue : queue[i].type \in RequestEventTypes => queue[i].req.id \in 1 .. lastId
  /\ \A i \in DOMAIN queue : Final(queue[i]) =>
       /\ \A p \in pending : p.req.id # queue[i].req.id
       /\ \A j \in DOMAIN queue : j > i => queue[j].req.id # queue[i].req.id
  /\ \A i \in DOMAIN queue : queue[i].type = "SESSION_STATUS" => i = Len(queue) /\ ~up
  /\ ~up => pending = {}
  /\ \A i \in DOMAIN queue : queue[i].type = "PARTIAL_RESPONSE" => queue[i].req.class \notin SingleAnswer
=============================================================================
