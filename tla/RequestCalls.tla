---------------------------- MODULE RequestCalls ----------------------------
(***************************************************************************)
(* The request functions of the package (bdp, bdh, bds, getPortfolio,      *)
(* getTicks, getBars, lookupSecurity, beqs, bsrch, fieldSearch, fieldInfo, *)
(* blpAuthenticate), called one after the other by one R process on one    *)
(* shared session.  Each sends its requests and reads the session's event  *)
(* queue until its loop ends; none looks at a correlation or request id.   *)
(* Request ids, mine, clean and last are history: the code keeps none.     *)
(***************************************************************************)
EXTENDS BlpSession, Functions, Integers

CONSTANTS Fns    \* the functions the R user calls

ReturnAtFirst == {"bds", "getPortfolio"}
KeepLast      == {"beqs", "bsrch"}
Collect       == {"getTicks", "getBars", "lookupSecurity"}
Authenticate  == {"authenticateWithId", "authenticateWithApp"}
TypedFns      == {"bdp", "bdh"}
AllFns        == TypedFns \cup ReturnAtFirst \cup KeepLast \cup Collect \cup Authenticate
                   \cup {"fieldSearch", "fieldInfo"}

ASSUME FnsAssumption == Fns \subseteq AllFns

VARIABLES
  pc,       \* "idle", "send" (before sendRequest) or "wait" (in nextEvent)
  call,     \* the running or last call: [fn, secs, flds]
  todo,     \* requests the call has still to send
  types,    \* answers getFieldTypes has gathered
  got,      \* answers the result is built from
  outcome,  \* "none", "ok", or why the call stopped
  mine,     \* history: ids of the requests this call sent
  clean,    \* history: nothing was owed on the session when the call began
  last      \* history: the last event the call read

callVars == <<pc, call, todo, types, got, outcome, mine, clean, last>>
vars == <<sessionVars, callVars>>

AnswerClass(fn) ==
  CASE fn \in {"bdp", "bds"}     -> "Reference"
    [] fn = "bdh"                -> "Historical"
    [] fn = "getPortfolio"       -> "Portfolio"
    [] fn = "getTicks"           -> "Tick"
    [] fn = "getBars"            -> "Bar"
    [] fn = "lookupSecurity"     -> "InstrumentList"
    [] fn = "beqs"               -> "Beqs"
    [] fn = "bsrch"              -> "Grid"
    [] fn = "fieldSearch"        -> "FieldSearch"
    [] fn = "fieldInfo"          -> "FieldInfo"
    [] fn \in Authenticate       -> "Authorization"

Singles == {s \in SecLists : Len(s) = 1}

\* What the R wrappers let through.
BdpCalls == {c \in [fn : Fns \cap {"bdp"}, secs : SecLists, flds : FieldLists] : IsInjective(c.secs)}
BdhCalls == [fn : Fns \cap {"bdh"}, secs : SecLists, flds : FieldLists]
BulkCalls == [fn : Fns \cap ReturnAtFirst, secs : Singles, flds : {<<f>> : f \in BulkFields}]
FieldInfoCalls ==
  {c \in [fn : Fns \cap {"fieldInfo"}, secs : {<<>>}, flds : FieldLists] : IsInjective(c.flds)}
QueryCalls == [fn : Fns \cap (KeepLast \cup Collect \cup Authenticate \cup {"fieldSearch"}),
               secs : Singles, flds : {<<>>}]

Calls == BdpCalls \cup BdhCalls \cup BulkCalls \cup FieldInfoCalls \cup QueryCalls

FieldRequests(c) ==
  [i \in DOMAIN c.flds |-> [class |-> "FieldInfo", secs |-> <<c.flds[i]>>, flds |-> <<>>]]

DataRequest(c) == [class |-> AnswerClass(c.fn), secs |-> c.secs, flds |-> c.flds]

\* One FieldInfoRequest per field, then the data request.
Plan(c) ==
  CASE c.fn = "fieldInfo"  -> FieldRequests(c)
    [] c.fn \in TypedFns   -> Append(FieldRequests(c), DataRequest(c))
    [] OTHER               -> <<DataRequest(c)>>

Init ==
  /\ SessionInit
  /\ pc = "idle"
  /\ call = [fn |-> "none", secs |-> <<>>, flds |-> <<>>]
  /\ todo = <<>> /\ types = <<>> /\ got = <<>> /\ mine = <<>>
  /\ outcome = "none"
  /\ clean = TRUE
  /\ last = NoEvent

\* MaxRequests bounds the run, never a call that has begun.
StartCall(c) ==
  /\ pc = "idle"
  /\ lastId + Len(Plan(c)) <= MaxRequests
  /\ call' = c
  /\ todo' = Plan(c)
  /\ pc' = "send"
  /\ outcome' = "none"
  /\ types' = <<>> /\ got' = <<>> /\ mine' = <<>>
  /\ clean' = (Owed = {})
  /\ UNCHANGED <<sessionVars, last>>

Send ==
  /\ pc = "send"
  /\ SendRequest(Head(todo))
  /\ todo' = Tail(todo)
  /\ mine' = Append(mine, lastId')
  /\ pc' = "wait"
  /\ UNCHANGED <<queue, up, call, types, got, outcome, clean, last>>

Return(o) ==
  /\ pc' = "idle"
  /\ outcome' = o
  /\ todo' = <<>>

StopUnsent_Sent ==   \* mutant: the token is looked at after the request is sent
  /\ pc = "send"
  /\ SendRequest(Head(todo))
  /\ mine' = Append(mine, lastId')
  /\ Return("unsent")
  /\ UNCHANGED <<queue, up, call, types, got, clean, last>>

\* A service does not open, a token is refused, sendRequest throws.
StopUnsent ==
  /\ pc = "send"
  /\ Return("unsent")
  /\ UNCHANGED <<sessionVars, call, types, got, mine, clean, last>>

NextEvent(e) ==
  /\ pc = "wait"
  /\ queue' = Tail(queue)
  /\ last' = e
  /\ UNCHANGED <<pending, lastId, up, call, mine, clean>>

ReadingTypes == call.fn = "fieldInfo" \/ (call.fn \in TypedFns /\ todo # <<>>)
StopsOnStatus_NotBdh == call.fn = "authenticateWithApp"   \* mutant: before #348
StopsOnStatus == (call.fn = "bdh" /\ ~ReadingTypes) \/ call.fn = "authenticateWithApp"
EndsWithSession_NotBsrch == call.fn \in Collect \cup {"beqs"}   \* mutant: bsrch forgets it
EndsWithSession == call.fn \in Collect \cup KeepLast

\* A loop that has no case for the event reads on.
IgnoreEvent(e) ==
  /\ NextEvent(e)
  /\ \/ e.type = "REQUEST_STATUS" /\ ~StopsOnStatus
     \/ e.type = "SESSION_STATUS" /\ ~EndsWithSession
     \/ e.type = "SUBSCRIPTION_DATA"
  /\ UNCHANGED <<pc, todo, types, got, outcome>>

StopOnStatus(e) ==
  /\ NextEvent(e)
  /\ e.type = "REQUEST_STATUS"
  /\ StopsOnStatus
  /\ Return("status")
  /\ UNCHANGED <<types, got>>

\* done = true on SessionTerminated: what was gathered is the result.
EndWithSession(e) ==
  /\ NextEvent(e)
  /\ e.type = "SESSION_STATUS"
  /\ EndsWithSession
  /\ Return("ok")
  /\ UNCHANGED <<types, got>>

\* nextEvent(100000) of authenticateWithApp gives up; the request is not cancelled.
TimeOut ==
  /\ pc = "wait"
  /\ call.fn = "authenticateWithApp"
  /\ queue = <<>>
  /\ Return("timeout")
  /\ UNCHANGED <<sessionVars, call, types, got, mine, clean, last>>

\* A FieldSearch answer passes for one field's info when it holds one field.
ReadFieldInfo(e) ==
  /\ NextEvent(e)
  /\ ReadingTypes
  /\ e.type \in AnswerTypes
  /\ e.req.class \in {"FieldInfo", "FieldSearch"}
  /\ e.body = "data"
  /\ IF e.type = "PARTIAL_RESPONSE" THEN UNCHANGED <<pc, todo, types, outcome>>
     ELSE /\ types' = Append(types, e)
          /\ IF todo = <<>> THEN Return("ok")
             ELSE pc' = "send" /\ UNCHANGED <<todo, outcome>>
  /\ UNCHANGED got

\* getTicks, getBars and lookupSecurity test responseError before the kind;
\* the other services report errors elsewhere.
Swallows(e) ==
  /\ call.fn \in Collect
  /\ e.body = "error"
  /\ e.req.class \notin {"FieldInfo", "FieldSearch", "Authorization"}

SwallowError(e) ==
  /\ NextEvent(e)
  /\ e.type \in AnswerTypes
  /\ Swallows(e)
  /\ IF e.type = "RESPONSE" THEN Return("ok") ELSE UNCHANGED <<pc, todo, outcome>>
  /\ UNCHANGED <<types, got>>

\* Which rows and fields an event holds is data: a foreign answer of the right
\* kind may pass or not.  bdp compares each row's security with the one at its
\* sequence number; past the end of the list that reads out of bounds, so
\* either may follow.
KnownFields(e) == Range(e.req.flds) \subseteq Range(call.flds)

\* ans(securities.size()) of bdh has a slot left.
HasSlot_OffByOne == Len(got) + 1 < Len(call.secs)   \* mutant
HasSlot == Len(got) < Len(call.secs)

BdpPasses(e) ==
  /\ e.req.class = "Reference"
  /\ \E r \in DOMAIN e.req.secs : r \in DOMAIN call.secs => e.req.secs[r] = call.secs[r]

BdhPasses(e) == e.req.class = "Historical" /\ HasSlot

SearchPasses(e) == e.req.class \in {"FieldSearch", "FieldInfo"}

MayPass(e) ==
  /\ e.body = "data"
  /\ CASE call.fn = "bdp"         -> BdpPasses(e)
       [] call.fn = "bdh"         -> BdhPasses(e)
       [] call.fn = "fieldSearch" -> SearchPasses(e)
       [] OTHER                   -> e.req.class = AnswerClass(call.fn)

MayStop(e) ==
  \/ ~MayPass(e)
  \/ call.fn = "bdp" /\ ~(KnownFields(e) /\ IsPrefix(e.req.secs, call.secs))
  \/ call.fn = "bdh" /\ ~KnownFields(e)

Keep_Request(e) == Append(got, e.req)   \* mutant: keeps something else than the event
Keep_Last(e) == <<e>>                   \* mutant: every function assigns over
\* beqs and bsrch assign the answer over the one before.
Keep(e) == IF call.fn \in KeepLast \cup ReturnAtFirst \cup Authenticate
           THEN <<e>> ELSE Append(got, e)

EndsAt_Any(e) == TRUE                                 \* mutant: returns at a partial answer
EndsAt_NoDone(e) == call.fn \in ReturnAtFirst          \* mutant: forgets done = true
EndsAt(e) ==
  \/ e.type = "RESPONSE"
  \/ call.fn \in ReturnAtFirst
  \/ call.fn = "authenticateWithApp"

ReadData(e) ==
  /\ NextEvent(e)
  /\ ~ReadingTypes
  /\ e.type \in AnswerTypes
  /\ MayPass(e)
  /\ got' = Keep(e)
  /\ IF EndsAt(e) THEN Return("ok") ELSE UNCHANGED <<pc, todo, outcome>>
  /\ UNCHANGED types

\* Rcpp::stop, or an exception of the library, in the middle of an answer.
StopOnAnswer(e) ==
  /\ NextEvent(e)
  /\ e.type \in AnswerTypes
  /\ IF ReadingTypes THEN e.body # "data" \/ e.req.class # "FieldInfo"
     ELSE MayStop(e) /\ ~Swallows(e)
  /\ Return("rejected")
  /\ UNCHANGED <<types, got>>

ReadEvent ==
  /\ queue # <<>>
  /\ LET e == Head(queue) IN
       \/ IgnoreEvent(e)  \/ StopOnStatus(e) \/ EndWithSession(e) \/ ReadFieldInfo(e)
       \/ SwallowError(e) \/ ReadData(e)     \/ StopOnAnswer(e)

Service == (Answer \/ Terminate) /\ UNCHANGED callVars

CallStep == Send \/ StopUnsent \/ ReadEvent

Next ==
  \/ \E c \in Calls : StartCall(c)
  \/ CallStep
  \/ TimeOut
  \/ Service

Spec == Init /\ [][Next]_vars

\* nextEvent() returns as soon as there is an event; a request the service has
\* taken is answered while the session lasts.
Fairness == WF_vars(CallStep) /\ WF_vars(Answer /\ UNCHANGED callVars)
FairSpec == Spec /\ Fairness

-----------------------------------------------------------------------------
\* Types of the state.
TypeOK ==
  /\ SessionTypeOK
  /\ pc \in {"idle", "send", "wait"}
  /\ call \in [fn : AllFns \cup {"none"}, secs : Seq(Names), flds : Seq(Names)]
  /\ todo \in Seq([class : Classes, secs : Seq(Names), flds : Seq(Names)])
  /\ types \in Seq(Event)
  /\ got \in Seq(Event)
  /\ outcome \in {"none", "ok", "unsent", "status", "timeout", "rejected"}
  /\ mine \in Seq(Nat)
  /\ clean \in BOOLEAN
  /\ last \in Event

Ended(o) == pc = "idle" /\ outcome = o

\* The answers of one request, all of them, in order.
Whole(s, id) ==
  /\ s # <<>>
  /\ \A i \in DOMAIN s : s[i].req.id = id /\ s[i].part = i
  /\ Last(s).type = "RESPONSE"

\* A call that begins when nothing is owed on the session and returns normally
\* returns its own answer and nothing else: the type of each of its fields from
\* the info asked for that field, and then every part of its own data, in order
\* (bdp, bdh, the collecting functions, fieldSearch, authentication), the last
\* part (beqs, bsrch) or the first (bds, getPortfolio).  Only an answer that is
\* one error may be missing from a collected result (it is printed, and an empty
\* frame returned), and only a session that ended may cut one short.
CleanCallReturnsItsOwnAnswer ==
  clean /\ Ended("ok") =>
    /\ \A i \in DOMAIN types : types[i].req.id = mine[i]
    /\ Len(types) = IF call.fn \in TypedFns \cup {"fieldInfo"} THEN Len(call.flds) ELSE 0
    /\ call.fn = "bdh" => Len(got) = Len(call.secs)
    /\ call.fn # "fieldInfo" =>
         LET me == Last(mine) IN
         CASE call.fn \in ReturnAtFirst -> got # <<>> /\ got[1].req.id = me /\ got[1].part = 1
           [] call.fn \in KeepLast ->
                up => Len(got) = 1 /\ got[1].req.id = me /\ got[1].type = "RESPONSE"
           [] call.fn \in Collect -> \/ Whole(got, me)
                                     \/ got = <<>> /\ last.body = "error"
                                     \/ ~up
           [] OTHER -> Whole(got, me)

\* A part of InStep.  After such a call returned normally nothing is owed, so the next call begins
\* clean as well; only bds and getPortfolio, returning at a PARTIAL_RESPONSE,
\* leave the rest of their answer behind.
SuccessLeavesNothingOwed ==
  clean /\ Ended("ok") =>
    Owed = {} \/ (call.fn \in ReturnAtFirst /\ last.type = "PARTIAL_RESPONSE")

\* The inductive form: while a clean call waits, only its last request is owed;
\* before it sends, nothing is.
InStep ==
  /\ SessionOrder
  /\ clean => CASE pc = "send" -> Owed = {}
                [] pc = "wait" -> mine # <<>> /\ Owed \subseteq {Last(mine)}
                [] pc = "idle" -> SuccessLeavesNothingOwed

\* A clean call stops on an answer only because it is an error or unusable, and
\* its own: the checks of message name, row and column never trip over good data.
CleanCallRejectsOnlyErrors ==
  clean /\ Ended("rejected") => last.body # "data" /\ last.req.id = Last(mine)

\* How many answers the session is behind: owed, less the one being waited for.
Behind == Cardinality(Owed) - (IF pc = "wait" THEN 1 ELSE 0)

\* While every request is answered, a session that has fallen behind never
\* catches up: each call ends with the first RESPONSE it reads, so each reads
\* at most as many as it asks for.
SlipNeverHeals == [][Behind' >= Behind]_vars

\* A call gives up on an answer still to come: nextEvent() timed out, the reader threw
\* at a PARTIAL_RESPONSE, or bds or getPortfolio returned at one.
GivesUp ==
  /\ pc = "wait" /\ pc' = "idle"
  /\ \/ outcome' = "timeout"
     \/ /\ last'.type = "PARTIAL_RESPONSE"
        /\ outcome' = "rejected" \/ call.fn \in ReturnAtFirst

\* A session falls behind by one answer for each call that gives up on one, and by
\* nothing else: a call that stops before it sends, on the field info of one of its
\* fields, on the last event of an answer, or on a refusal costs no later call its
\* answer, whether the session was behind before or not.
OnlyGivingUpFallsBehind ==
  [][up /\ Behind' > Behind => Behind' = Behind + 1 /\ GivesUp]_vars

\* And every call ends, whoever the answer it reads was meant for.
EveryCallEnds == pc = "wait" ~> pc = "idle"

\* When the session terminates, the loops that look for SessionTerminated end.
TerminationEndsCollecting ==
  (pc = "wait" /\ call.fn \in Collect \cup KeepLast /\ ~up) ~> pc = "idle"

\* A refused data request ends bdh ("Support REQUEST_STATUS in bdh").
RefusalEndsBdh ==
  (pc = "wait" /\ call.fn = "bdh" /\ todo = <<>> /\ up) ~> (pc = "idle" \/ ~up)

\* What the documentation says of bds, "the requested data set", and of beqs,
\* "the requested EQS data": all of it.
ReturnsTheWholeAnswer ==
  clean /\ up /\ Ended("ok") /\ call.fn \in {"bds", "beqs"} => Whole(got, Last(mine))

-----------------------------------------------------------------------------
\* What the events s give of the answer of request id.
Given(s, id) ==
  CASE s = <<>>     -> "empty"
    [] Whole(s, id) -> "whole"
    [] Len(s) = 1 /\ s[1].part = 1 /\ s[1].type # "RESPONSE" -> "first"
    [] Len(s) = 1 /\ s[1].part # 1 /\ s[1].type = "RESPONSE" -> "last"
    [] OTHER        -> "other"

\* All that was gathered is the call's own.
AllOwn ==
  /\ Len(types) = IF call.fn \in TypedFns \cup {"fieldInfo"} THEN Len(call.flds) ELSE 0
  /\ \A i \in DOMAIN types : types[i].req.id = mine[i]
  /\ \A i \in DOMAIN got : got[i].req.id = Last(mine)

\* What the running or last call has given the user, as CallPromise sees it.
Reply ==
  CASE pc # "idle" \/ outcome = "none"                            -> "none"
    [] pc = "idle" /\ outcome \notin {"none", "ok"}               -> "error"
    [] Ended("ok") /\ ~AllOwn                                     -> "other"
    [] Ended("ok") /\ AllOwn /\ call.fn = "fieldInfo"             -> "whole"
    [] Ended("ok") /\ AllOwn /\ call.fn # "fieldInfo"             -> Given(got, Last(mine))

Promise == INSTANCE CallPromise WITH
  phase   <- IF pc = "idle" THEN "idle" ELSE "busy",
  fn      <- call.fn,
  trusted <- IF pc = "idle" THEN Owed = {} ELSE clean,
  reply   <- Reply

\* The request functions implement the abstract call: one that begins when the
\* session owes nothing gives what its function promises or an error, only a
\* first part or an error leaves the session untrusted, and nothing but a
\* subscription mends it.
KeepsPromise == Promise!Spec
=============================================================================
