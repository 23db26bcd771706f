------------------------------ MODULE Assembly -------------------------------
(***************************************************************************)
(* The rows of bdp (bdp.cpp) and the frames of bdh (bdh.cpp, R/bdh.R) of   *)
(* one call with a list of securities.  Its answer comes in parts, the     *)
(* securities in any order and the RESPONSE last; between them come parts  *)
(* of a request of the same function that an earlier call left unanswered, *)
(* perhaps a longer one (RequestCalls shows when that is so).              *)
(***************************************************************************)
EXTENDS Integers, Sequences

CONSTANTS
  Securities,
  MaxAsked,   \* bound: securities of the call
  MaxOlder    \* bound: securities of the older request

ASSUME AssemblyAssumption == MaxAsked \in Nat \ {0} /\ MaxOlder \in Nat

Requests == {"older", "own"}

VARIABLES
  fn,        \* "bdp" or "bdh"
  simplify,  \* bdh's parameter
  request,   \* the securities of the two requests
  due,       \* the places in them that are not answered yet
  rows,      \* res of bdp: one row per security
  ans,       \* ans of bdh: the frames so far,
  names,     \* and ans_names
  lastRead,  \* history: whose part was read last
  outcome    \* "reading", "returned", "stopped", or "wild": memory that is not the vector's was read

vars == <<fn, simplify, request, due, rows, ans, names, lastRead, outcome>>

asked == request["own"]

\* What the answer says of one security: of which request, at which place.
Datum(r, k) == [req |-> r, at |-> k]
NA == [req |-> "none", at |-> 0]
SecurityOf(datum) == request[datum.req][datum.at]

Lists(max) == UNION {[1..n -> Securities] : n \in 0..max}

Init ==
  /\ fn \in {"bdp", "bdh"}
  /\ simplify \in BOOLEAN
  /\ request \in [older: Lists(MaxOlder), own: Lists(MaxAsked) \ {<<>>}]
  /\ due \in [older: SUBSET DOMAIN request["older"], own: {DOMAIN request["own"]}]
  /\ rows = [k \in DOMAIN asked |-> NA]
  /\ ans = <<>>
  /\ names = <<>>
  /\ lastRead = "none"
  /\ outcome = "reading"

\* An event with some of the securities that are due; with all, a RESPONSE.
Parts(r) == (SUBSET due[r]) \ {{}}

Read(r, part) ==
  /\ outcome = "reading"
  /\ due' = [due EXCEPT ![r] = @ \ part]
  /\ lastRead' = r
  /\ UNCHANGED <<fn, simplify, request>>

After(r, part) == IF part = due[r] THEN "returned" ELSE "reading"

-----------------------------------------------------------------------------
\* getBDPResult: the row is the answer's sequence number, counted from 0.
SequenceNumber(k) == k - 1

RowOf_Incremented(number) == number + 2    \* mutant: counted from 1 twice
RowOf(number) == number + 1

Row(k) == RowOf(SequenceNumber(k))

Outside(part) == \E k \in part : Row(k) \notin DOMAIN asked

Mismatch_Unchecked(r, part) == FALSE       \* mutant: the name is not compared
Mismatch(r, part) == \E k \in part : request[r][k] # asked[Row(k)]

FillRows(r, part) ==
  [i \in DOMAIN rows |->
     IF \E k \in part : Row(k) = i THEN Datum(r, CHOOSE k \in part : Row(k) = i) ELSE rows[i]]

\* securities[row_index] is not compared with the vector's size.
ReadBeyond(r, part) ==
  /\ Outside(part)
  /\ outcome' \in {"stopped", "wild"}
  /\ UNCHANGED rows

StopAtMismatch(r, part) ==
  /\ ~Outside(part)
  /\ Mismatch(r, part)
  /\ outcome' = "stopped"
  /\ UNCHANGED rows

ReadRows(r, part) ==
  /\ ~Outside(part)
  /\ ~Mismatch(r, part)
  /\ rows' = FillRows(r, part)
  /\ outcome' = After(r, part)

GetBDPResult(r, part) ==
  /\ fn = "bdp"
  /\ Read(r, part)
  /\ ReadBeyond(r, part) \/ StopAtMismatch(r, part) \/ ReadRows(r, part)
  /\ UNCHANGED <<ans, names>>

-----------------------------------------------------------------------------
\* One security per event.  ans has a slot for each security asked; to assign
\* beyond is an R error.
HasRoom_Always(n) == TRUE                  \* mutant: a list that grows
HasRoom(n) == n < Len(asked)

NameFor_Asked(r, k) == asked[(Len(ans) % Len(asked)) + 1] \* mutant: names in the order asked
NameFor(r, k) == request[r][k]

KeepFrame(r, k) ==
  /\ HasRoom(Len(ans))
  /\ ans' = Append(ans, Datum(r, k))
  /\ outcome' = After(r, {k})

OutOfRoom(r, k) ==
  /\ ~HasRoom(Len(ans))
  /\ outcome' = "stopped"
  /\ UNCHANGED ans

HistoricalDataResponse(r, k) ==
  /\ fn = "bdh"
  /\ Read(r, {k})
  /\ names' = Append(names, NameFor(r, k))
  /\ KeepFrame(r, k) \/ OutOfRoom(r, k)
  /\ UNCHANGED rows

-----------------------------------------------------------------------------
\* An error answer, a value that is refused, a field that was not asked for, a
\* message of another kind; for bdh a REQUEST_STATUS.
StopAtEvent ==
  /\ outcome = "reading"
  /\ outcome' = "stopped"
  /\ UNCHANGED <<fn, simplify, request, due, rows, ans, names, lastRead>>

Next ==
  \/ \E r \in Requests : \E part \in Parts(r) : GetBDPResult(r, part)
  \/ \E r \in Requests : \E k \in due[r] : HistoricalDataResponse(r, k)
  \/ StopAtEvent

Spec == Init /\ [][Next]_vars

-----------------------------------------------------------------------------
\* bdh.R takes the frame out of a list of one; else the slots without a frame
\* are NULL and their names NA.
Unnamed == simplify /\ Len(asked) = 1
ResultName(i) == IF Unnamed THEN "none" ELSE IF i <= Len(names) THEN names[i] ELSE "NA"

\* Types.  There are never more frames than securities asked, nor names than frames.
TypeOK ==
  /\ fn \in {"bdp", "bdh"}
  /\ simplify \in BOOLEAN
  /\ request \in [older: Lists(MaxOlder), own: Lists(MaxAsked) \ {<<>>}]
  /\ \A r \in Requests : due[r] \subseteq DOMAIN request[r]
  /\ DOMAIN due = Requests
  /\ rows \in [DOMAIN asked -> [req: Requests \cup {"none"}, at: 0 .. (MaxAsked + MaxOlder)]]
  /\ ans \in Seq([req: Requests, at: 1 .. (MaxAsked + MaxOlder)])
  /\ names \in Seq(Securities)
  /\ Len(ans) <= Len(asked)
  /\ outcome # "stopped" => Len(names) = Len(ans)
  /\ lastRead \in Requests \cup {"none"}
  /\ outcome \in {"reading", "returned", "stopped", "wild"}

\* A row of bdp holds only data of the security it is named after, also when the
\* answer of an older request, of other securities or in another order, came
\* between.
RowsHoldTheirSecurity ==
  \A i \in DOMAIN rows : rows[i] # NA => SecurityOf(rows[i]) = asked[i]

\* A call that returned at its own RESPONSE is complete, in whatever order its
\* parts came: bdp has every row, and bdh exactly the frames of its own request,
\* for a stranger's frame takes a slot that its own last frame then lacks.
OwnEndIsComplete ==
  outcome = "returned" /\ lastRead = "own" =>
    /\ fn = "bdp" => \A i \in DOMAIN rows : rows[i] # NA
    /\ fn = "bdh" => {ans[i] : i \in DOMAIN ans} = {Datum("own", k) : k \in DOMAIN asked}

\* A frame of bdh is returned under the name of its own security.  Only a list
\* of one loses the name, and then the frame is another security's only if the
\* call ended at the older request's RESPONSE.
FramesAreNamed ==
  outcome = "returned" /\ fn = "bdh" =>
    \A i \in DOMAIN ans :
      \/ ResultName(i) = SecurityOf(ans[i])
      \/ Unnamed /\ (SecurityOf(ans[i]) = asked[1] \/ lastRead = "older")

\* bdp looks outside its list of securities only for an older request that had
\* more of them: never for its own answer.
BeyondNeedsALongerRequest ==
  outcome = "wild" => lastRead = "older" /\ Len(request["older"]) > Len(asked)
=============================================================================
