------------------------------ MODULE Messages -------------------------------
(***************************************************************************)
(* recursiveParse and eleToArray (subscribe.cpp): the R value made of the  *)
(* message a subscription hands to the user's function.  An element has a  *)
(* datatype, its named elements (a SEQUENCE or CHOICE) or its values (an   *)
(* array; of one element mostly).  A value is "plain", or for DATE and     *)
(* DATETIME "date", "time" or "both", by the parts it has.                 *)
(***************************************************************************)
EXTENDS Naturals, Sequences

CONSTANT Inbox   \* messages

VARIABLES
  message,  \* the message in hand
  value     \* what the user's function is given

messageVars == <<message, value>>

Element(type, kids, values, null) == [type |-> type, kids |-> kids, values |-> values, null |-> null]

Nothing == [r |-> "NULL", kids |-> <<>>, len |-> 0]                \* R_NilValue
Unparsed == [r |-> "unparsed", kids |-> <<>>, len |-> 0]           \* not yet parsed
Thrown  == [r |-> "thrown", kids |-> <<>>, len |-> 0]              \* an exception leaves subscribe()
RVector(mode, n) == [r |-> mode, kids |-> <<>>, len |-> n]
RList(kids) == [r |-> "list", kids |-> kids, len |-> Len(kids)]

HasDate(v) == v \in {"date", "both"}
HasTime(v) == v \in {"time", "both"}

All(values, P(_)) == \A i \in DOMAIN values : P(values[i])

\* eleToDate: a DATE with a time is refused, as is one that is no date.
EleToDate(values) ==
  IF All(values, LAMBDA v : HasDate(v) /\ ~HasTime(v)) THEN RVector("Date", Len(values)) ELSE Thrown

\* mutant: the parts of the first value are not asked for.
EleToDatetime_Any(values) ==
  IF All(values, HasDate) THEN RVector("POSIXct", Len(values)) ELSE Thrown

\* eleToDatetime: the first value decides for all; one without a date is then
\* no date, and none of them is.
EleToDatetime(values) ==
  IF ~HasDate(values[1]) THEN RVector("character", Len(values))
  ELSE IF All(values, HasDate) THEN RVector("POSIXct", Len(values))
  ELSE Thrown

Unread == {"BYTE", "INT64", "BYTEARRAY"}

EleToArray(e) ==
  CASE e.null                               -> Nothing
    [] ~e.null /\ e.type \in Unread         -> Nothing
    [] ~e.null /\ e.type = "BOOL"           -> RVector("logical", Len(e.values))
    [] ~e.null /\ e.type = "INT32"          -> RVector("integer", Len(e.values))
    [] ~e.null /\ e.type \in {"FLOAT32", "FLOAT64", "DECIMAL"} -> RVector("double", Len(e.values))
    [] ~e.null /\ e.type = "DATE"           -> EleToDate(e.values)
    [] ~e.null /\ e.type = "DATETIME"       -> EleToDatetime(e.values)
    [] ~e.null /\ e.type \in {"SEQUENCE", "CHOICE"} -> Thrown   \* getValueAsString of a sequence
    [] OTHER                                -> RVector("character", Len(e.values))

\* An exception anywhere ends the whole parse.
ListOf(kids) == IF \E i \in DOMAIN kids : kids[i].r = "thrown" THEN Thrown ELSE RList(kids)

\* mutant: the leaves one level down only.
RECURSIVE RecursiveParse_Flat(_)
RecursiveParse_Flat(e) ==
  IF e.kids # <<>> THEN ListOf([i \in DOMAIN e.kids |-> IF e.kids[i].kids # <<>> THEN Nothing
                                                        ELSE RecursiveParse_Flat(e.kids[i])])
  ELSE IF e.values = <<>> THEN Nothing
  ELSE EleToArray(e)

RECURSIVE RecursiveParse(_)
RecursiveParse(e) ==
  IF e.kids # <<>> THEN ListOf([i \in DOMAIN e.kids |-> RecursiveParse(e.kids[i])])
  ELSE IF e.values = <<>> THEN Nothing
  ELSE EleToArray(e)

\* Where the elements of a message are: the indexes on the way to each.
RECURSIVE Paths(_)
Paths(e) ==
  {<<>>} \cup UNION {{<<i>> \o p : p \in Paths(e.kids[i])} : i \in DOMAIN e.kids}

RECURSIVE At(_, _)
At(e, path) == IF path = <<>> THEN e ELSE At(e.kids[Head(path)], Tail(path))

-----------------------------------------------------------------------------
Arrives == message \in Inbox /\ value = Unparsed

ParseMessage ==
  /\ value = Unparsed
  /\ value' = RecursiveParse(message)
  /\ UNCHANGED message

-----------------------------------------------------------------------------
\* A parsed message has a value for each of its elements, at the same place:
\* as many values as the element has, or NULL for one that is empty, null, or a
\* byte or 64-bit integer; lists where it has elements.
ParsedKeepsItsPlaces ==
  value.r \notin {"unparsed", "thrown"} =>
    /\ Paths(value) = Paths(message)
    /\ \A p \in Paths(message) :
         LET e == At(message, p)
             v == At(value, p)
         IN  /\ v.r = "list" <=> e.kids # <<>>
             /\ v.r = "NULL" <=> e.kids = <<>> /\ (e.values = <<>> \/ e.null \/ e.type \in Unread)
             /\ v.r \notin {"list", "NULL"} => v.len = Len(e.values)

\* A message is lost to an exception only for an array of sequences, or dates
\* and times that are of two kinds in one array or carry what their type excludes.
LostForACause ==
  value.r = "thrown" =>
    \E p \in Paths(message) :
      LET e == At(message, p) IN
      /\ e.values # <<>>
      /\ \/ e.type \in {"SEQUENCE", "CHOICE"}
         \/ e.type = "DATE" /\ \E i \in DOMAIN e.values : e.values[i] # "date"
         \/ e.type = "DATETIME" /\ Len(e.values) > 1
=============================================================================
