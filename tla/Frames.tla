------------------------------- MODULE Frames -------------------------------
(***************************************************************************)
(* How an answer becomes the columns of an R data frame, for the four      *)
(* loaders of the package:                                                 *)
(*   typed   bdp, bdh: each column's type is decided by its field's info;  *)
(*   bulk    bds: by the first element of that name in the table;          *)
(*   screen  beqs: by a scan of the rows before they are read;             *)
(*   grid    bsrch: by a scan of the first rows, every row being full.     *)
(* Values are abstract: a cell is blank in one of three ways, or holds the *)
(* element at its row and column, as such or as text.  What R's accessors  *)
(* and Rcpp's vectors do on a column of another type is modelled from how  *)
(* the loaders use them.                                                   *)
(***************************************************************************)
EXTENDS Naturals, Sequences, FiniteSets

CONSTANTS
  Fields,     \* each column's [types, nulls, told]: the blpapi datatypes of its
              \* elements, whether they may be null, and the pairs of datatype
              \* and ftype its field's info may tell
  Loaders,    \* the loaders that run
  InferRows,  \* rows bsrch looks at for types (25 in the code)
  MaxRows     \* bound: rows of an answer

RealTypes == {"FLOAT32", "FLOAT64", "DECIMAL", "DATE", "TIME", "DATETIME"}
IntTypes  == {"INT32", "INT64", "CORRELATION_ID"}
TextTypes == {"STRING", "CHAR", "ENUMERATION"}
Unsupported == {"BYTE", "BYTEARRAY", "SEQUENCE", "CHOICE"}
AllTypes == RealTypes \cup IntTypes \cup TextTypes \cup {"BOOL"} \cup Unsupported

Columns == DOMAIN Fields

ASSUME FramesAssumption ==
  /\ \A c \in DOMAIN Fields : Fields[c].types \subseteq AllTypes /\ Fields[c].nulls \subseteq BOOLEAN
  /\ Loaders \subseteq {"typed", "bulk", "screen", "grid"}
  /\ InferRows \in Nat \ {0}
  /\ MaxRows \in Nat

VARIABLES
  loader,
  answer,   \* rows; a row gives each column its element, Absent or [type, null]
  info,     \* typed: each column's RblpapiT
  frame,    \* the columns resolved so far: [store, class, cells]
  row,      \* the loop's row
  allgood,  \* screen: every column was resolved by the row just scanned
  pc        \* "receive", "types", "scan", "fill", "done" or "stopped"

vars == <<loader, answer, info, frame, row, allgood, pc>>

Absent == [type |-> "absent", null |-> FALSE]
Elements(c) == [type : Fields[c].types, null : Fields[c].nulls]
Rows == 1 .. Len(answer)

\* What a value of type t is kept in, and under which class, as such.
StoreOf(t) == IF t \in RealTypes THEN "real" ELSE IF t \in IntTypes THEN "integer"
              ELSE IF t = "BOOL" THEN "logical" ELSE "string"
ClassOf(t) == IF t = "DATE" THEN "Date" ELSE IF t \in {"TIME", "DATETIME"} THEN "POSIXct" ELSE "none"

Vector(store, class, cell) == [store |-> store, class |-> class, cells |-> [r \in Rows |-> cell]]

-----------------------------------------------------------------------------
\* fieldInfoToRblpapiT: an unknown datatype reads past the map's end, whatever
\* is there deciding the case taken.
Known == {"Bool", "Datetime", "Double", "Float", "Int32", "Int64", "String"}
RblpapiTs == {"Logical", "Integer", "Integer64", "Double", "Float", "Date", "String"}

FieldInfoToRblpapiT_Datetime(datatype, ftype) ==     \* mutant: uses the type made for it
  IF datatype = "Datetime" /\ ftype # "Date" THEN {"Datetime"} ELSE {"String"}
FieldInfoToRblpapiT(datatype, ftype) ==
  CASE datatype = "Bool"   -> {"Logical"}
    [] datatype = "String" -> {"String"}
    [] datatype = "Int32"  -> {"Integer"}
    [] datatype = "Int64"  -> {"Integer64"}
    [] datatype = "Double" -> {"Double"}
    [] datatype = "Float"  -> {"Float"}
    [] datatype = "Datetime" -> IF ftype = "Date" THEN {"Date"} ELSE {"String"}
    [] OTHER -> RblpapiTs

\* bdh's int.as.double
IntAsDouble(t) == IF t \in {"Integer", "Integer64"} THEN "Double" ELSE t

ColumnTypes(c) ==
  LET told == UNION {FieldInfoToRblpapiT(t[1], t[2]) : t \in Fields[c].told}
  IN  told \cup {IntAsDouble(t) : t \in told}

\* allocateDataFrameColumn(RblpapiT): StringVector(n) is filled with "".
TypedColumn(t) ==
  CASE t = "Logical" -> Vector("logical", "none", "NA")
    [] t = "Integer" -> Vector("integer", "none", "NA")
    [] t \in {"Integer64", "Double", "Float"} -> Vector("real", "none", "NA")
    [] t = "Date"    -> Vector("real", "Date", "NA")
    [] t = "String"  -> Vector("string", "none", "blank")

\* allocateDataFrameColumn(datatype) of bds; correlation ids start at 0.
BulkColumn_NoClass(t) ==      \* mutant: addPosixClass forgotten
  Vector(StoreOf(t), IF t = "DATE" THEN "Date" ELSE "none", "NA")
BulkColumn_Int64Real(t) ==    \* mutant: a numeric column for INT64
  Vector(IF t = "INT64" THEN "real" ELSE StoreOf(t), ClassOf(t), "NA")
BulkColumn(t) ==
  Vector(StoreOf(t), ClassOf(t),
         IF t \in TextTypes THEN "blank" ELSE IF t = "CORRELATION_ID" THEN "zero" ELSE "NA")

\* beqs: Rcpp::DateVector(rows) starts at the epoch.
ScreenColumn(t) ==
  CASE t = "FLOAT64" -> Vector("real", "none", "NA")
    [] t = "DATE"    -> Vector("real", "Date", "zero")
    [] OTHER         -> Vector("string", "none", "NA")

GridColumn(t) ==
  CASE t \in {"FLOAT32", "FLOAT64"} -> Vector("real", "none", "NA")
    [] t = "DATETIME" -> Vector("real", "Date", "zero")
    [] OTHER          -> Vector("string", "none", "NA")

-----------------------------------------------------------------------------
\* A function giving each column one of its own set of choices.
Choices(Of(_)) == {f \in [Columns -> UNION {Of(c) : c \in Columns}] : \A c \in Columns : f[c] \in Of(c)}

\* Every row of a grid is full.
CellsOf(c) == Elements(c) \cup (IF loader = "grid" THEN {} ELSE {Absent})
InfosOf(c) == IF loader = "typed" THEN ColumnTypes(c) ELSE {"String"}

Init ==
  /\ loader \in Loaders
  /\ answer = <<>>
  /\ info \in Choices(InfosOf)
  /\ frame = <<>>
  /\ row = 1
  /\ allgood \in IF loader = "screen" THEN BOOLEAN ELSE {FALSE}   \* beqs does not initialize it
  /\ pc = "receive"

\* The answer is complete before it is read.
ReceiveRow ==
  /\ pc = "receive" /\ Len(answer) < MaxRows
  /\ \E cells \in Choices(CellsOf) : answer' = Append(answer, cells)
  /\ UNCHANGED <<loader, info, frame, row, allgood, pc>>

Received ==
  /\ pc = "receive"
  /\ pc' = "types"
  /\ UNCHANGED <<loader, answer, info, frame, row, allgood>>

Extend(new) == [c \in DOMAIN frame \cup DOMAIN new |-> IF c \in DOMAIN frame THEN frame[c] ELSE new[c]]
Present(c) == answer[row][c] # Absent

\* bds resolves columns as it fills them.
Resolve ==
  /\ pc = "types"
  /\ \/ /\ loader = "typed"
        /\ frame' = [c \in Columns |-> TypedColumn(info[c])]
        /\ pc' = "fill"
     \/ loader = "bulk" /\ pc' = "fill" /\ UNCHANGED frame
     \/ loader \in {"screen", "grid"} /\ pc' = "scan" /\ UNCHANGED frame
  /\ UNCHANGED <<loader, answer, info, row, allgood>>

Unresolved_All == {c \in Columns : Present(c)}                 \* mutant: no chk
Unresolved == {c \in Columns : Present(c) /\ c \notin DOMAIN frame}

ScanScreenRow ==
  /\ pc = "scan" /\ loader = "screen" /\ row \in Rows
  /\ frame' = [c \in DOMAIN frame \cup Unresolved |->
                 IF c \in Unresolved THEN ScreenColumn(answer[row][c].type) ELSE frame[c]]
  /\ allgood' = (DOMAIN frame' = Columns)
  /\ IF allgood' THEN row' = 1 /\ pc' = "fill" ELSE row' = row + 1 /\ UNCHANGED pc
  /\ UNCHANGED <<loader, answer, info>>

\* Fallback for what no row resolved, if allgood says there is any.
ScanScreenEnd ==
  /\ pc = "scan" /\ loader = "screen" /\ row \notin Rows
  /\ frame' = IF allgood THEN frame ELSE Extend([c \in Columns |-> Vector("real", "none", "NA")])
  /\ row' = 1 /\ pc' = "fill"
  /\ UNCHANGED <<loader, answer, info, allgood>>

ScanGrid ==
  /\ pc = "scan" /\ loader = "grid"
  /\ IF row \in Rows /\ row <= InferRows
     THEN /\ frame' = Extend([c \in Columns |-> GridColumn(answer[row][c].type)])
          /\ row' = row + 1 /\ UNCHANGED pc
     ELSE row' = 1 /\ pc' = "fill" /\ UNCHANGED frame
  /\ UNCHANGED <<loader, answer, info, allgood>>

-----------------------------------------------------------------------------
\* The types the accessor of a column of type t takes whatever the value; others
\* it converts if the value allows (a date as the number yyyymmdd, say).
Exact(t) ==
  CASE t = "Logical" -> {"BOOL"}
    [] t = "Integer" -> {"INT32"}
    [] t \in {"Integer64", "Double", "Float"} -> {"INT32", "FLOAT32", "FLOAT64", "DECIMAL"}
    [] t = "Date"    -> {"DATE"}
    [] t = "String"  -> AllTypes \ Unsupported

Put(col, cell) == [col EXCEPT !.cells[row] = cell]

\* CharacterVector v = lst[j]: as.character() of the whole column, if need be.
AsText(col) ==
  [store |-> "string", class |-> "none",
   cells |-> IF col.store = "string" THEN col.cells
             ELSE [r \in Rows |-> IF col.cells[r] = "own" THEN "text" ELSE col.cells[r]]]

\* INTEGER() and LOGICAL() take each other's vectors.
SameAccess(store, t) == store = StoreOf(t) \/ {store, StoreOf(t)} = {"integer", "logical"}

\* What beqs and bsrch assign as a number; all else they assign as text.
AsNumber(t) == t = "FLOAT64" \/ (loader = "screen" /\ t = "DATE")

\* The column after element e has been put in it.
Scanned(col, e) ==
  IF e.type = "FLOAT64" THEN Put(col, "own")
  ELSE IF AsNumber(e.type) THEN Put([col EXCEPT !.class = "Date"], "own")
  ELSE Put(AsText(col), IF e.type \in TextTypes THEN "own" ELSE "text")

Filled(c, col, e) ==
  CASE loader = "typed"  -> Put(col, IF info[c] = "String" /\ e.type \notin TextTypes THEN "text" ELSE "own")
    [] loader = "bulk"   -> Put(col, "own")
    [] OTHER             -> Scanned(col, e)

Takes(c, col, e) ==
  CASE loader = "typed"  -> e.type \notin Unsupported
    [] loader = "bulk"   -> e.type \notin Unsupported /\ SameAccess(col.store, e.type)
    [] OTHER             -> ~e.null /\ (AsNumber(e.type) => col.store = "real")

\* bds makes a date of every TIME and DATETIME, and one without a date is none.
MayRefuse(c, e) ==
  CASE loader = "typed" -> e.type \notin Exact(info[c])
    [] loader = "bulk"  -> e.type \in Unsupported \cup {"TIME", "DATETIME"}
    [] OTHER            -> e.type \in Unsupported

ColumnFor(c, e) == IF c \in DOMAIN frame THEN frame[c] ELSE BulkColumn(e.type)

\* Null elements are skipped by the two loaders that look for them.
Skipped(e) == e.null /\ loader \in {"typed", "bulk"}

\* bds throws for an unsupported type when it makes the column, null or not.
Readable(c) ==
  LET e == answer[row][c] IN
  \/ Skipped(e) /\ (loader = "bulk" => c \in DOMAIN frame \/ e.type \notin Unsupported)
  \/ ~Skipped(e) /\ Takes(c, ColumnFor(c, e), e)

After(c) ==
  LET e == answer[row][c] IN
  IF c \in DOMAIN frame /\ ~Present(c) THEN frame[c]
  ELSE IF Skipped(e) THEN ColumnFor(c, e) ELSE Filled(c, ColumnFor(c, e), e)

Here == {c \in Columns : Present(c)}

FillRow ==
  /\ pc = "fill" /\ row \in Rows
  /\ \A c \in Here : Readable(c)
  /\ frame' = [c \in DOMAIN frame \cup Here |-> After(c)]
  /\ row' = row + 1
  /\ UNCHANGED <<loader, answer, info, allgood, pc>>

StopAtRow ==
  /\ pc = "fill" /\ row \in Rows
  /\ \E c \in Here : ~Readable(c) \/ (~Skipped(answer[row][c]) /\ MayRefuse(c, answer[row][c]))
  /\ pc' = "stopped"
  /\ UNCHANGED <<loader, answer, info, frame, row, allgood>>

\* for (i = 0; i < rows; i++)
AtEnd_OffByOne == row + 1 > Len(answer)    \* mutant: the last row is not read
AtEnd == row > Len(answer)

ReturnFrame ==
  /\ pc = "fill" /\ AtEnd
  /\ pc' = "done"
  /\ UNCHANGED <<loader, answer, info, frame, row, allgood>>

Next ==
  \/ ReceiveRow \/ Received \/ Resolve
  \/ ScanScreenRow \/ ScanScreenEnd \/ ScanGrid
  \/ FillRow \/ StopAtRow \/ ReturnFrame

Spec == Init /\ [][Next]_vars

-----------------------------------------------------------------------------
Cells == {"NA", "blank", "zero", "own", "text"}

\* Types of the state.  No field's column is RblpapiT::Datetime, which is
\* allocated as a string vector and filled as a double one.
TypeOK ==
  /\ loader \in Loaders
  /\ \A r \in Rows : \A c \in Columns : answer[r][c] \in Elements(c) \cup {Absent}
  /\ info \in [Columns -> RblpapiTs]
  /\ DOMAIN frame \subseteq Columns
  /\ \A c \in DOMAIN frame :
       frame[c] \in [store : {"logical", "integer", "real", "string"},
                     class : {"none", "Date", "POSIXct"}, cells : [Rows -> Cells]]
  /\ row \in Nat /\ allgood \in BOOLEAN
  /\ pc \in {"receive", "types", "scan", "fill", "done", "stopped"}

\* The types of a column's elements, and those of its values.
TypesIn(c) == {answer[r][c].type : r \in {q \in Rows : answer[q][c] # Absent}}
Values(c) == {r \in Rows : answer[r][c] # Absent /\ ~answer[r][c].null}

\* A frame that is returned holds every value of the answer, in its own row and
\* column, as such or as text: no loader drops a value, whatever types it meets
\* in whatever order.
ReturnedKeepsEveryValue ==
  pc = "done" => \A c \in Columns : \A r \in Values(c) :
    c \in DOMAIN frame /\ frame[c].cells[r] \in {"own", "text"}

\* The value at r is kept under a class or in a vector that is not its type's.
Misread(c, r) ==
  /\ frame[c].cells[r] = "own"
  /\ frame[c].store # StoreOf(answer[r][c].type) \/ frame[c].class # ClassOf(answer[r][c].type)

\* Without field info, a value is misread only in a column whose elements are of
\* two types that share R's accessors: a number in a Date column, or 7 in a
\* logical one.  A column of one type comes back as that type or as text.
MisreadNeedsMixedTypes ==
  pc = "done" /\ loader # "typed" => \A c \in DOMAIN frame : \A r \in Values(c) :
    Misread(c, r) => \E t, u \in TypesIn(c) : t # u /\ SameAccess(StoreOf(t), u)

\* A column whose elements are all of one type R can hold never stops a loader
\* that infers types, but for times without a date in bds.
OneTypeIsNeverRefused ==
  pc = "stopped" /\ loader # "typed" =>
    \E c \in Columns : \/ Cardinality(TypesIn(c)) > 1
                       \/ TypesIn(c) \cap Unsupported # {}
                       \/ loader = "bulk" /\ TypesIn(c) \cap {"TIME", "DATETIME"} # {}
                       \/ \E r \in Rows : answer[r][c].null

\* Stopping at the row that resolves the last column, the scan gives each column
\* the type of the first row that has it, as a scan of all the rows would.
ScanFindsFirst ==
  (pc = "fill" /\ row = 1 /\ loader \in {"screen", "grid"}) =>
    \A c \in DOMAIN frame : \A r \in Rows :
      answer[r][c] # Absent /\ (\A q \in 1 .. r - 1 : answer[q][c] = Absent) =>
        frame[c] = IF loader = "screen" THEN ScreenColumn(answer[r][c].type)
                   ELSE GridColumn(answer[r][c].type)

\* What populateDfRow's comment says: "the vectors are already initialized to
\* NAs", so the cell of an element that is null or absent is NA.
EmptyCellsAreNA ==
  pc = "done" /\ loader = "typed" =>
    \A c \in Columns : \A r \in Rows \ Values(c) : frame[c].cells[r] = "NA"

\* What beqs's comment says of columns no row resolved: "these will all set to
\* fallback NA", so the frame has all the columns of the screen.
UnresolvedFallBack == pc = "done" /\ loader = "screen" => DOMAIN frame = Columns
=============================================================================
