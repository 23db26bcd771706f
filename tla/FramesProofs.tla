----------------------------- MODULE FramesProofs -----------------------------
(***************************************************************************)
(* What holds of Frames for every set of columns, whatever the types of    *)
(* their elements and the order they come in, and for every number of rows.*)
(***************************************************************************)
EXTENDS Frames, FiniteSetTheorems, TLAPS

Cell == [type : AllTypes \cup {"absent"}, null : BOOLEAN]
Col  == [store : {"logical", "integer", "real", "string"},
         class : {"none", "Date", "POSIXct"}, cells : [Rows -> Cells]]

Scanning == loader \in {"screen", "grid"}

\* What the scan makes of a column whose first element is of type t.
ColumnOf(t) == IF loader = "screen" THEN ScreenColumn(t) ELSE GridColumn(t)
First(c, r) == answer[r][c] # Absent /\ \A q \in 1 .. r - 1 : answer[q][c] = Absent

\* The rows before row k of a column that is being filled: their values are in it,
Kept(c, col, k) == \A r \in Values(c) : r < k => col.cells[r] \in {"own", "text"}

\* by bds in a vector for the type of one of its elements,
BulkFits(c, col, k) ==
  \E t \in TypesIn(c) :
    /\ col.store = StoreOf(t) /\ col.class = ClassOf(t)
    /\ \A r \in Values(c) : r < k => SameAccess(col.store, answer[r][c].type)

\* by the scanning loaders as numbers or dates until a text turns up.
ScanFits(c, col, k) ==
  /\ col.store \in {"real", "string"} /\ col.class \in {"none", "Date"}
  /\ col.store = "string" => col.class = "none" /\ \E t \in TypesIn(c) : ~AsNumber(t)
  /\ col.class = "Date" => "DATE" \in TypesIn(c) \/ "DATETIME" \in TypesIn(c)
  /\ \A r \in Values(c) : r < k /\ col.cells[r] = "own" =>
       /\ col.store = "string" => answer[r][c].type \in TextTypes
       /\ col.store = "real" => /\ AsNumber(answer[r][c].type)
                                /\ answer[r][c].type = "DATE" => col.class = "Date"

Fits(c, col, k) ==
  /\ Kept(c, col, k)
  /\ loader = "bulk" => BulkFits(c, col, k)
  /\ Scanning => ScanFits(c, col, k)

Shape ==
  /\ TypeOK
  /\ answer \in Seq([Columns -> Cell])
  /\ row \in Nat \ {0}
  /\ loader = "grid" => \A r \in Rows : \A c \in Columns : answer[r][c] # Absent
  /\ pc \in {"receive", "types"} => DOMAIN frame = {} /\ row = 1
  /\ pc = "scan" => Scanning
  /\ pc = "done" => row > Len(answer)

\* Columns are resolved by their first elements, the others have none so far.
Resolving ==
  pc = "scan" =>
    /\ \A c \in DOMAIN frame : \E r \in Rows :
         r < row /\ First(c, r) /\ frame[c] = ColumnOf(answer[r][c].type)
    /\ \A c \in Columns \ DOMAIN frame : \A r \in Rows : r < row => answer[r][c] = Absent

\* A column is missing only where there is nothing to put in it.
Filling ==
  pc \in {"fill", "done"} =>
    /\ \A c \in DOMAIN frame : Fits(c, frame[c], row)
    /\ \A c \in Columns \ DOMAIN frame : \A r \in Rows :
         r < row \/ loader # "bulk" => answer[r][c] = Absent

FramesInv ==
  /\ Shape
  /\ Resolving
  /\ Filling
  /\ ScanFindsFirst
  /\ OneTypeIsNeverRefused

-----------------------------------------------------------------------------
(* Columns *)

LEMMA TypesAre ==
  /\ AllTypes = {"FLOAT32", "FLOAT64", "DECIMAL", "DATE", "TIME", "DATETIME", "INT32", "INT64",
                 "CORRELATION_ID", "STRING", "CHAR", "ENUMERATION", "BOOL", "BYTE", "BYTEARRAY",
                 "SEQUENCE", "CHOICE"}
  /\ "absent" \notin AllTypes
  BY DEF AllTypes, RealTypes, IntTypes, TextTypes, Unsupported

LEMMA StoresAre ==
  ASSUME NEW t
  PROVE  /\ StoreOf(t) \in {"logical", "integer", "real", "string"}
         /\ ClassOf(t) \in {"none", "Date", "POSIXct"}
         /\ SameAccess(StoreOf(t), t)
  BY DEF StoreOf, ClassOf, SameAccess

LEMMA VectorIs ==
  ASSUME NEW s \in {"logical", "integer", "real", "string"}, NEW k \in {"none", "Date", "POSIXct"},
         NEW x \in Cells
  PROVE  Vector(s, k, x) \in Col /\ Vector(s, k, x).store = s /\ Vector(s, k, x).class = k
  BY DEF Vector, Col

LEMMA NewColumns ==
  ASSUME NEW t
  PROVE  /\ t \in RblpapiTs => TypedColumn(t) \in Col
         /\ BulkColumn(t) \in Col /\ BulkColumn(t).store = StoreOf(t) /\ BulkColumn(t).class = ClassOf(t)
         /\ ScreenColumn(t) \in Col /\ GridColumn(t) \in Col
         /\ ColumnOf(t).store \in {"real", "string"} /\ ColumnOf(t).class \in {"none", "Date"}
         /\ ColumnOf(t).store = "string" => ColumnOf(t).class = "none"
         /\ ColumnOf(t).class = "Date" => t \in {"DATE", "DATETIME"}
         /\ Scanning /\ ColumnOf(t).store = "string" => ~AsNumber(t)
  <1>1. {"NA", "blank", "zero"} \subseteq Cells
    BY DEF Cells
  <1>2. t \in RblpapiTs => TypedColumn(t) \in Col
    BY <1>1, VectorIs DEF TypedColumn, RblpapiTs
  <1>3. BulkColumn(t) \in Col /\ BulkColumn(t).store = StoreOf(t) /\ BulkColumn(t).class = ClassOf(t)
    BY <1>1, VectorIs, StoresAre DEF BulkColumn
  <1>4. /\ ScreenColumn(t) \in Col
        /\ t = "FLOAT64" => ScreenColumn(t).store = "real" /\ ScreenColumn(t).class = "none"
        /\ t = "DATE" => ScreenColumn(t).store = "real" /\ ScreenColumn(t).class = "Date"
        /\ t \notin {"FLOAT64", "DATE"} => ScreenColumn(t).store = "string" /\ ScreenColumn(t).class = "none"
    BY <1>1, VectorIs DEF ScreenColumn
  <1>5. /\ GridColumn(t) \in Col
        /\ t \in {"FLOAT32", "FLOAT64"} => GridColumn(t).store = "real" /\ GridColumn(t).class = "none"
        /\ t = "DATETIME" => GridColumn(t).store = "real" /\ GridColumn(t).class = "Date"
        /\ t \notin {"FLOAT32", "FLOAT64", "DATETIME"} =>
             GridColumn(t).store = "string" /\ GridColumn(t).class = "none"
    BY <1>1, VectorIs DEF GridColumn
  <1> QED BY <1>2, <1>3, <1>4, <1>5 DEF ColumnOf, AsNumber, Scanning

\* One cell is put,
LEMMA PutIs ==
  ASSUME NEW col \in Col, NEW x \in Cells, row \in Rows
  PROVE  /\ Put(col, x) \in Col
         /\ Put(col, x).store = col.store /\ Put(col, x).class = col.class
         /\ Put(col, x).cells[row] = x
         /\ \A r \in Rows : r # row => Put(col, x).cells[r] = col.cells[r]
  BY DEF Put, Col

\* or a column turned into text.
LEMMA AsTextIs ==
  ASSUME NEW col \in Col
  PROVE  /\ AsText(col) \in Col /\ AsText(col).store = "string" /\ AsText(col).class = "none"
         /\ \A r \in Rows : col.cells[r] \in {"own", "text"} => AsText(col).cells[r] \in {"own", "text"}
         /\ \A r \in Rows : AsText(col).cells[r] = "own" => col.store = "string" /\ col.cells[r] = "own"
  <1>1. {"own", "text"} \subseteq Cells
    BY DEF Cells
  <1>2. CASE col.store = "string"
    BY <1>2 DEF AsText, Col
  <1>3. CASE col.store # "string"
    BY <1>1, <1>3 DEF AsText, Col
  <1> QED BY <1>2, <1>3

LEMMA DatedIs ==
  ASSUME NEW col \in Col
  PROVE  LET d == [col EXCEPT !.class = "Date"] IN
         d \in Col /\ d.store = col.store /\ d.class = "Date" /\ d.cells = col.cells
  BY DEF Col

\* Two types of one column make more than one.
LEMMA TwoTypes ==
  ASSUME NEW T, IsFiniteSet(T), NEW a \in T, NEW b \in T, a # b
  PROVE  Cardinality(T) > 1
  <1>1. PICK A : A = {a} /\ IsFiniteSet(A) /\ Cardinality(A) = 1 /\ b \notin A
    BY FS_Singleton
  <1>2. IsFiniteSet(A \cup {b}) /\ Cardinality(A \cup {b}) = 2
    BY <1>1, FS_AddElement, SMTT(20)
  <1>3. (A \cup {b}) \in SUBSET T
    BY <1>1
  <1>4. Cardinality(A \cup {b}) <= Cardinality(T) /\ Cardinality(T) \in Nat
    BY <1>3, FS_Subset, FS_CardinalityType
  <1> QED BY <1>2, <1>4

LEMMA TypesFinite ==
  ASSUME answer \in Seq([Columns -> Cell]), NEW c \in Columns
  PROVE  IsFiniteSet(TypesIn(c))
  <1> DEFINE present == {q \in Rows : answer[q][c] # Absent}
             f == [r \in present |-> answer[r][c].type]
  <1>1. IsFiniteSet(Rows)
    BY FS_Interval DEF Rows
  <1>2. IsFiniteSet(present)
    BY <1>1, FS_Subset
  <1>3. f \in Surjection(present, TypesIn(c))
    BY DEF Surjection, TypesIn
  <1> QED BY <1>2, <1>3, FS_Surjection

-----------------------------------------------------------------------------
(* The answer *)

LEMMA CellIs ==
  ASSUME NEW c \in Columns
  PROVE  /\ Elements(c) \cup {Absent} \subseteq Cell
         /\ \A e \in Elements(c) \cup {Absent} : e # Absent => e.type \in AllTypes /\ e.null \in BOOLEAN
  <1>1. Fields[c].types \subseteq AllTypes /\ Fields[c].nulls \subseteq BOOLEAN
    BY FramesAssumption DEF Columns
  <1>2. Elements(c) \subseteq Cell /\ \A e \in Elements(c) : e.type \in AllTypes /\ e.null \in BOOLEAN
    BY <1>1 DEF Elements, Cell
  <1>3. Absent \in Cell
    BY DEF Absent, Cell
  <1> QED BY <1>2, <1>3

\* What every part of the proof needs of the state.
LEMMA ShapeIs ==
  ASSUME Shape
  PROVE  /\ answer \in Seq([Columns -> Cell]) /\ Rows = 1 .. Len(answer) /\ Len(answer) \in Nat
         /\ \A r \in Rows : \A c \in Columns : answer[r][c] \in Elements(c) \cup {Absent}
         /\ loader \in {"typed", "bulk", "screen", "grid"}
         /\ DOMAIN frame \subseteq Columns /\ \A c \in DOMAIN frame : frame[c] \in Col
         /\ row \in Nat \ {0} /\ info \in [Columns -> RblpapiTs]
  <1>1. DOMAIN frame \subseteq Columns /\ \A c \in DOMAIN frame : frame[c] \in Col
    BY DEF Shape, TypeOK, Col
  <1> QED BY <1>1, FramesAssumption DEF Shape, TypeOK, Rows

\* What is read of the answer stays as long as the answer does.
LEMMA SameAnswer ==
  ASSUME UNCHANGED <<answer, loader>>
  PROVE  /\ Rows' = Rows /\ Col' = Col /\ (Scanning' <=> Scanning)
         /\ \A c : Values(c)' = Values(c) /\ TypesIn(c)' = TypesIn(c)
         /\ \A t : ColumnOf(t)' = ColumnOf(t) /\ (AsNumber(t)' <=> AsNumber(t))
         /\ \A c, r : First(c, r)' <=> First(c, r)
         /\ \A c, col, k : Fits(c, col, k)' <=> Fits(c, col, k)
  BY DEF Rows, Col, Scanning, Values, TypesIn, ColumnOf, AsNumber, First, Fits, Kept, BulkFits, ScanFits,
         ScreenColumn, GridColumn, Vector

LEMMA InfoTypes ==
  ASSUME NEW c \in Columns, NEW i \in InfosOf(c)
  PROVE  i \in RblpapiTs
  <1>1. \A d, f : FieldInfoToRblpapiT(d, f) \subseteq RblpapiTs
    BY DEF FieldInfoToRblpapiT, RblpapiTs
  <1>2. \A t \in RblpapiTs : IntAsDouble(t) \in RblpapiTs
    BY DEF IntAsDouble, RblpapiTs
  <1>3. ColumnTypes(c) \subseteq RblpapiTs
    BY <1>1, <1>2 DEF ColumnTypes
  <1> QED BY <1>3 DEF InfosOf, RblpapiTs

LEMMA FramesInit == Init => FramesInv
  <1> SUFFICES ASSUME Init PROVE FramesInv
    OBVIOUS
  <1>1. /\ loader \in Loaders /\ answer = <<>> /\ frame = <<>> /\ row = 1 /\ pc = "receive"
        /\ allgood \in BOOLEAN
    BY DEF Init
  <1>2. Rows = {} /\ DOMAIN frame = {}
    BY <1>1 DEF Rows
  <1>3. info \in [Columns -> RblpapiTs]
    <2>1. /\ info \in [Columns -> UNION {InfosOf(c) : c \in Columns}]
          /\ \A c \in Columns : info[c] \in InfosOf(c)
      BY DEF Init, Choices
    <2> QED BY <2>1, InfoTypes
  <1>4. answer \in Seq([Columns -> Cell])
    BY <1>1
  <1>5. TypeOK
    BY <1>1, <1>2, <1>3 DEF TypeOK
  <1>6. Shape
    BY <1>1, <1>2, <1>4, <1>5 DEF Shape
  <1> QED BY <1>1, <1>6 DEF FramesInv, Resolving, Filling, ScanFindsFirst, OneTypeIsNeverRefused

LEMMA ReceiveKeeps ==
  ASSUME FramesInv, ReceiveRow
  PROVE  FramesInv'
  <1>1. /\ pc = "receive" /\ pc' = "receive" /\ UNCHANGED <<loader, info, frame, row, allgood>>
        /\ DOMAIN frame = {} /\ row = 1
    BY DEF ReceiveRow, FramesInv, Shape
  <1>2. PICK cells \in Choices(CellsOf) : answer' = Append(answer, cells)
    BY DEF ReceiveRow
  <1>3. /\ cells \in [Columns -> UNION {CellsOf(c) : c \in Columns}]
        /\ \A c \in Columns : cells[c] \in CellsOf(c)
    BY DEF Choices
  <1>4. /\ \A c \in Columns : cells[c] \in Elements(c) \cup {Absent}
        /\ loader = "grid" => \A c \in Columns : cells[c] # Absent
    <2>1. \A c \in Columns : \A e \in Elements(c) : e # Absent
      BY TypesAre, FramesAssumption DEF Elements, Absent, Columns
    <2> QED BY <1>3, <2>1 DEF CellsOf
  <1>5. cells \in [Columns -> Cell]
    BY <1>3, <1>4, CellIs
  <1>6. PICK n \in Nat : /\ Rows = 1 .. n /\ Rows' = 1 .. n + 1
                         /\ \A r \in 1 .. n : answer'[r] = answer[r]
                         /\ answer'[n + 1] = cells
                         /\ answer' \in Seq([Columns -> Cell])
    BY <1>2, <1>5, ShapeIs DEF Rows, FramesInv
  <1>7. \A r \in Rows' : \A c \in Columns : answer'[r][c] \in Elements(c) \cup {Absent}
    <2>1. \A r \in Rows : \A c \in Columns : answer[r][c] \in Elements(c) \cup {Absent}
      BY ShapeIs DEF FramesInv
    <2> QED BY <1>4, <1>6, <2>1
  <1>8. loader' = "grid" => \A r \in Rows' : \A c \in Columns : answer'[r][c] # Absent
    <2>1. loader = "grid" => \A r \in Rows : \A c \in Columns : answer[r][c] # Absent
      BY DEF FramesInv, Shape
    <2> QED BY <1>1, <1>4, <1>6, <2>1
  <1>9. TypeOK'
    BY <1>1, <1>7 DEF TypeOK, FramesInv, Shape
  <1>10. Shape'
    BY <1>1, <1>6, <1>8, <1>9 DEF Shape, FramesInv
  <1> QED BY <1>1, <1>10 DEF FramesInv, Resolving, Filling, ScanFindsFirst, OneTypeIsNeverRefused

-----------------------------------------------------------------------------
(* The scan *)

LEMMA TypeIn ==
  ASSUME NEW c \in Columns, NEW r \in Rows, answer[r][c] # Absent
  PROVE  answer[r][c].type \in TypesIn(c)
  BY DEF TypesIn

\* A column the scan has made fits what is put in it from the first row on.
LEMMA ResolvedFits ==
  ASSUME Scanning, NEW c \in Columns, NEW t \in TypesIn(c)
  PROVE  Fits(c, ColumnOf(t), 1)
  <1>1. \A r \in Values(c) : ~(r < 1)
    BY DEF Values, Rows
  <1>2. ScanFits(c, ColumnOf(t), 1)
    BY <1>1, NewColumns DEF ScanFits
  <1> QED BY <1>1, <1>2 DEF Fits, Kept, Scanning

LEMMA FallbackFits ==
  ASSUME Scanning, NEW c \in Columns
  PROVE  Fits(c, Vector("real", "none", "NA"), 1)
  <1>1. \A r \in Values(c) : ~(r < 1)
    BY DEF Values, Rows
  <1>2. Vector("real", "none", "NA").store = "real" /\ Vector("real", "none", "NA").class = "none"
    BY DEF Vector
  <1>3. ScanFits(c, Vector("real", "none", "NA"), 1)
    BY <1>1, <1>2 DEF ScanFits
  <1> QED BY <1>1, <1>3 DEF Fits, Kept, Scanning

LEMMA FirstIsOne ==
  ASSUME Shape, NEW c \in Columns, NEW r \in Rows, NEW q \in Rows, First(c, r), First(c, q)
  PROVE  r = q
  <1>1. r \in Nat \ {0} /\ q \in Nat \ {0}
    BY ShapeIs
  <1>2. ~(r \in 1 .. q - 1) /\ ~(q \in 1 .. r - 1)
    BY DEF First
  <1> QED BY <1>1, <1>2

\* When the scan is over the columns fit, and each is what its first element makes it.
LEMMA StartFilling ==
  ASSUME Shape, Scanning, UNCHANGED <<answer, loader>>, pc' = "fill", row' = 1,
         DOMAIN frame' \subseteq Columns,
         \A c \in DOMAIN frame' :
           \/ \E r \in Rows : First(c, r) /\ frame'[c] = ColumnOf(answer[r][c].type)
           \/ (\A r \in Rows : answer[r][c] = Absent) /\ frame'[c] = Vector("real", "none", "NA"),
         \A c \in Columns \ DOMAIN frame' : \A r \in Rows : answer[r][c] = Absent
  PROVE  Filling' /\ ScanFindsFirst' /\ Resolving' /\ OneTypeIsNeverRefused'
  <1>1. \A c \in DOMAIN frame' : Fits(c, frame'[c], 1)
    <2> TAKE c \in DOMAIN frame'
    <2>1. c \in Columns
      OBVIOUS
    <2>2. CASE \E r \in Rows : First(c, r) /\ frame'[c] = ColumnOf(answer[r][c].type)
      <3>1. PICK r \in Rows : First(c, r) /\ frame'[c] = ColumnOf(answer[r][c].type)
        BY <2>2
      <3>2. answer[r][c].type \in TypesIn(c)
        BY <2>1, <3>1, TypeIn DEF First
      <3> QED BY <2>1, <3>1, <3>2, ResolvedFits
    <2>3. CASE frame'[c] = Vector("real", "none", "NA")
      BY <2>1, <2>3, FallbackFits
    <2> QED BY <2>2, <2>3
  <1>2. \A c, col, k : c \in DOMAIN frame' /\ col = frame'[c] /\ k = row' => Fits(c, col, k)'
    <2> SUFFICES ASSUME NEW c, NEW col, NEW k, c \in DOMAIN frame', col = frame'[c], k = row'
                 PROVE  Fits(c, col, k)'
      OBVIOUS
    <2>1. Fits(c, col, k)
      BY <1>1
    <2>2. Fits(c, col, k)' <=> Fits(c, col, k)
      BY SameAnswer
    <2> QED BY <2>1, <2>2
  <1>3. Filling'
    <2>1. Rows' = Rows
      BY SameAnswer
    <2> QED BY <1>2, <2>1 DEF Filling
  <1>4. ScanFindsFirst'
    <2>1. ASSUME NEW c \in DOMAIN frame', NEW r \in Rows, First(c, r)
          PROVE  frame'[c] = ColumnOf(answer[r][c].type)
      <3>1. answer[r][c] # Absent /\ c \in Columns
        BY <2>1 DEF First
      <3>2. PICK q \in Rows : First(c, q) /\ frame'[c] = ColumnOf(answer[q][c].type)
        BY <3>1
      <3>3. q = r
        BY <2>1, <3>1, <3>2, FirstIsOne
      <3> QED BY <3>2, <3>3
    <2>2. \A c, r : First(c, r) <=> answer[r][c] # Absent /\ \A q \in 1 .. r - 1 : answer[q][c] = Absent
      BY DEF First
    <2>3. \A t : /\ ColumnOf(t) = IF loader = "screen" THEN ScreenColumn(t) ELSE GridColumn(t)
                 /\ ScreenColumn(t)' = ScreenColumn(t) /\ GridColumn(t)' = GridColumn(t)
      BY DEF ColumnOf, ScreenColumn, GridColumn, Vector, Rows
    <2>4. Rows' = Rows
      BY SameAnswer
    <2> QED BY <2>1, <2>2, <2>3, <2>4 DEF ScanFindsFirst
  <1> QED BY <1>3, <1>4 DEF Resolving, OneTypeIsNeverRefused

LEMMA ShapeSame ==
  ASSUME FramesInv, UNCHANGED <<loader, answer, info>>, allgood' \in BOOLEAN,
         row' \in Nat \ {0}, DOMAIN frame' \subseteq Columns, \A c \in DOMAIN frame' : frame'[c] \in Col,
         \/ pc' = "scan" /\ Scanning
         \/ pc' \in {"fill", "stopped"}
         \/ pc' = "done" /\ row' > Len(answer)
         \/ pc' \in {"receive", "types"} /\ DOMAIN frame' = {} /\ row' = 1
  PROVE  Shape'
  <1>1. Rows' = Rows /\ Col' = Col /\ (Scanning' <=> Scanning)
    BY SameAnswer
  <1>2. \A c \in DOMAIN frame' :
          frame'[c] \in [store : {"logical", "integer", "real", "string"},
                         class : {"none", "Date", "POSIXct"}, cells : [Rows -> Cells]]
    BY DEF Col
  <1>3. TypeOK'
    BY <1>1, <1>2 DEF FramesInv, Shape, TypeOK
  <1> QED BY <1>1, <1>3 DEF FramesInv, Shape

\* A column missing until this row is resolved by it.
LEMMA FirstHere ==
  ASSUME FramesInv, pc = "scan", NEW c \in Columns \ DOMAIN frame, row \in Rows, answer[row][c] # Absent
  PROVE  First(c, row)
  <1>1. row \in Nat \ {0} /\ \A q \in 1 .. row - 1 : q \in Rows /\ q < row
    BY ShapeIs DEF FramesInv
  <1> QED BY <1>1 DEF FramesInv, Resolving, First

LEMMA ScanScreenKeeps ==
  ASSUME FramesInv, ScanScreenRow
  PROVE  FramesInv'
  <1>1. /\ pc = "scan" /\ loader = "screen" /\ row \in Rows /\ Scanning
        /\ UNCHANGED <<loader, answer, info>> /\ Shape
    BY DEF ScanScreenRow, FramesInv, Scanning
  <1>2. /\ DOMAIN frame' = DOMAIN frame \cup Unresolved
        /\ \A c \in DOMAIN frame' :
             frame'[c] = IF c \in Unresolved THEN ScreenColumn(answer[row][c].type) ELSE frame[c]
    BY DEF ScanScreenRow
  <1>3. /\ \A c \in Unresolved : c \in Columns \ DOMAIN frame /\ answer[row][c] # Absent
        /\ \A c \in Columns : c \notin Unresolved /\ c \notin DOMAIN frame => answer[row][c] = Absent
    BY DEF Unresolved, Present
  <1>4. DOMAIN frame \subseteq Columns /\ (\A c \in DOMAIN frame : frame[c] \in Col) /\ row \in Nat \ {0}
    BY <1>1, ShapeIs
  <1>5. DOMAIN frame' \subseteq Columns /\ \A c \in DOMAIN frame' : frame'[c] \in Col
    BY <1>2, <1>3, <1>4, NewColumns
  <1>6. \A c \in DOMAIN frame' : \E r \in Rows :
          r < row + 1 /\ First(c, r) /\ frame'[c] = ColumnOf(answer[r][c].type)
    <2> TAKE c \in DOMAIN frame'
    <2>1. CASE c \in Unresolved
      BY <1>1, <1>2, <1>3, <1>4, <2>1, FirstHere DEF ColumnOf
    <2>2. CASE c \notin Unresolved
      <3>1. PICK r \in Rows : r < row /\ First(c, r) /\ frame[c] = ColumnOf(answer[r][c].type)
        BY <1>1, <1>2, <2>2 DEF FramesInv, Resolving
      <3>2. r < row + 1
        BY <1>1, <1>4, <3>1, ShapeIs
      <3> QED BY <1>2, <2>2, <3>1, <3>2
    <2> QED BY <2>1, <2>2
  <1>7. \A c \in Columns \ DOMAIN frame' : \A r \in Rows : r < row + 1 => answer[r][c] = Absent
    <2> TAKE c \in Columns \ DOMAIN frame'
    <2>1. answer[row][c] = Absent /\ \A r \in Rows : r < row => answer[r][c] = Absent
      BY <1>1, <1>2, <1>3 DEF FramesInv, Resolving
    <2>2. \A r \in Rows : r < row + 1 => r < row \/ r = row
      BY <1>1, <1>4, ShapeIs
    <2> QED BY <2>1, <2>2
  <1>8. CASE DOMAIN frame' = Columns
    <2>1. row' = 1 /\ pc' = "fill" /\ allgood' = TRUE
      BY <1>8 DEF ScanScreenRow
    <2>2. Shape'
      BY <1>1, <1>5, <2>1, ShapeSame
    <2> QED BY <1>1, <1>5, <1>6, <1>8, <2>1, <2>2, StartFilling DEF FramesInv
  <1>9. CASE DOMAIN frame' # Columns
    <2>a. row' = row + 1 /\ pc' = "scan" /\ allgood' = FALSE
      BY <1>1, <1>9 DEF ScanScreenRow
    <2>b. allgood' \in BOOLEAN
      BY <2>a, Zenon
    <2>c. row' \in Nat \ {0}
      BY <1>4, <2>a
    <2>1. row' = row + 1 /\ pc' = "scan" /\ allgood' \in BOOLEAN /\ row' \in Nat \ {0}
      BY <2>a, <2>b, <2>c, Zenon
    <2>2. Shape'
      BY <1>1, <1>5, <2>1, ShapeSame
    <2>3. Resolving'
      BY <1>1, <1>6, <1>7, <2>1, SameAnswer DEF Resolving
    <2> QED BY <2>1, <2>2, <2>3 DEF FramesInv, Filling, ScanFindsFirst, OneTypeIsNeverRefused
  <1> QED BY <1>8, <1>9

\* The columns no row had are missing, or made of NA.
LEMMA ScanEndKeeps ==
  ASSUME FramesInv, ScanScreenEnd
  PROVE  FramesInv'
  <1>1. /\ pc = "scan" /\ loader = "screen" /\ row \notin Rows /\ Scanning /\ Shape
        /\ UNCHANGED <<loader, answer, info, allgood>> /\ row' = 1 /\ pc' = "fill"
    BY DEF ScanScreenEnd, FramesInv, Scanning
  <1>2. \A r \in Rows : r < row
    <2>1. Rows = 1 .. Len(answer) /\ Len(answer) \in Nat /\ row \in Nat \ {0}
      BY <1>1, ShapeIs
    <2> QED BY <1>1, <2>1
  <1>3. \A c \in Columns \ DOMAIN frame : \A r \in Rows : answer[r][c] = Absent
    BY <1>1, <1>2 DEF FramesInv, Resolving
  <1>4. /\ DOMAIN frame \subseteq DOMAIN frame' /\ \A c \in DOMAIN frame : frame'[c] = frame[c]
        /\ DOMAIN frame' \subseteq Columns
        /\ \A c \in DOMAIN frame' \ DOMAIN frame : frame'[c] = Vector("real", "none", "NA")
    BY <1>1, ShapeIs DEF ScanScreenEnd, Extend
  <1>5. \A c \in DOMAIN frame' :
          \/ \E r \in Rows : First(c, r) /\ frame'[c] = ColumnOf(answer[r][c].type)
          \/ (\A r \in Rows : answer[r][c] = Absent) /\ frame'[c] = Vector("real", "none", "NA")
    <2> TAKE c \in DOMAIN frame'
    <2>1. CASE c \in DOMAIN frame
      BY <1>1, <1>4, <2>1 DEF FramesInv, Resolving
    <2>2. CASE c \notin DOMAIN frame
      BY <1>3, <1>4, <2>2
    <2> QED BY <2>1, <2>2
  <1>6. \A c \in DOMAIN frame' : frame'[c] \in Col
    BY <1>1, <1>4, ShapeIs, VectorIs DEF Cells
  <1>7. Shape' /\ \A c \in Columns \ DOMAIN frame' : \A r \in Rows : answer[r][c] = Absent
    <2>1. allgood' \in BOOLEAN /\ row' \in Nat \ {0}
      BY <1>1 DEF Shape, TypeOK
    <2>2. Shape'
      BY <1>1, <1>4, <1>6, <2>1, ShapeSame
    <2> QED BY <1>3, <1>4, <2>2
  <1> QED BY <1>1, <1>4, <1>5, <1>7, StartFilling DEF FramesInv

\* The rows of a grid being full, its first one resolves all columns.
LEMMA ScanGridKeeps ==
  ASSUME FramesInv, ScanGrid
  PROVE  FramesInv'
  <1>1. /\ pc = "scan" /\ loader = "grid" /\ Scanning /\ Shape
        /\ UNCHANGED <<loader, answer, info, allgood>>
        /\ \A r \in Rows : \A c \in Columns : answer[r][c] # Absent
    BY DEF ScanGrid, FramesInv, Scanning, Shape
  <1>2. /\ Rows = 1 .. Len(answer) /\ Len(answer) \in Nat /\ row \in Nat \ {0} /\ InferRows \in Nat \ {0}
        /\ DOMAIN frame \subseteq Columns /\ (\A c \in DOMAIN frame : frame[c] \in Col)
        /\ allgood' \in BOOLEAN
    BY <1>1, ShapeIs, FramesAssumption DEF Shape, TypeOK
  <1>3. CASE row \in Rows /\ row <= InferRows
    <2>1. row' = row + 1 /\ pc' = "scan" /\ row' \in Nat \ {0}
      BY <1>1, <1>2, <1>3 DEF ScanGrid
    <2>2. /\ DOMAIN frame' = Columns
          /\ \A c \in DOMAIN frame : frame'[c] = frame[c]
          /\ \A c \in Columns \ DOMAIN frame : frame'[c] = GridColumn(answer[row][c].type)
      BY <1>2, <1>3 DEF ScanGrid, Extend
    <2>3. \A c \in DOMAIN frame' : frame'[c] \in Col
      BY <1>2, <2>2, NewColumns
    <2>4. Shape'
      BY <1>1, <1>2, <2>1, <2>2, <2>3, ShapeSame
    <2>5. \A c \in DOMAIN frame' : \E r \in Rows :
            r < row' /\ First(c, r) /\ frame'[c] = ColumnOf(answer[r][c].type)
      <3> TAKE c \in DOMAIN frame'
      <3>1. CASE c \in DOMAIN frame
        <4>1. PICK r \in Rows : r < row /\ First(c, r) /\ frame[c] = ColumnOf(answer[r][c].type)
          BY <1>1, <3>1 DEF FramesInv, Resolving
        <4>2. r < row'
          BY <1>2, <2>1, <4>1
        <4> QED BY <2>2, <3>1, <4>1, <4>2
      <3>2. CASE c \notin DOMAIN frame
        <4>1. First(c, row) /\ row < row'
          BY <1>1, <1>2, <1>3, <2>1, <2>2, <3>2, FirstHere
        <4> QED BY <1>1, <1>3, <2>2, <3>2, <4>1 DEF ColumnOf
      <3> QED BY <3>1, <3>2
    <2>6. Resolving'
      BY <1>1, <2>2, <2>5, SameAnswer DEF Resolving
    <2> QED BY <2>1, <2>4, <2>6 DEF FramesInv, Filling, ScanFindsFirst, OneTypeIsNeverRefused
  <1>4. CASE ~(row \in Rows /\ row <= InferRows)
    <2>1. row' = 1 /\ pc' = "fill" /\ frame' = frame
      BY <1>4 DEF ScanGrid
    <2>2. Shape'
      BY <1>1, <1>2, <2>1, ShapeSame
    <2>3. \A c \in Columns \ DOMAIN frame : \A r \in Rows : answer[r][c] = Absent
      <3> SUFFICES ASSUME NEW c \in Columns \ DOMAIN frame, NEW r \in Rows PROVE FALSE
        OBVIOUS
      <3>1. 1 \in Rows /\ 1 < row
        BY <1>2, <1>4
      <3>2. answer[1][c] = Absent
        BY <1>1, <3>1 DEF FramesInv, Resolving
      <3> QED BY <1>1, <3>1, <3>2
    <2>4. \A c \in DOMAIN frame' : \E r \in Rows :
            First(c, r) /\ frame'[c] = ColumnOf(answer[r][c].type)
      BY <1>1, <2>1 DEF FramesInv, Resolving
    <2> QED BY <1>1, <1>2, <2>1, <2>2, <2>3, <2>4, StartFilling DEF FramesInv
  <1> QED BY <1>3, <1>4

\* bdp, bdh and bds start with what they know without the rows.
LEMMA ResolveKeeps ==
  ASSUME FramesInv, Received \/ Resolve
  PROVE  FramesInv'
  <1>1. /\ UNCHANGED <<loader, answer, info, row, allgood>> /\ Shape
        /\ DOMAIN frame = {} /\ row = 1 /\ allgood \in BOOLEAN
        /\ pc' \in {"types", "scan", "fill"}
    BY DEF Received, Resolve, FramesInv, Shape, TypeOK
  <1>2. \A r \in Rows : ~(r < row)
    BY <1>1, ShapeIs
  <1>3. CASE frame' = frame /\ (pc' = "fill" => loader = "bulk")
    <2>1. /\ pc' = "scan" => Scanning
          /\ pc' = "fill" => loader = "bulk"
          /\ pc' # "done" /\ pc' # "stopped"
      BY <1>1, <1>3 DEF Received, Resolve, Scanning, FramesInv, Shape, TypeOK
    <2>2. Shape'
      BY <1>1, <1>3, <2>1, ShapeSame
    <2>3. Resolving' /\ Filling'
      BY <1>1, <1>2, <1>3, <2>1, SameAnswer DEF Resolving, Filling
    <2>4. ScanFindsFirst'
      BY <1>1, <2>1 DEF ScanFindsFirst, Scanning
    <2> QED BY <2>1, <2>2, <2>3, <2>4 DEF FramesInv, OneTypeIsNeverRefused
  <1>4. CASE loader = "typed" /\ pc' = "fill" /\ frame' = [c \in Columns |-> TypedColumn(info[c])]
    <2>1. DOMAIN frame' = Columns /\ \A c \in DOMAIN frame' : frame'[c] \in Col
      BY <1>1, <1>4, ShapeIs, NewColumns
    <2>2. Shape'
      BY <1>1, <1>4, <2>1, ShapeSame
    <2>3. \A c, col : Fits(c, col, row)'
      <3> TAKE c, col
      <3>1. Fits(c, col, row)
        BY <1>2, <1>4 DEF Fits, Kept, Scanning, Values
      <3>2. \A k : Fits(c, col, k)' <=> Fits(c, col, k)
        BY <1>1, SameAnswer
      <3> QED BY <1>1, <3>1, <3>2
    <2>4. Filling'
      BY <2>1, <2>3 DEF Filling
    <2> QED BY <1>1, <1>4, <2>2, <2>4 DEF FramesInv, Resolving, ScanFindsFirst, OneTypeIsNeverRefused
  <1> QED BY <1>3, <1>4 DEF Received, Resolve

-----------------------------------------------------------------------------
(* The rows *)

\* What putting element e in the column col makes of it:
Puts(col, e, new) ==
  /\ new \in Col
  /\ new.cells[row] \in {"own", "text"}
  /\ \A r \in Rows : r # row /\ col.cells[r] \in {"own", "text"} => new.cells[r] \in {"own", "text"}
  /\ loader \in {"typed", "bulk"} => new.store = col.store /\ new.class = col.class
  /\ Scanning =>
       \/ /\ AsNumber(e.type) /\ new.store = col.store
          /\ new.class = IF e.type = "DATE" THEN "Date" ELSE col.class
          /\ \A r \in Rows : r # row => new.cells[r] = col.cells[r]
       \/ /\ ~AsNumber(e.type) /\ new.store = "string" /\ new.class = "none"
          /\ new.cells[row] = "own" => e.type \in TextTypes
          /\ \A r \in Rows : r # row /\ new.cells[r] = "own" =>
               col.store = "string" /\ col.cells[r] = "own"

\* An element is put in its column, which keeps what it had, as such or as text.
LEMMA FilledIs ==
  ASSUME Shape, row \in Rows, NEW c \in Columns, NEW col \in Col, NEW e,
         NEW new, new = Filled(c, col, e)
  PROVE  Puts(col, e, new)
  <1> DEFINE dated == [col EXCEPT !.class = "Date"]
  <1>1. {"own", "text"} \subseteq Cells
    BY DEF Cells
  <1>2. CASE loader \in {"typed", "bulk"}
    <2>1. PICK x \in {"own", "text"} : new = Put(col, x)
      BY <1>2 DEF Filled
    <2> QED BY <1>1, <1>2, <2>1, PutIs DEF Scanning, Puts
  <1>3. CASE Scanning /\ AsNumber(e.type)
    <2>1. \/ new = Put(col, "own") /\ e.type # "DATE"
          \/ new = Put(dated, "own") /\ e.type = "DATE"
      BY <1>3 DEF Filled, Scanned, Scanning, AsNumber
    <2>2. dated \in Col /\ dated.store = col.store /\ dated.class = "Date" /\ dated.cells = col.cells
      BY DatedIs
    <2> HIDE DEF dated
    <2>3. loader \notin {"typed", "bulk"}
      BY <1>3 DEF Scanning
    <2>4. /\ new \in Col /\ new.store = col.store /\ new.cells[row] = "own"
          /\ new.class = IF e.type = "DATE" THEN "Date" ELSE col.class
          /\ \A r \in Rows : r # row => new.cells[r] = col.cells[r]
      <3>1. CASE new = Put(col, "own") /\ e.type # "DATE"
        BY <1>1, <3>1, PutIs
      <3>2. CASE new = Put(dated, "own") /\ e.type = "DATE"
        <4>1. /\ new \in Col /\ new.store = dated.store /\ new.class = dated.class
              /\ new.cells[row] = "own"
              /\ \A r \in Rows : r # row => new.cells[r] = dated.cells[r]
          BY <1>1, <2>2, <3>2, PutIs
        <4> QED BY <2>2, <3>2, <4>1
      <3> QED BY <2>1, <3>1, <3>2
    <2> QED BY <1>3, <2>3, <2>4 DEF Puts
  <1>4. CASE Scanning /\ ~AsNumber(e.type)
    <2>1. PICK x \in {"own", "text"} : new = Put(AsText(col), x) /\ (x = "own" => e.type \in TextTypes)
      BY <1>4 DEF Filled, Scanned, Scanning, AsNumber
    <2>2. /\ new \in Col /\ new.store = "string" /\ new.class = "none" /\ new.cells[row] = x
          /\ \A r \in Rows : r # row => new.cells[r] = AsText(col).cells[r]
      BY <1>1, <2>1, AsTextIs, PutIs
    <2>3. \A r \in Rows : r # row /\ col.cells[r] \in {"own", "text"} => new.cells[r] \in {"own", "text"}
      BY <2>2, AsTextIs
    <2>4. \A r \in Rows : r # row /\ new.cells[r] = "own" => col.store = "string" /\ col.cells[r] = "own"
      BY <2>2, AsTextIs
    <2> QED BY <1>4, <2>1, <2>2, <2>3, <2>4 DEF Scanning, Puts
  <1>5. loader \in {"typed", "bulk"} \/ Scanning
    BY ShapeIs DEF Scanning
  <1> QED BY <1>2, <1>3, <1>4, <1>5

LEMMA BeforeNext ==
  ASSUME Shape, NEW c \in Columns, NEW r \in Values(c), r < row + 1
  PROVE  r \in Rows /\ (r < row \/ r = row)
  <1>1. r \in Rows /\ row \in Nat /\ Rows \subseteq Nat
    BY ShapeIs DEF Values
  <1> QED BY <1>1

\* Where the row has no value nothing is asked of the column,
LEMMA SkipFits ==
  ASSUME Shape, NEW c \in Columns, NEW col, Fits(c, col, row), row \notin Values(c)
  PROVE  Fits(c, col, row + 1)
  <1>1. \A r \in Values(c) : r < row + 1 => r < row
    BY BeforeNext
  <1>2. Kept(c, col, row + 1)
    BY <1>1 DEF Fits, Kept
  <1>3. loader = "bulk" => BulkFits(c, col, row + 1)
    BY <1>1 DEF Fits, BulkFits
  <1>4. Scanning => ScanFits(c, col, row + 1)
    BY <1>1 DEF Fits, ScanFits
  <1> QED BY <1>2, <1>3, <1>4 DEF Fits

\* and a value that is taken leaves it fit.
LEMMA FillFits ==
  ASSUME Shape, row \in Rows, NEW c \in Columns, NEW col \in Col, Fits(c, col, row),
         answer[row][c] # Absent, ~answer[row][c].null, Takes(c, col, answer[row][c])
  PROVE  Fits(c, Filled(c, col, answer[row][c]), row + 1)
  <1>1. PICK e : e = answer[row][c]
    OBVIOUS
  <1>2. PICK new : new = Filled(c, col, e)
    OBVIOUS
  <1>3. e.type \in TypesIn(c) /\ Takes(c, col, e)
    BY <1>1, TypeIn
  <1>9. Puts(col, e, new)
    BY <1>2, FilledIs
  <1>4. /\ new \in Col
        /\ new.cells[row] \in {"own", "text"}
        /\ \A r \in Rows : r # row /\ col.cells[r] \in {"own", "text"} => new.cells[r] \in {"own", "text"}
        /\ loader \in {"typed", "bulk"} => new.store = col.store /\ new.class = col.class
    BY <1>9 DEF Puts
  <1>5. Kept(c, new, row + 1)
    <2> SUFFICES ASSUME NEW r \in Values(c), r < row + 1
                 PROVE  new.cells[r] \in {"own", "text"}
      BY DEF Kept
    <2>1. r \in Rows /\ (r < row \/ r = row)
      BY BeforeNext
    <2>2. r < row => col.cells[r] \in {"own", "text"}
      BY DEF Fits, Kept
    <2> QED BY <1>4, <2>1, <2>2
  <1>6. ASSUME loader = "bulk"
        PROVE  BulkFits(c, new, row + 1)
    <2>1. PICK t \in TypesIn(c) :
            /\ col.store = StoreOf(t) /\ col.class = ClassOf(t)
            /\ \A r \in Values(c) : r < row => SameAccess(col.store, answer[r][c].type)
      BY <1>6 DEF Fits, BulkFits
    <2>2. new.store = col.store /\ new.class = col.class /\ SameAccess(col.store, e.type)
      BY <1>3, <1>4, <1>6 DEF Takes
    <2>3. \A r \in Values(c) : r < row + 1 => SameAccess(new.store, answer[r][c].type)
      BY <1>1, <2>1, <2>2, BeforeNext
    <2> QED BY <2>1, <2>2, <2>3 DEF BulkFits
  <1>7. ASSUME Scanning
        PROVE  ScanFits(c, new, row + 1)
    <2>1. ScanFits(c, col, row)
      BY <1>7 DEF Fits
    <2>2. CASE AsNumber(e.type)
      <3>1. col.store = "real"
        BY <1>3, <1>7, <2>2 DEF Takes, Scanning
      <3>2. /\ new.store = "real" /\ new.class = (IF e.type = "DATE" THEN "Date" ELSE col.class)
            /\ \A r \in Rows : r # row => new.cells[r] = col.cells[r]
        BY <1>9, <1>7, <2>2, <3>1 DEF Puts
      <3>3. /\ new.class \in {"none", "Date"}
            /\ new.class = "Date" => "DATE" \in TypesIn(c) \/ "DATETIME" \in TypesIn(c)
        BY <1>3, <2>1, <3>2 DEF ScanFits
      <3>4. ASSUME NEW r \in Values(c), r < row + 1, new.cells[r] = "own"
            PROVE  AsNumber(answer[r][c].type) /\ (answer[r][c].type = "DATE" => new.class = "Date")
        <4>1. CASE r = row
          BY <1>1, <2>2, <3>2, <4>1
        <4>2. CASE r # row
          <5>1. r \in Rows /\ r < row /\ col.cells[r] = "own"
            BY <3>2, <3>4, <4>2, BeforeNext
          <5>2. AsNumber(answer[r][c].type) /\ (answer[r][c].type = "DATE" => col.class = "Date")
            BY <2>1, <3>1, <5>1 DEF ScanFits
          <5> QED BY <3>2, <5>2
        <4> QED BY <4>1, <4>2
      <3> QED BY <3>2, <3>3, <3>4 DEF ScanFits
    <2>3. CASE ~AsNumber(e.type)
      <3>1. /\ new.store = "string" /\ new.class = "none"
            /\ new.cells[row] = "own" => e.type \in TextTypes
            /\ \A r \in Rows : r # row /\ new.cells[r] = "own" => col.store = "string" /\ col.cells[r] = "own"
        BY <1>9, <1>7, <2>3 DEF Puts
      <3>2. ASSUME NEW r \in Values(c), r < row + 1, new.cells[r] = "own"
            PROVE  answer[r][c].type \in TextTypes
        <4>1. CASE r = row
          BY <1>1, <3>1, <3>2, <4>1
        <4>2. CASE r # row
          <5>1. r \in Rows /\ r < row /\ col.store = "string" /\ col.cells[r] = "own"
            BY <3>1, <3>2, <4>2, BeforeNext
          <5> QED BY <2>1, <5>1 DEF ScanFits
        <4> QED BY <4>1, <4>2
      <3> QED BY <1>3, <2>3, <3>1, <3>2 DEF ScanFits
    <2> QED BY <2>2, <2>3
  <1>8. Fits(c, new, row + 1)
    BY <1>5, <1>6, <1>7 DEF Fits
  <1> QED BY <1>1, <1>2, <1>8

\* The column an element goes to, made for it by bds if it is missing.
LEMMA ColumnForFits ==
  ASSUME FramesInv, pc = "fill", row \in Rows, NEW c \in Columns, answer[row][c] # Absent
  PROVE  LET col == ColumnFor(c, answer[row][c]) IN
         /\ col \in Col /\ Fits(c, col, row)
         /\ c \notin DOMAIN frame => loader = "bulk" /\ col = BulkColumn(answer[row][c].type)
  <1>1. CASE c \in DOMAIN frame
    <2>1. ColumnFor(c, answer[row][c]) = frame[c]
      BY <1>1 DEF ColumnFor
    <2>2. frame[c] \in Col
      BY <1>1, ShapeIs DEF FramesInv
    <2>3. Fits(c, frame[c], row)
      BY <1>1 DEF FramesInv, Filling
    <2> QED BY <1>1, <2>1, <2>2, <2>3
  <1>2. CASE c \notin DOMAIN frame
    <2>1. loader = "bulk" /\ \A r \in Rows : r < row => answer[r][c] = Absent
      BY <1>2 DEF FramesInv, Filling
    <2>2. PICK t : t = answer[row][c].type /\ t \in TypesIn(c)
      BY TypeIn
    <2>3. PICK col : col = BulkColumn(t) /\ ColumnFor(c, answer[row][c]) = col
      BY <1>2, <2>2 DEF ColumnFor
    <2>4. col \in Col /\ col.store = StoreOf(t) /\ col.class = ClassOf(t)
      BY <2>3, NewColumns
    <2>5. \A r \in Values(c) : ~(r < row)
      BY <2>1 DEF Values
    <2>6. Fits(c, col, row)
      BY <2>1, <2>2, <2>4, <2>5 DEF Fits, Kept, BulkFits, Scanning
    <2> QED BY <2>1, <2>2, <2>3, <2>4, <2>6
  <1> QED BY <1>1, <1>2

LEMMA FillRowKeeps ==
  ASSUME FramesInv, FillRow
  PROVE  FramesInv'
  <1>1. /\ pc = "fill" /\ pc' = "fill" /\ row \in Rows /\ row' = row + 1 /\ Shape
        /\ UNCHANGED <<loader, answer, info, allgood>>
        /\ \A c \in Here : Readable(c)
        /\ DOMAIN frame' = DOMAIN frame \cup Here /\ \A c \in DOMAIN frame' : frame'[c] = After(c)
    BY DEF FillRow, FramesInv
  <1>2. /\ \A c \in Columns : c \in Here <=> answer[row][c] # Absent
        /\ Here \subseteq Columns /\ DOMAIN frame \subseteq Columns /\ row \in Nat \ {0}
        /\ allgood' \in BOOLEAN
    BY <1>1, ShapeIs DEF Here, Present, Shape, TypeOK
  <1>3. ASSUME NEW c \in DOMAIN frame'
        PROVE  frame'[c] \in Col /\ Fits(c, frame'[c], row + 1)
    <2>1. c \in Columns /\ frame'[c] = After(c)
      BY <1>1, <1>2
    <2>2. CASE c \notin Here
      <3>1. c \in DOMAIN frame /\ After(c) = frame[c] /\ row \notin Values(c)
        BY <1>1, <1>2, <2>1, <2>2 DEF After, Present, Values
      <3>2. PICK col : col = frame[c] /\ col \in Col /\ Fits(c, col, row)
        BY <1>1, <3>1, ShapeIs DEF FramesInv, Filling
      <3> QED BY <1>1, <2>1, <3>1, <3>2, SkipFits
    <2>3. CASE c \in Here
      <3>1. PICK e, col : /\ e = answer[row][c] /\ col = ColumnFor(c, e) /\ e # Absent
                          /\ col \in Col /\ Fits(c, col, row)
        BY <1>1, <1>2, <2>1, <2>3, ColumnForFits
      <3>2. After(c) = IF Skipped(e) THEN col ELSE Filled(c, col, e)
        BY <3>1 DEF After, Present
      <3>3. CASE Skipped(e)
        <4>1. row \notin Values(c)
          BY <3>1, <3>3 DEF Skipped, Values
        <4>2. Fits(c, col, row + 1)
          BY <1>1, <2>1, <3>1, <4>1, SkipFits
        <4> QED BY <2>1, <3>1, <3>2, <3>3, <4>2
      <3>4. CASE ~Skipped(e)
        <4>1. Takes(c, col, e)
          BY <1>1, <2>3, <3>1, <3>4 DEF Readable
        <4>2. ~e.null
          BY <1>1, <3>4, <4>1, ShapeIs DEF Skipped, Takes
        <4>3. Fits(c, Filled(c, col, e), row + 1)
          BY <1>1, <2>1, <3>1, <4>1, <4>2, FillFits
        <4>4. PICK new : new = Filled(c, col, e)
          OBVIOUS
        <4>5. new \in Col
          BY <1>1, <2>1, <3>1, <4>4, FilledIs DEF Puts
        <4> QED BY <2>1, <3>2, <3>4, <4>3, <4>4, <4>5
      <3> QED BY <3>3, <3>4
    <2> QED BY <2>2, <2>3
  <1>4. row' \in Nat \ {0} /\ row' # 1
    BY <1>1, <1>2
  <1>5. Shape'
    BY <1>1, <1>2, <1>3, <1>4, ShapeSame
  <1>6. \A c, col, k : c \in DOMAIN frame' /\ col = frame'[c] /\ k = row' => Fits(c, col, k)'
    <2> SUFFICES ASSUME NEW c, NEW col, NEW k, c \in DOMAIN frame', col = frame'[c], k = row'
                 PROVE  Fits(c, col, k)'
      OBVIOUS
    <2>1. Fits(c, col, k)
      BY <1>1, <1>3
    <2>2. Fits(c, col, k)' <=> Fits(c, col, k)
      BY <1>1, SameAnswer
    <2> QED BY <2>1, <2>2
  <1>7. ASSUME NEW c \in Columns \ DOMAIN frame', NEW r \in Rows, r < row' \/ loader # "bulk"
        PROVE  answer[r][c] = Absent
    <2>1. c \in Columns \ DOMAIN frame /\ answer[row][c] = Absent
      BY <1>1, <1>2
    <2>2. r < row \/ r = row \/ loader # "bulk"
      BY <1>1, <1>2, <1>7, ShapeIs
    <2> QED BY <1>1, <2>1, <2>2 DEF FramesInv, Filling
  <1>8. Filling'
    BY <1>1, <1>6, <1>7, SameAnswer DEF Filling
  <1> QED BY <1>1, <1>4, <1>5, <1>8 DEF FramesInv, Resolving, ScanFindsFirst, OneTypeIsNeverRefused

\* What makes a loader stop at an element of a column, but for a null one.
Mixed(c) ==
  \/ Cardinality(TypesIn(c)) > 1
  \/ TypesIn(c) \cap Unsupported # {}
  \/ loader = "bulk" /\ TypesIn(c) \cap {"TIME", "DATETIME"} # {}
  \/ \E r \in Rows : answer[r][c].null

\* A column that does not take an element was made for one of another type.
LEMMA RefusedNeedsAReason ==
  ASSUME FramesInv, loader # "typed", pc = "fill", row \in Rows, NEW c \in Here,
         ~Readable(c) \/ (~Skipped(answer[row][c]) /\ MayRefuse(c, answer[row][c]))
  PROVE  Mixed(c)
  <1>1. Shape /\ c \in Columns /\ answer[row][c] # Absent /\ loader \in {"bulk", "screen", "grid"}
    BY ShapeIs DEF FramesInv, Here, Present
  <1>2. PICK e, col : e = answer[row][c] /\ col = ColumnFor(c, e) /\ Fits(c, col, row)
    BY <1>1, ColumnForFits
  <1>3. e.type \in TypesIn(c) /\ IsFiniteSet(TypesIn(c))
    BY <1>1, <1>2, TypeIn, TypesFinite DEF Shape
  <1>4. CASE e.null
    BY <1>2, <1>4 DEF Mixed
  <1>5. CASE ~e.null /\ MayRefuse(c, e)
    BY <1>1, <1>3, <1>5 DEF MayRefuse, Mixed
  <1>6. CASE ~e.null /\ ~Takes(c, col, e) /\ e.type \notin Unsupported
    <2>1. PICK t \in TypesIn(c) : t # e.type
      <3>1. CASE loader = "bulk"
        <4>1. ~SameAccess(col.store, e.type)
          BY <1>6, <3>1 DEF Takes
        <4>2. PICK t \in TypesIn(c) : col.store = StoreOf(t)
          BY <1>2, <3>1 DEF Fits, BulkFits
        <4> QED BY <4>1, <4>2, StoresAre
      <3>2. CASE Scanning
        <4>1. AsNumber(e.type) /\ col.store # "real"
          BY <1>6, <3>2 DEF Takes, Scanning
        <4>2. \E t \in TypesIn(c) : ~AsNumber(t)
          BY <1>2, <3>2, <4>1 DEF Fits, ScanFits
        <4> QED BY <4>1, <4>2
      <3> QED BY <1>1, <3>1, <3>2 DEF Scanning
    <2> QED BY <1>3, <2>1, TwoTypes DEF Mixed
  <1>7. CASE e.type \in Unsupported
    BY <1>3, <1>7 DEF Mixed
  <1>8. e.null \/ MayRefuse(c, e) \/ ~Takes(c, col, e)
    BY <1>2 DEF Readable, Skipped
  <1> QED BY <1>4, <1>5, <1>6, <1>7, <1>8

LEMMA StopKeeps ==
  ASSUME FramesInv, StopAtRow
  PROVE  FramesInv'
  <1>1. /\ pc = "fill" /\ pc' = "stopped" /\ row \in Rows
        /\ UNCHANGED <<loader, answer, info, frame, row, allgood>>
    BY DEF StopAtRow
  <1>2. Shape'
    BY <1>1, ShapeIs, ShapeSame DEF FramesInv, Shape, TypeOK
  <1>3. ASSUME loader # "typed"
        PROVE  \E c \in Columns : Mixed(c)
    <2>1. PICK c \in Here :
            ~Readable(c) \/ (~Skipped(answer[row][c]) /\ MayRefuse(c, answer[row][c]))
      BY DEF StopAtRow
    <2>2. Mixed(c) /\ c \in Columns
      BY <1>1, <1>3, <2>1, RefusedNeedsAReason DEF Here
    <2> QED BY <2>2
  <1>4. OneTypeIsNeverRefused'
    <2>1. Rows' = Rows /\ \A c : TypesIn(c)' = TypesIn(c)
      BY <1>1, SameAnswer
    <2> QED BY <1>1, <1>3, <2>1 DEF Mixed, OneTypeIsNeverRefused
  <1> QED BY <1>1, <1>2, <1>4 DEF FramesInv, Resolving, Filling, ScanFindsFirst

LEMMA FillingSame ==
  ASSUME FramesInv, UNCHANGED <<loader, answer, frame, row>>,
         pc' \in {"fill", "done"} => pc \in {"fill", "done"}
  PROVE  Filling'
  <1>1. \A c, col, k : Fits(c, col, k)' <=> Fits(c, col, k)
    BY SameAnswer
  <1>2. Rows' = Rows
    BY SameAnswer
  <1>3. \A c, col, k : pc' \in {"fill", "done"} /\ c \in DOMAIN frame' /\ col = frame'[c] /\ k = row' =>
          Fits(c, col, k)'
    BY <1>1 DEF FramesInv, Filling
  <1> QED BY <1>2, <1>3 DEF FramesInv, Filling

LEMMA ReturnKeeps ==
  ASSUME FramesInv, ReturnFrame
  PROVE  FramesInv'
  <1>1. /\ pc = "fill" /\ pc' = "done" /\ row > Len(answer)
        /\ UNCHANGED <<loader, answer, info, frame, row, allgood>>
    BY DEF ReturnFrame, AtEnd
  <1>2. Shape'
    BY <1>1, ShapeIs, ShapeSame DEF FramesInv, Shape, TypeOK
  <1>3. Filling'
    BY <1>1, FillingSame
  <1> QED BY <1>1, <1>2, <1>3 DEF FramesInv, Resolving, ScanFindsFirst, OneTypeIsNeverRefused

LEMMA StutterKeeps ==
  ASSUME FramesInv, UNCHANGED vars
  PROVE  FramesInv'
  <1>1. UNCHANGED <<loader, answer, info, frame, row, allgood>> /\ pc' = pc
    BY DEF vars
  <1>2. /\ Rows' = Rows /\ Col' = Col /\ (Scanning' <=> Scanning)
        /\ \A c : TypesIn(c)' = TypesIn(c)
        /\ \A t : ColumnOf(t)' = ColumnOf(t)
        /\ \A c, r : First(c, r)' <=> First(c, r)
    BY <1>1, SameAnswer
  <1>3. Shape'
    BY <1>1, <1>2 DEF FramesInv, Shape, TypeOK
  <1>4. Resolving'
    BY <1>1, <1>2 DEF FramesInv, Resolving
  <1>5. Filling'
    BY <1>1, FillingSame
  <1>6. ScanFindsFirst'
    BY <1>1, <1>2 DEF FramesInv, ScanFindsFirst, ScreenColumn, GridColumn, Vector
  <1>7. OneTypeIsNeverRefused'
    BY <1>1, <1>2 DEF FramesInv, OneTypeIsNeverRefused
  <1> QED BY <1>3, <1>4, <1>5, <1>6, <1>7 DEF FramesInv

LEMMA FramesNext == FramesInv /\ [Next]_vars => FramesInv'
  BY ReceiveKeeps, ResolveKeeps, ScanScreenKeeps, ScanEndKeeps, ScanGridKeeps, FillRowKeeps, StopKeeps,
     ReturnKeeps, StutterKeeps DEF Next

LEMMA FramesAlways == Spec => []FramesInv
  BY FramesInit, FramesNext, PTL DEF Spec

-----------------------------------------------------------------------------
(* What the loaders return *)

\* Values are where they should be when the last row has been read.
LEMMA DoneKeeps ==
  ASSUME FramesInv
  PROVE  ReturnedKeepsEveryValue
  <1> SUFFICES ASSUME pc = "done", NEW c \in Columns, NEW r \in Values(c)
               PROVE  c \in DOMAIN frame /\ frame[c].cells[r] \in {"own", "text"}
    BY DEF ReturnedKeepsEveryValue
  <1>1. r \in Rows /\ answer[r][c] # Absent
    BY DEF Values
  <1>2. r < row
    BY <1>1, ShapeIs DEF FramesInv, Shape
  <1>3. c \in DOMAIN frame
    BY <1>1, <1>2 DEF FramesInv, Filling
  <1>4. Fits(c, frame[c], row)
    BY <1>3 DEF FramesInv, Filling
  <1> QED BY <1>2, <1>3, <1>4 DEF Fits, Kept

\* A value under another type's class or in another type's vector met an
\* element of that type.
LEMMA DoneMisreads ==
  ASSUME FramesInv
  PROVE  MisreadNeedsMixedTypes
  <1> SUFFICES ASSUME pc = "done", loader # "typed", NEW c \in DOMAIN frame, NEW r \in Values(c),
                      Misread(c, r)
               PROVE  \E t, u \in TypesIn(c) : t # u /\ SameAccess(StoreOf(t), u)
    BY DEF MisreadNeedsMixedTypes
  <1>1. Shape /\ c \in Columns /\ r \in Rows /\ answer[r][c] # Absent
    BY ShapeIs DEF FramesInv, Values
  <1>2. r < row /\ loader \in {"bulk", "screen", "grid"}
    BY <1>1, ShapeIs DEF Shape
  <1>3. PICK u, col : u = answer[r][c].type /\ col = frame[c]
    OBVIOUS
  <1>4. u \in TypesIn(c) /\ Fits(c, col, row)
    BY <1>1, <1>3, TypeIn DEF FramesInv, Filling
  <1>5. col.cells[r] = "own" /\ (col.store # StoreOf(u) \/ col.class # ClassOf(u))
    BY <1>3 DEF Misread
  <1>6. CASE loader = "bulk"
    <2>1. PICK t \in TypesIn(c) : col.store = StoreOf(t) /\ col.class = ClassOf(t) /\ SameAccess(col.store, u)
      BY <1>2, <1>3, <1>4, <1>6 DEF Fits, BulkFits
    <2> QED BY <1>4, <1>5, <2>1
  <1>7. CASE Scanning
    <2>1. ScanFits(c, col, row)
      BY <1>4, <1>7 DEF Fits
    <2>2. CASE col.store = "string"
      <3>1. u \in TextTypes /\ col.class = "none"
        BY <1>2, <1>3, <1>5, <2>1, <2>2 DEF ScanFits
      <3>2. StoreOf(u) = "string" /\ ClassOf(u) = "none"
        BY <3>1 DEF StoreOf, ClassOf, TextTypes, RealTypes, IntTypes
      <3> QED BY <1>5, <2>2, <3>1, <3>2
    <2>3. CASE col.store = "real"
      <3>1. AsNumber(u) /\ (u = "DATE" => col.class = "Date")
        BY <1>2, <1>3, <1>5, <2>1, <2>3 DEF ScanFits
      <3>2. StoreOf(u) = "real" /\ u \in {"FLOAT64", "DATE"}
        BY <3>1 DEF StoreOf, RealTypes, AsNumber
      <3>3. u = "FLOAT64" /\ col.class = "Date"
        BY <1>5, <2>1, <2>3, <3>1, <3>2 DEF ScanFits, ClassOf
      <3>4. PICK t \in TypesIn(c) : t \in {"DATE", "DATETIME"}
        BY <2>1, <3>3 DEF ScanFits
      <3>5. t # u /\ SameAccess(StoreOf(t), u)
        BY <3>2, <3>3, <3>4 DEF SameAccess, StoreOf, RealTypes
      <3> QED BY <1>4, <3>4, <3>5
    <2> QED BY <2>1, <2>2, <2>3 DEF ScanFits
  <1> QED BY <1>2, <1>6, <1>7 DEF Scanning

\* Types of the state, whatever the columns and the loader.
THEOREM FramesTyped == Spec => []TypeOK
  <1>1. FramesInv => TypeOK
    BY DEF FramesInv, Shape
  <1> QED BY <1>1, FramesAlways, PTL

\* No loader drops a value of a frame it returns: each is in its own row and
\* column, as such or as text, whatever types it met and in whatever order.
THEOREM ValuesKept == Spec => []ReturnedKeepsEveryValue
  BY FramesAlways, DoneKeeps, PTL

\* bds, beqs and bsrch misread a value only in a column of two types that share
\* R's accessors.
THEOREM MisreadsNeedTwoTypes == Spec => []MisreadNeedsMixedTypes
  BY FramesAlways, DoneMisreads, PTL

\* bds, beqs and bsrch never stop at a column of one type R can hold that has no
\* null, but for times in bds.
THEOREM OneTypeGoesThrough == Spec => []OneTypeIsNeverRefused
  <1>1. FramesInv => OneTypeIsNeverRefused
    BY DEF FramesInv
  <1> QED BY <1>1, FramesAlways, PTL

\* The scans of beqs and bsrch give each column the type of its first element,
\* though they stop before the last row.
THEOREM ScanIsAsGoodAsAll == Spec => []ScanFindsFirst
  <1>1. FramesInv => ScanFindsFirst
    BY DEF FramesInv
  <1> QED BY <1>1, FramesAlways, PTL
=============================================================================
