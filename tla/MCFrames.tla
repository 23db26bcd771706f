------------------------------ MODULE MCFrames ------------------------------
(* Instances of Frames for TLC. *)
EXTENDS Frames
CONSTANTS c1, c2
AnyInfo == (Known \cup {"other"}) \X {"Date", "DateOrTime"}
OneOfEach == {"BOOL", "INT32", "INT64", "FLOAT64", "STRING", "DATE", "DATETIME", "BYTE"}

Anything == [types |-> OneOfEach, nulls |-> BOOLEAN, told |-> AnyInfo]
Number   == [types |-> {"FLOAT64"}, nulls |-> {FALSE}, told |-> {<<"Double", "Double">>}]
Screened == [types |-> {"FLOAT64", "STRING", "DATE"}, nulls |-> {FALSE}, told |-> {}]

AnythingAndNumber == [c \in {c1, c2} |-> IF c = c1 THEN Anything ELSE Number]
AnythingAlone == [c \in {c1} |-> Anything]
TwoScreened == [c \in {c1, c2} |-> Screened]
=============================================================================
