------------------------------ MODULE MCValues -------------------------------
(* What becomes a value of R: a column of dates, times or integers, or a message. *)
EXTENDS Values, Messages

\* The ends of boost's calendar (and of its second coming after year 65535),
\* leap years of each kind, R's epoch, negative numbers.
DateStarts == {-3, 13991201, 18991201, 19691201, 19991201, 99991201, 669351201, 675051201}

AroundEpoch == -2500 .. 2500
AroundInteger == -(3 * Half) .. 3 * Half

\* Messages two levels deep.
Array(type, values) == Element(type, <<>>, values, FALSE)
Group(kids) == Element("SEQUENCE", kids, <<>>, FALSE)

Leaves ==
  {Array(t, <<"plain">>) : t \in {"STRING", "BOOL", "INT32", "INT64"}}
    \cup {Array("FLOAT64", <<>>), Array("FLOAT64", <<"plain", "plain">>),
          Element("STRING", <<>>, <<"plain">>, TRUE),
          Array("SEQUENCE", <<"plain", "plain">>)}
    \cup {Array("DATE", <<v>>) : v \in {"date", "both"}}
    \cup {Array("DATETIME", <<"time">>)}
    \cup {Array("DATETIME", <<v, w>>) : v, w \in {"time", "both"}}

Groups == {Group(<<l>>) : l \in Leaves} \cup {Group(<<l, m>>) : l, m \in Leaves}

TwoLevels == Groups \cup {Group(<<l, g>>) : l \in Leaves, g \in Groups}

-----------------------------------------------------------------------------
NoColumn == kind = "none" /\ in = 0 /\ out = Refused /\ steps = 0 /\ prev = Refused
NoMessage == message = Group(<<>>) /\ value = Unparsed

ValueInit ==
  \/ Init /\ NoMessage
  \/ Arrives /\ NoColumn

ValueNext ==
  \/ kind # "none" /\ Next /\ UNCHANGED messageVars
  \/ kind = "none" /\ ParseMessage /\ UNCHANGED vars

ValueSpec == ValueInit /\ [][ValueNext]_<<vars, messageVars>>
=============================================================================
