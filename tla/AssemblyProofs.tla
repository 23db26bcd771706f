--------------------------- MODULE AssemblyProofs ---------------------------
(***************************************************************************)
(* The rows of bdp and the frames of bdh for lists of securities of any    *)
(* length, whatever an older request's answer puts between.                *)
(***************************************************************************)
EXTENDS Assembly, FiniteSetTheorems, TLAPS

\* Rows and frames are answers that came, and a frame has its own name.
OnlyAnswers ==
  /\ \A i \in DOMAIN rows : rows[i] # NA =>
       rows[i].req \in Requests /\ rows[i].at \in DOMAIN request[rows[i].req]
  /\ \A i \in DOMAIN ans :
       /\ ans[i].req \in Requests /\ ans[i].at \in DOMAIN request[ans[i].req]
       /\ i \in DOMAIN names /\ names[i] = SecurityOf(ans[i])

\* What came of the call's own answer has been kept.
KeepsOwn ==
  outcome \in {"reading", "returned"} =>
    \A k \in DOMAIN asked \ due["own"] :
      /\ fn = "bdp" => rows[k] # NA
      /\ fn = "bdh" => \E i \in DOMAIN ans : ans[i] = Datum("own", k)

EndIsAtResponse ==
  /\ outcome = "returned" => lastRead \in Requests
  /\ outcome = "returned" /\ lastRead = "own" => due["own"] = {}

AssemblyInv ==
  /\ TypeOK
  /\ OnlyAnswers
  /\ RowsHoldTheirSecurity
  /\ KeepsOwn
  /\ EndIsAtResponse
  /\ BeyondNeedsALongerRequest

-----------------------------------------------------------------------------
(* Places *)

LEMMA RequestParts ==
  ASSUME TypeOK
  PROVE  /\ \A r \in Requests : /\ request[r] \in Seq(Securities)
                                /\ DOMAIN request[r] = 1 .. Len(request[r])
                                /\ Len(request[r]) \in 0 .. (MaxAsked + MaxOlder)
                                /\ due[r] \subseteq DOMAIN request[r]
         /\ asked \in Seq(Securities) /\ Len(asked) \in Nat \ {0} /\ DOMAIN asked = 1 .. Len(asked)
         /\ "own" \in Requests
  <1>1. ASSUME NEW max \in Nat, NEW l \in Lists(max)
        PROVE  l \in Seq(Securities) /\ DOMAIN l = 1 .. Len(l) /\ Len(l) \in 0 .. max
    <2>1. PICK n \in 0 .. max : l \in [1 .. n -> Securities]
      BY <1>1 DEF Lists
    <2>2. n \in Nat /\ l \in Seq(Securities) /\ Len(l) = n
      BY <2>1
    <2> QED BY <2>1, <2>2
  <1>2. /\ request["older"] \in Lists(MaxOlder) /\ request["own"] \in Lists(MaxAsked) \ {<<>>}
        /\ MaxAsked \in Nat /\ MaxOlder \in Nat
    BY AssemblyAssumption DEF TypeOK
  <1>3. \A r \in Requests : /\ request[r] \in Seq(Securities)
                            /\ DOMAIN request[r] = 1 .. Len(request[r])
                            /\ Len(request[r]) \in 0 .. (MaxAsked + MaxOlder)
    BY <1>1, <1>2 DEF Requests
  <1>4. asked \in Seq(Securities) /\ Len(asked) \in Nat \ {0} /\ DOMAIN asked = 1 .. Len(asked)
    BY <1>2, <1>3 DEF asked, Requests
  <1> QED BY <1>3, <1>4 DEF TypeOK, Requests

LEMMA RowIsPlace == \A k \in Int : Row(k) = k
  BY DEF Row, RowOf, SequenceNumber

LEMMA DatumIs ==
  /\ \A r, k : Datum(r, k).req = r /\ Datum(r, k).at = k
  /\ \A r, k : SecurityOf(Datum(r, k)) = request[r][k]
  /\ \A r, k : r \in Requests => Datum(r, k) # NA
  /\ \A r, k, l : Datum(r, k) = Datum(r, l) => k = l
  <1>1. \A r, k : Datum(r, k).req = r /\ Datum(r, k).at = k
    BY DEF Datum
  <1>2. NA.req \notin Requests
    BY DEF NA, Requests
  <1> QED BY <1>1, <1>2 DEF SecurityOf

\* Items that each have a place of their own, and no more places than items,
\* leave no place to anything else.
LEMMA NoPlaceLeft ==
  ASSUME NEW n \in Nat, NEW m \in Nat, m <= n, NEW f \in Injection(1 .. n, 1 .. m)
  PROVE  \A i \in 1 .. m : \E k \in 1 .. n : f[k] = i
  <1>1. IsFiniteSet(1 .. m) /\ Cardinality(1 .. m) = m /\ Cardinality(1 .. n) = n
    BY FS_Interval
  <1>2. f \in Surjection(1 .. n, 1 .. m)
    BY <1>1, FS_Injection
  <1> QED BY <1>2 DEF Surjection

-----------------------------------------------------------------------------
(* bdp *)

\* A row takes what is of its place in the part, or stays as it was.
LEMMA FilledRows ==
  ASSUME TypeOK, NEW r \in Requests, NEW part \in Parts(r)
  PROVE  /\ part \subseteq due[r] /\ part \subseteq DOMAIN request[r]
         /\ \A k \in part : Row(k) = k
         /\ DOMAIN FillRows(r, part) = DOMAIN rows
         /\ \A i \in DOMAIN rows :
              FillRows(r, part)[i] = IF i \in part THEN Datum(r, i) ELSE rows[i]
  <1>1. part \subseteq due[r] /\ part \subseteq DOMAIN request[r] /\ part \subseteq Int
    BY RequestParts DEF Parts
  <1>2. \A k \in part : Row(k) = k
    BY <1>1, RowIsPlace
  <1>3. \A i \in part : (CHOOSE k \in part : Row(k) = i) = i
    BY <1>2
  <1>4. \A i : (\E k \in part : Row(k) = i) <=> i \in part
    BY <1>2
  <1> QED BY <1>1, <1>2, <1>3, <1>4 DEF FillRows

LEMMA BdpKeeps ==
  ASSUME AssemblyInv, NEW r \in Requests, NEW part \in Parts(r), GetBDPResult(r, part)
  PROVE  AssemblyInv'
  <1>1. TypeOK /\ OnlyAnswers /\ RowsHoldTheirSecurity /\ KeepsOwn
    BY DEF AssemblyInv
  <1>2. /\ fn = "bdp" /\ outcome = "reading" /\ due' = [due EXCEPT ![r] = @ \ part] /\ lastRead' = r
        /\ UNCHANGED <<fn, simplify, request, ans, names>> /\ asked' = asked
    BY DEF GetBDPResult, Read, asked
  <1>3. /\ part \subseteq due[r] /\ part \subseteq DOMAIN request[r]
        /\ \A k \in part : Row(k) = k
    BY <1>1, FilledRows
  <1>4. /\ DOMAIN due' = Requests /\ due'[r] = due[r] \ part
        /\ \A q \in Requests \ {r} : due'[q] = due[q]
        /\ DOMAIN rows = DOMAIN asked
    BY <1>1, <1>2 DEF TypeOK
  <1>5. CASE ReadBeyond(r, part)
    <2>1. rows' = rows /\ outcome' \in {"stopped", "wild"}
      BY <1>5 DEF ReadBeyond
    <2>2. TypeOK'
      BY <1>1, <1>2, <1>4, <2>1 DEF TypeOK, asked
    <2>3. PICK k \in part : k \notin DOMAIN asked
      BY <1>3, <1>5 DEF ReadBeyond, Outside
    <2>4. r = "older" /\ Len(request["older"]) > Len(asked)
      <3>1. k \in DOMAIN request[r]
        BY <1>3
      <3>2. r = "older"
        BY <2>3, <3>1 DEF asked, Requests
      <3> QED BY <1>1, <2>3, <3>1, <3>2, RequestParts DEF Requests
    <2>5. BeyondNeedsALongerRequest'
      BY <1>2, <2>4 DEF BeyondNeedsALongerRequest
    <2>6. OnlyAnswers' /\ RowsHoldTheirSecurity'
      BY <1>1, <1>2, <2>1 DEF OnlyAnswers, RowsHoldTheirSecurity, SecurityOf, asked
    <2> QED BY <2>1, <2>2, <2>5, <2>6 DEF AssemblyInv, KeepsOwn, EndIsAtResponse
  <1>6. CASE StopAtMismatch(r, part)
    <2>1. rows' = rows /\ outcome' = "stopped"
      BY <1>6 DEF StopAtMismatch
    <2>2. TypeOK'
      BY <1>1, <1>2, <1>4, <2>1 DEF TypeOK, asked
    <2>3. OnlyAnswers' /\ RowsHoldTheirSecurity'
      BY <1>1, <1>2, <2>1 DEF OnlyAnswers, RowsHoldTheirSecurity, SecurityOf, asked
    <2> QED BY <2>1, <2>2, <2>3 DEF AssemblyInv, KeepsOwn, EndIsAtResponse, BeyondNeedsALongerRequest
  <1>7. CASE ReadRows(r, part)
    <2>1. /\ rows' = FillRows(r, part) /\ outcome' = After(r, part)
          /\ \A k \in part : k \in DOMAIN asked /\ request[r][k] = asked[k]
      BY <1>3, <1>7 DEF ReadRows, Outside, Mismatch
    <2>2. /\ DOMAIN rows' = DOMAIN rows
          /\ \A i \in DOMAIN rows : rows'[i] = IF i \in part THEN Datum(r, i) ELSE rows[i]
      BY <1>1, <2>1, FilledRows
    <2>3. outcome' \in {"reading", "returned"} /\ (outcome' = "returned" => part = due[r])
      BY <2>1 DEF After
    <2>4. TypeOK'
      <3>1. \A k \in part : Datum(r, k) \in [req : Requests \cup {"none"}, at : 0 .. (MaxAsked + MaxOlder)]
        <4>1. \A k \in part : k \in 1 .. Len(request[r]) /\ Len(request[r]) \in 0 .. (MaxAsked + MaxOlder)
          BY <1>1, <1>3, RequestParts
        <4>2. \A k \in part : k \in 0 .. (MaxAsked + MaxOlder)
          BY <4>1, AssemblyAssumption
        <4> QED BY <4>2 DEF Datum
      <3>2. rows' \in [DOMAIN asked -> [req : Requests \cup {"none"}, at : 0 .. (MaxAsked + MaxOlder)]]
        BY <1>1, <1>4, <2>1, <2>2, <3>1 DEF TypeOK, FillRows
      <3> QED BY <1>1, <1>2, <1>4, <2>3, <3>2 DEF TypeOK, asked
    <2>5. OnlyAnswers'
      BY <1>1, <1>2, <1>3, <2>2, DatumIs DEF OnlyAnswers, SecurityOf
    <2>6. RowsHoldTheirSecurity'
      <3> SUFFICES ASSUME NEW i \in DOMAIN rows, rows'[i] # NA
                   PROVE  request[rows'[i].req][rows'[i].at] = asked[i]
        BY <1>2, <2>2 DEF RowsHoldTheirSecurity, SecurityOf
      <3>1. CASE i \in part
        BY <2>1, <2>2, <3>1, DatumIs
      <3>2. CASE i \notin part
        BY <1>1, <2>2, <3>2 DEF RowsHoldTheirSecurity, SecurityOf
      <3> QED BY <3>1, <3>2
    <2>7. KeepsOwn'
      <3> SUFFICES ASSUME NEW k \in DOMAIN asked, k \notin due'["own"]
                   PROVE  rows'[k] # NA
        BY <1>2 DEF KeepsOwn
      <3>1. CASE k \in part
        BY <1>4, <2>2, <3>1, DatumIs
      <3>2. CASE k \notin part
        <4>1. k \notin due["own"]
          BY <1>4, <3>2 DEF Requests
        <4> QED BY <1>1, <1>2, <1>4, <2>2, <3>2, <4>1 DEF KeepsOwn
      <3> QED BY <3>1, <3>2
    <2>8. EndIsAtResponse' /\ BeyondNeedsALongerRequest'
      BY <1>2, <1>4, <2>3 DEF EndIsAtResponse, BeyondNeedsALongerRequest
    <2> QED BY <2>4, <2>5, <2>6, <2>7, <2>8 DEF AssemblyInv
  <1> QED BY <1>5, <1>6, <1>7 DEF GetBDPResult

-----------------------------------------------------------------------------
(* bdh *)

LEMMA Append1 ==
  ASSUME NEW S, NEW s \in Seq(S), NEW x \in S
  PROVE  /\ Append(s, x) \in Seq(S) /\ Len(Append(s, x)) = Len(s) + 1
         /\ DOMAIN s = 1 .. Len(s) /\ DOMAIN Append(s, x) = 1 .. Len(s) + 1
         /\ \A i \in 1 .. Len(s) : Append(s, x)[i] = s[i]
         /\ Append(s, x)[Len(s) + 1] = x
  OBVIOUS

LEMMA BdhKeeps ==
  ASSUME AssemblyInv, NEW r \in Requests, NEW k \in due[r], HistoricalDataResponse(r, k)
  PROVE  AssemblyInv'
  <1>1. TypeOK /\ OnlyAnswers /\ RowsHoldTheirSecurity /\ KeepsOwn
    BY DEF AssemblyInv
  <1>2. /\ fn = "bdh" /\ outcome = "reading" /\ due' = [due EXCEPT ![r] = @ \ {k}] /\ lastRead' = r
        /\ UNCHANGED <<fn, simplify, request, rows>> /\ asked' = asked
        /\ names' = Append(names, request[r][k])
    BY DEF HistoricalDataResponse, Read, asked, NameFor
  <1>3. /\ DOMAIN due' = Requests /\ due'[r] = due[r] \ {k}
        /\ \A q \in Requests \ {r} : due'[q] = due[q]
    BY <1>1, <1>2 DEF TypeOK
  <1>4. /\ k \in DOMAIN request[r] /\ request[r][k] \in Securities
        /\ k \in 1 .. (MaxAsked + MaxOlder)
    <2>1. k \in 1 .. Len(request[r]) /\ Len(request[r]) \in 0 .. (MaxAsked + MaxOlder)
      BY <1>1, RequestParts
    <2> QED BY <1>1, <2>1, RequestParts, AssemblyAssumption
  <1> DEFINE Frame == [req : Requests, at : 1 .. (MaxAsked + MaxOlder)]
             n == Len(names)
  <1>5. /\ names \in Seq(Securities) /\ ans \in Seq(Frame) /\ Len(ans) = n /\ n \in Nat
        /\ n <= Len(asked) /\ Len(asked) \in Nat
    BY <1>1, <1>2, RequestParts DEF TypeOK
  <1>6. /\ names' \in Seq(Securities) /\ Len(names') = n + 1 /\ DOMAIN names = 1 .. n
        /\ DOMAIN names' = 1 .. n + 1 /\ names'[n + 1] = request[r][k]
        /\ \A i \in 1 .. n : names'[i] = names[i]
    BY <1>2, <1>4, <1>5, Append1
  <1>7. RowsHoldTheirSecurity'
    BY <1>1, <1>2 DEF RowsHoldTheirSecurity, SecurityOf, asked
  <1> HIDE DEF n
  <1>8. CASE KeepFrame(r, k)
    <2> DEFINE d == Datum(r, k)
    <2>1. /\ n < Len(asked) /\ ans' = Append(ans, d)
          /\ outcome' \in {"reading", "returned"} /\ (outcome' = "returned" => due[r] = {k})
      BY <1>5, <1>8 DEF KeepFrame, HasRoom, After
    <2>2. d \in Frame
      BY <1>4 DEF Datum
    <2> HIDE DEF d, Frame
    <2>3. /\ ans' \in Seq(Frame) /\ Len(ans') = n + 1 /\ DOMAIN ans = 1 .. n
          /\ DOMAIN ans' = 1 .. n + 1 /\ ans'[n + 1] = d
          /\ \A i \in 1 .. n : ans'[i] = ans[i]
      BY <1>5, <2>1, <2>2, Append1
    <2>4. TypeOK'
      BY <1>1, <1>2, <1>3, <1>5, <1>6, <2>1, <2>3 DEF TypeOK, asked, Frame
    <2>5. OnlyAnswers'
      <3>1. ASSUME NEW i \in DOMAIN ans'
            PROVE  /\ ans'[i].req \in Requests /\ ans'[i].at \in DOMAIN request[ans'[i].req]
                   /\ i \in DOMAIN names' /\ names'[i] = request[ans'[i].req][ans'[i].at]
        <4>1. CASE i \in 1 .. n
          BY <1>1, <1>6, <2>3, <4>1 DEF OnlyAnswers, SecurityOf
        <4>2. CASE i = n + 1
          BY <1>4, <1>5, <1>6, <2>3, <4>2, DatumIs DEF d
        <4> QED BY <1>5, <2>3, <4>1, <4>2
      <3> QED BY <1>1, <1>2, <3>1 DEF OnlyAnswers, SecurityOf
    <2>6. KeepsOwn'
      <3> SUFFICES ASSUME NEW l \in DOMAIN asked, l \notin due'["own"]
                   PROVE  \E i \in DOMAIN ans' : ans'[i] = Datum("own", l)
        BY <1>2 DEF KeepsOwn
      <3>1. CASE r = "own" /\ l = k
        <4>1. n + 1 \in DOMAIN ans'
          BY <1>5, <2>3
        <4> QED BY <2>3, <3>1, <4>1 DEF d
      <3>2. CASE ~(r = "own" /\ l = k)
        <4>1. l \notin due["own"]
          BY <1>3, <3>2 DEF Requests
        <4>2. PICK i \in DOMAIN ans : ans[i] = Datum("own", l)
          BY <1>1, <1>2, <4>1 DEF KeepsOwn
        <4> QED BY <1>5, <2>3, <4>2
      <3> QED BY <3>1, <3>2
    <2>7. EndIsAtResponse' /\ BeyondNeedsALongerRequest'
      BY <1>2, <1>3, <2>1 DEF EndIsAtResponse, BeyondNeedsALongerRequest
    <2> QED BY <1>7, <2>4, <2>5, <2>6, <2>7 DEF AssemblyInv
  <1>9. CASE OutOfRoom(r, k)
    <2>1. ans' = ans /\ outcome' = "stopped"
      BY <1>9 DEF OutOfRoom
    <2>2. TypeOK'
      BY <1>1, <1>2, <1>3, <1>5, <1>6, <2>1 DEF TypeOK, asked
    <2>3. \A i \in DOMAIN ans : i \in DOMAIN names' /\ names'[i] = names[i]
      BY <1>5, <1>6
    <2>4. OnlyAnswers'
      BY <1>1, <1>2, <2>1, <2>3 DEF OnlyAnswers, SecurityOf
    <2> QED BY <1>7, <2>1, <2>2, <2>4 DEF AssemblyInv, KeepsOwn, EndIsAtResponse, BeyondNeedsALongerRequest
  <1> QED BY <1>8, <1>9 DEF HistoricalDataResponse

-----------------------------------------------------------------------------
(* The invariant is inductive *)

LEMMA AssemblyInit == Init => AssemblyInv
  <1> SUFFICES ASSUME Init PROVE AssemblyInv
    OBVIOUS
  <1>1. /\ ans = <<>> /\ names = <<>> /\ rows = [k \in DOMAIN asked |-> NA]
        /\ outcome = "reading" /\ lastRead = "none" /\ due["own"] = DOMAIN asked
    BY DEF Init, asked
  <1>2. TypeOK
    <2>1. NA \in [req : Requests \cup {"none"}, at : 0 .. (MaxAsked + MaxOlder)]
      BY AssemblyAssumption DEF NA
    <2>2. /\ rows \in [DOMAIN asked -> [req : Requests \cup {"none"}, at : 0 .. (MaxAsked + MaxOlder)]]
      BY <1>1, <2>1
    <2>3. DOMAIN due = Requests /\ \A r \in Requests : due[r] \subseteq DOMAIN request[r]
      BY DEF Init, Requests
    <2>4. \A S : <<>> \in Seq(S) /\ Len(<<>>) = 0
      OBVIOUS
    <2>5. 0 <= Len(asked)
      <3>1. request["own"] \in Lists(MaxAsked)
        BY DEF Init
      <3>2. PICK n \in 0 .. MaxAsked : asked \in [1 .. n -> Securities]
        BY <3>1 DEF Lists, asked
      <3>3. asked \in Seq(Securities)
        BY <3>2
      <3> QED BY <3>3
    <2> QED BY <1>1, <2>2, <2>3, <2>4, <2>5 DEF Init, TypeOK
  <1>3. OnlyAnswers /\ RowsHoldTheirSecurity
    BY <1>1 DEF OnlyAnswers, RowsHoldTheirSecurity
  <1> QED BY <1>1, <1>2, <1>3 DEF AssemblyInv, KeepsOwn, EndIsAtResponse, BeyondNeedsALongerRequest

LEMMA AssemblyNext ==
  ASSUME AssemblyInv, [Next]_vars
  PROVE  AssemblyInv'
  <1>1. CASE StopAtEvent \/ UNCHANGED vars
    <2>1. UNCHANGED <<fn, simplify, request, due, rows, ans, names, lastRead>>
      BY <1>1 DEF StopAtEvent, vars
    <2>2. outcome' = outcome \/ outcome' = "stopped"
      BY <1>1 DEF StopAtEvent, vars
    <2>3. TypeOK'
      BY <2>1, <2>2 DEF AssemblyInv, TypeOK, asked
    <2> QED BY <2>1, <2>2, <2>3 DEF AssemblyInv, OnlyAnswers, RowsHoldTheirSecurity, SecurityOf, asked,
              KeepsOwn, EndIsAtResponse, BeyondNeedsALongerRequest
  <1> QED BY <1>1, BdpKeeps, BdhKeeps DEF Next

LEMMA AssemblyAlways == Spec => []AssemblyInv
  BY AssemblyInit, AssemblyNext, PTL DEF Spec

\* Every reachable state is well typed, with no more frames than securities.
THEOREM AssemblyTyped == Spec => []TypeOK
  <1>1. AssemblyInv => TypeOK
    BY DEF AssemblyInv
  <1> QED BY <1>1, AssemblyAlways, PTL

\* A row of bdp never holds data of another security, for lists of any length
\* and any older request whose answer comes between.
THEOREM RowsAreRight == Spec => []RowsHoldTheirSecurity
  <1>1. AssemblyInv => RowsHoldTheirSecurity
    BY DEF AssemblyInv
  <1> QED BY <1>1, AssemblyAlways, PTL

\* bdp reads outside its list only for an older and longer request.
THEOREM OwnStaysInside == Spec => []BeyondNeedsALongerRequest
  <1>1. AssemblyInv => BeyondNeedsALongerRequest
    BY DEF AssemblyInv
  <1> QED BY <1>1, AssemblyAlways, PTL

\* Own frames, of which there are as many as places, leave no place to another.
LEMMA Complete ==
  ASSUME AssemblyInv
  PROVE  OwnEndIsComplete
  <1> SUFFICES ASSUME outcome = "returned", lastRead = "own"
               PROVE  /\ fn = "bdp" => \A i \in DOMAIN rows : rows[i] # NA
                      /\ fn = "bdh" => {ans[i] : i \in DOMAIN ans} = {Datum("own", k) : k \in DOMAIN asked}
    BY DEF OwnEndIsComplete
  <1>1. TypeOK /\ KeepsOwn /\ due["own"] = {}
    BY DEF AssemblyInv, EndIsAtResponse
  <1>2. fn = "bdp" => \A i \in DOMAIN rows : rows[i] # NA
    BY <1>1 DEF KeepsOwn, TypeOK
  <1>3. ASSUME fn = "bdh"
        PROVE  {ans[i] : i \in DOMAIN ans} = {Datum("own", k) : k \in DOMAIN asked}
    <2>1. \A k \in DOMAIN asked : \E i \in DOMAIN ans : ans[i] = Datum("own", k)
      BY <1>1, <1>3 DEF KeepsOwn
    <2>2. PICK n \in Nat : n = Len(asked) /\ DOMAIN asked = 1 .. n
      BY <1>1, RequestParts
    <2>3. PICK m \in Nat : m = Len(ans) /\ DOMAIN ans = 1 .. m /\ m <= n
      BY <1>1, <2>2 DEF TypeOK
    <2> DEFINE f == [k \in 1 .. n |-> CHOOSE i \in 1 .. m : ans[i] = Datum("own", k)]
    <2>4. \A k \in 1 .. n : f[k] \in 1 .. m /\ ans[f[k]] = Datum("own", k)
      BY <2>1, <2>2, <2>3
    <2>5. f \in [1 .. n -> 1 .. m]
      BY <2>4
    <2>6. \A k, l \in 1 .. n : f[k] = f[l] => k = l
      BY <2>4, DatumIs
    <2>7. \A i \in 1 .. m : \E k \in 1 .. n : f[k] = i
      <3>1. PICK g \in [1 .. n -> 1 .. m] : g = f
        BY <2>5
      <3> HIDE DEF f
      <3>2. \A k, l \in 1 .. n : g[k] = g[l] => k = l
        BY <2>6, <3>1
      <3>3. g \in Injection(1 .. n, 1 .. m)
        BY <3>2 DEF Injection, IsInjective
      <3>4. \A i \in 1 .. m : \E k \in 1 .. n : g[k] = i
        BY <2>3, <3>3, NoPlaceLeft
      <3> QED BY <3>1, <3>4
    <2> HIDE DEF f
    <2>8. \A i \in DOMAIN ans : \E k \in DOMAIN asked : ans[i] = Datum("own", k)
      <3> SUFFICES ASSUME NEW i \in 1 .. m
                   PROVE  \E k \in 1 .. n : ans[i] = Datum("own", k)
        BY <2>2, <2>3
      <3>1. PICK k \in 1 .. n : f[k] = i
        BY <2>7
      <3> QED BY <2>4, <3>1
    <2> QED BY <2>1, <2>8
  <1> QED BY <1>2, <1>3

\* A call that returned at its own RESPONSE has every row, or exactly the frames
\* of its own request: a stranger's frame would have taken the place of one.
THEOREM OwnEndComplete == Spec => []OwnEndIsComplete
  BY Complete, AssemblyAlways, PTL

\* Each frame bdh returns bears the name of its own security.
THEOREM FramesNamed == Spec => []FramesAreNamed
  <1>1. ASSUME AssemblyInv
        PROVE  FramesAreNamed
    <2> SUFFICES ASSUME outcome = "returned", fn = "bdh", NEW i \in DOMAIN ans
                 PROVE  \/ ResultName(i) = SecurityOf(ans[i])
                        \/ Unnamed /\ (SecurityOf(ans[i]) = asked[1] \/ lastRead = "older")
      BY DEF FramesAreNamed
    <2>1. /\ TypeOK /\ names \in Seq(Securities) /\ i \in DOMAIN names
          /\ names[i] = SecurityOf(ans[i]) /\ lastRead \in Requests
      BY <1>1 DEF AssemblyInv, TypeOK, OnlyAnswers, EndIsAtResponse
    <2>2. CASE ~Unnamed
      BY <2>1, <2>2 DEF ResultName
    <2>3. CASE Unnamed /\ lastRead = "own"
      <3>1. ans[i] \in {Datum("own", k) : k \in DOMAIN asked}
        BY <1>1, <2>3, Complete DEF OwnEndIsComplete
      <3>2. PICK k \in DOMAIN asked : ans[i] = Datum("own", k)
        BY <3>1
      <3>3. k = 1
        BY <2>1, <2>3, RequestParts DEF Unnamed
      <3> QED BY <2>3, <3>2, <3>3, DatumIs DEF asked
    <2> QED BY <2>1, <2>2, <2>3 DEF Requests
  <1> QED BY <1>1, AssemblyAlways, PTL
=============================================================================
