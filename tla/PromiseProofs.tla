---------------------------- MODULE PromiseProofs ----------------------------
(***************************************************************************)
(* While every request is answered, a session that has fallen behind never *)
(* catches up, and the request functions implement CallPromise.            *)
(* A refused request, or a session that ends, may settle what was owed:    *)
(* both are excluded by Answering, as in the run that checks the same.     *)
(***************************************************************************)
EXTENDS RequestCallsProofs, FiniteSetTheorems

Answering == ~MayTerminate /\ FailingClasses = {}

Message(e) == e.type = "SUBSCRIPTION_DATA"

\* A part is followed by its end, now or later.
PartsEnd ==
  \A i \in DOMAIN queue : queue[i].type = "PARTIAL_RESPONSE" =>
    \/ \E p \in pending : p.req.id = queue[i].req.id
    \/ \E j \in DOMAIN queue : j > i /\ Final(queue[j]) /\ queue[j].req.id = queue[i].req.id

\* Only answers are queued, and messages of a subscription if there is one.
Steady ==
  /\ up
  /\ \A i \in DOMAIN queue : queue[i].type \in AnswerTypes \/ Message(queue[i])
  /\ PartsEnd

\* A call that began behind has another's answer before its own.
Behindhand ==
  ~clean => /\ pc = "send" => Owed # {}
            /\ pc = "wait" => \E a, b \in Owed : a # b

SlipInv == AnswerInv /\ Steady /\ Behindhand

-----------------------------------------------------------------------------
(* What is owed *)

LEMMA OwedFinite ==
  ASSUME TypeInv, SessionOrder
  PROVE  IsFiniteSet(Owed) /\ Cardinality(Owed) \in Nat /\ Owed \subseteq 1 .. lastId
  <1>1. lastId \in Nat
    BY DEF TypeInv, TypeOK, SessionTypeOK
  <1>2. Owed \subseteq 1 .. lastId
    BY OwedIff DEF SessionOrder
  <1>3. IsFiniteSet(1 .. lastId)
    BY <1>1, FS_Interval
  <1>4. IsFiniteSet(Owed)
    BY <1>2, <1>3, FS_Subset
  <1> QED BY <1>2, <1>4, FS_CardinalityType

LEMMA OwedFiniteNext ==
  ASSUME TypeInv', SessionOrder'
  PROVE  Cardinality(Owed') \in Nat
  <1>1. lastId' \in Nat
    BY DEF TypeInv, TypeOK, SessionTypeOK
  <1>2. Owed' \subseteq 1 .. lastId'
    BY OwedIffNext DEF SessionOrder
  <1>3. IsFiniteSet(1 .. lastId')
    BY <1>1, FS_Interval
  <1> QED BY <1>2, <1>3, FS_Subset, FS_CardinalityType

LEMMA Appended ==
  ASSUME TypeInv, NEW x \in Event, queue' = Append(queue, x)
  PROVE  \E n \in Nat : /\ DOMAIN queue = 1 .. n /\ DOMAIN queue' = 1 .. n + 1
                        /\ \A i \in 1 .. n : queue'[i] = queue[i]
                        /\ queue'[n + 1] = x
  <1>1. queue \in Seq(Event)
    BY DEF TypeInv, TypeOK, SessionTypeOK
  <1> QED BY <1>1, AppendEvents

LEMMA HeadGone ==
  ASSUME TypeInv, queue # <<>>, queue' = Tail(queue)
  PROVE  \E n \in Nat : /\ DOMAIN queue = 1 .. n + 1 /\ DOMAIN queue' = 1 .. n
                        /\ \A i \in 1 .. n : queue'[i] = queue[i + 1]
                        /\ Head(queue) = queue[1]
  <1>1. queue \in Seq(Event)
    BY DEF TypeInv, TypeOK, SessionTypeOK
  <1>2. Len(queue) - 1 \in Nat /\ (Len(queue) - 1) + 1 = Len(queue)
    BY <1>1, TailEvents
  <1> QED BY <1>1, <1>2, TailEvents

\* The service changes nothing of it while the session lasts,
LEMMA ServiceParts ==
  ASSUME TypeInv, SessionOrder, PartsEnd, Service, up'
  PROVE  /\ Owed' = Owed /\ PartsEnd' /\ up
         /\ \E x \in Event, p \in pending : queue' = Append(queue, x) /\ Sends(p, x)
  <1>1. PICK x \in Event, p \in pending : queue' = Append(queue, x) /\ Sends(p, x)
    BY ServiceSends DEF Ends
  <1>2. /\ x.req = p.req /\ up' = up /\ x.type \in RequestEventTypes
        /\ pending \ {p} \subseteq pending'
        /\ x.type = "PARTIAL_RESPONSE" => \E q \in pending' : q.req = p.req
        /\ x.type # "PARTIAL_RESPONSE" => Final(x)
    BY <1>1 DEF Sends, AnswerTypes, RequestEventTypes, Final
  <1>3. PICK n \in Nat : /\ DOMAIN queue = 1 .. n /\ DOMAIN queue' = 1 .. n + 1
                         /\ \A i \in 1 .. n : queue'[i] = queue[i]
                         /\ queue'[n + 1] = x
    BY <1>1, Appended
  <1>4. Owed' \subseteq Owed
    BY ServiceOwes
  <1>5. Owed \subseteq Owed'
    <2>1. ASSUME NEW q \in pending
          PROVE  q.req.id \in Owed'
      <3>1. q # p => q \in pending'
        BY <1>2
      <3>2. p.req.id \in Owed'
        <4>1. n + 1 \in DOMAIN queue' /\ queue'[n + 1].type \in RequestEventTypes /\ p.req.id = queue'[n + 1].req.id
          BY <1>2, <1>3
        <4> QED BY <4>1, OwedIffNext
      <3> QED BY <3>1, <3>2, OwedIffNext
    <2>2. ASSUME NEW i \in DOMAIN queue, queue[i].type \in RequestEventTypes
          PROVE  queue[i].req.id \in Owed'
      <3>1. i \in DOMAIN queue' /\ queue'[i] = queue[i]
        BY <1>3
      <3> QED BY <2>2, <3>1, OwedIffNext
    <2> QED BY <2>1, <2>2, OwedIff
  <1>6. ASSUME NEW i \in DOMAIN queue', queue'[i].type = "PARTIAL_RESPONSE"
        PROVE  \/ \E q \in pending' : q.req.id = queue'[i].req.id
               \/ \E j \in DOMAIN queue' : j > i /\ Final(queue'[j]) /\ queue'[j].req.id = queue'[i].req.id
    <2>1. CASE i = n + 1
      BY <1>2, <1>3, <1>6, <2>1
    <2>2. CASE i # n + 1
      <3>1. i \in 1 .. n /\ i \in DOMAIN queue /\ queue'[i] = queue[i]
        BY <1>3, <2>2
      <3>2. ASSUME NEW q \in pending, q.req.id = queue[i].req.id
            PROVE  \/ \E r \in pending' : r.req.id = queue'[i].req.id
                   \/ \E j \in DOMAIN queue' : /\ j > i /\ Final(queue'[j])
                                               /\ queue'[j].req.id = queue'[i].req.id
        <4>1. CASE q # p
          BY <1>2, <3>1, <3>2, <4>1
        <4>2. CASE q = p /\ x.type = "PARTIAL_RESPONSE"
          BY <1>2, <3>1, <3>2, <4>2
        <4>3. CASE q = p /\ x.type # "PARTIAL_RESPONSE"
          <5>1. n + 1 \in DOMAIN queue' /\ n + 1 > i
            BY <1>3, <3>1
          <5> QED BY <1>2, <1>3, <3>1, <3>2, <4>3, <5>1
        <4> QED BY <4>1, <4>2, <4>3
      <3>3. ASSUME NEW j \in DOMAIN queue, j > i, Final(queue[j]), queue[j].req.id = queue[i].req.id
            PROVE  \E k \in DOMAIN queue' : k > i /\ Final(queue'[k]) /\ queue'[k].req.id = queue'[i].req.id
        <4>1. j \in DOMAIN queue' /\ queue'[j] = queue[j]
          BY <1>3
        <4> QED BY <3>1, <3>3, <4>1
      <3> QED BY <1>6, <3>1, <3>2, <3>3 DEF PartsEnd
    <2> QED BY <2>1, <2>2
  <1>7. PartsEnd'
    BY <1>6 DEF PartsEnd, Final
  <1> QED BY <1>1, <1>2, <1>4, <1>5, <1>7

LEMMA ServiceSteady ==
  ASSUME Answering, TypeInv, SessionOrder, Steady, Service
  PROVE  Owed' = Owed /\ Steady'
  <1>1. up'
    BY ServiceSends DEF Ends, Sends, Answering, Steady
  <1>2. PICK x \in Event, p \in pending : queue' = Append(queue, x) /\ Sends(p, x)
    BY <1>1, ServiceParts DEF Steady
  <1>3. PICK n \in Nat : /\ DOMAIN queue = 1 .. n /\ DOMAIN queue' = 1 .. n + 1
                         /\ \A i \in 1 .. n : queue'[i] = queue[i]
                         /\ queue'[n + 1] = x
    BY <1>2, Appended
  <1>4. x.type \in AnswerTypes
    BY <1>2 DEF Sends, AnswerTypes, Answering
  <1>5. \A i \in DOMAIN queue' : queue'[i].type \in AnswerTypes \/ Message(queue'[i])
    BY <1>3, <1>4 DEF Steady
  <1> QED BY <1>1, <1>5, ServiceParts DEF Steady, Message

\* a request adds itself,
LEMMA SendSteady ==
  ASSUME TypeInv, SessionOrder, Send
  PROVE  /\ Owed' = Owed \cup {lastId + 1} /\ lastId + 1 \notin Owed
         /\ PartsEnd => PartsEnd'
         /\ Steady => Steady'
  <1>1. PICK r : /\ r.req.id = lastId + 1 /\ pending' = pending \cup {r}
                 /\ UNCHANGED <<queue, up>>
    BY DEF Send, SendRequest
  <1>2. lastId + 1 \notin Owed
    <2>1. lastId \in Nat
      BY DEF TypeInv, TypeOK, SessionTypeOK
    <2> QED BY <2>1, OwedFinite
  <1>3. Owed' = Owed \cup {lastId + 1}
    <2>1. Owed' \subseteq Owed \cup {lastId + 1}
      BY <1>1, OwedIff, OwedIffNext
    <2>2. Owed \cup {lastId + 1} \subseteq Owed'
      BY <1>1, OwedIff, OwedIffNext
    <2> QED BY <2>1, <2>2
  <1>4. PartsEnd => PartsEnd'
    BY <1>1 DEF PartsEnd, Final
  <1>5. Steady => Steady'
    BY <1>1, <1>4 DEF Steady, Message
  <1> QED BY <1>2, <1>3, <1>4, <1>5

\* an event read is gone, whoever reads it,
LEMMA TailParts ==
  ASSUME TypeInv, PartsEnd, queue # <<>>, queue' = Tail(queue), pending' = pending
  PROVE  PartsEnd'
  <1>1. PICK n \in Nat : /\ DOMAIN queue = 1 .. n + 1 /\ DOMAIN queue' = 1 .. n
                         /\ \A i \in 1 .. n : queue'[i] = queue[i + 1]
    BY HeadGone
  <1>2. ASSUME NEW i \in DOMAIN queue', queue'[i].type = "PARTIAL_RESPONSE"
        PROVE  \/ \E p \in pending' : p.req.id = queue'[i].req.id
               \/ \E j \in DOMAIN queue' : j > i /\ Final(queue'[j]) /\ queue'[j].req.id = queue'[i].req.id
    <2>1. i + 1 \in DOMAIN queue /\ queue'[i] = queue[i + 1]
      BY <1>1
    <2>2. ASSUME NEW j \in DOMAIN queue, j > i + 1, Final(queue[j]), queue[j].req.id = queue[i + 1].req.id
          PROVE  \E k \in DOMAIN queue' : k > i /\ Final(queue'[k]) /\ queue'[k].req.id = queue'[i].req.id
      <3>1. j - 1 \in DOMAIN queue' /\ j - 1 > i /\ queue'[j - 1] = queue[j]
        BY <1>1, <2>2
      <3> QED BY <2>1, <2>2, <3>1
    <2> QED BY <1>2, <2>1, <2>2 DEF PartsEnd
  <1> QED BY <1>2 DEF PartsEnd, Final

LEMMA SteadyTail ==
  ASSUME TypeInv, Steady, queue # <<>>, queue' = Tail(queue), UNCHANGED <<pending, up>>
  PROVE  Steady'
  <1>1. PICK n \in Nat : /\ DOMAIN queue = 1 .. n + 1 /\ DOMAIN queue' = 1 .. n
                         /\ \A i \in 1 .. n : queue'[i] = queue[i + 1]
    BY HeadGone
  <1>2. \A i \in DOMAIN queue' : queue'[i].type \in AnswerTypes \/ Message(queue'[i])
    BY <1>1 DEF Steady
  <1> QED BY <1>2, TailParts DEF Steady, Message

\* what was owed besides it still is, and if it ends no request, all is;
LEMMA StillThere ==
  ASSUME TypeInv, queue # <<>>, queue' = Tail(queue), pending' = pending,
         NEW x \in Owed, x # Head(queue).req.id \/ (PartsEnd /\ ~Final(Head(queue)))
  PROVE  x \in Owed'
  <1>1. PICK n \in Nat : /\ DOMAIN queue = 1 .. n + 1 /\ DOMAIN queue' = 1 .. n
                         /\ \A i \in 1 .. n : queue'[i] = queue[i + 1]
                         /\ Head(queue) = queue[1]
    BY HeadGone
  <1>2. ASSUME NEW j \in DOMAIN queue, j # 1, queue[j].type \in RequestEventTypes
        PROVE  queue[j].req.id \in Owed'
    <2>1. j - 1 \in DOMAIN queue' /\ queue'[j - 1] = queue[j]
      BY <1>1, <1>2
    <2> QED BY <1>2, <2>1, OwedIffNext
  <1>3. CASE \E p \in pending : x = p.req.id
    BY <1>3, OwedIffNext
  <1>4. ASSUME NEW i \in DOMAIN queue, queue[i].type \in RequestEventTypes, x = queue[i].req.id
        PROVE  x \in Owed'
    <2>1. CASE i # 1
      BY <1>2, <1>4, <2>1
    <2>2. CASE i = 1
      <3>1. PartsEnd /\ queue[1].type = "PARTIAL_RESPONSE"
        BY <1>1, <1>4, <2>2 DEF Final, RequestEventTypes, AnswerTypes
      <3>2. ASSUME NEW j \in DOMAIN queue, j > 1, Final(queue[j]), queue[j].req.id = x
            PROVE  x \in Owed'
        BY <1>2, <3>2 DEF Final, RequestEventTypes, AnswerTypes
      <3>3. ASSUME NEW p \in pending, p.req.id = x
            PROVE  x \in Owed'
        BY <3>3, OwedIffNext
      <3> QED BY <1>4, <2>2, <3>1, <3>2, <3>3 DEF PartsEnd
    <2> QED BY <2>1, <2>2
  <1> QED BY <1>3, <1>4, OwedIff

\* so that reading takes away the request whose end is read, and no other.
LEMMA ReadSteady ==
  ASSUME TypeInv, SessionOrder, Steady, ReadEvent
  PROVE  LET e == Head(queue) IN
         /\ (e.type \in AnswerTypes /\ e.req.id \in Owed) \/ (Message(e) /\ pc' = "wait")
         /\ Message(e) \/ e.type = "PARTIAL_RESPONSE" => Owed' = Owed
         /\ e.type = "RESPONSE" => Owed' = Owed \ {e.req.id} /\ pc' # "wait"
         /\ Steady'
  <1> DEFINE e == Head(queue)
  <1>1. /\ pc = "wait" /\ queue # <<>> /\ queue' = Tail(queue) /\ UNCHANGED <<pending, up>>
    BY ReadFrame
  <1>2. PICK n \in Nat : DOMAIN queue = 1 .. n + 1 /\ e = queue[1]
    BY <1>1, HeadGone
  <1>3. (e.type \in AnswerTypes /\ e.type \in RequestEventTypes) \/ Message(e)
    BY <1>2 DEF Steady, RequestEventTypes
  <1>4. e.type \in AnswerTypes => e.req.id \in Owed
    BY <1>2, <1>3, OwedIff DEF RequestEventTypes
  <1>5. Owed' \subseteq Owed /\ (Final(e) => e.req.id \notin Owed')
    BY <1>1, ReadOwes DEF ReadEvent, IgnoreEvent, StopOnStatus, EndWithSession, ReadFieldInfo,
                          SwallowError, ReadData, StopOnAnswer
  <1>6. \A x \in Owed : x # e.req.id \/ ~Final(e) => x \in Owed'
    BY <1>1, StillThere DEF Steady
  <1>7. ASSUME e.type = "RESPONSE"
        PROVE  pc' # "wait"
    <2>1. ReadFieldInfo(e) \/ SwallowError(e) \/ ReadData(e) \/ StopOnAnswer(e)
      BY <1>7 DEF ReadEvent, IgnoreEvent, StopOnStatus, EndWithSession
    <2> QED BY <1>7, <2>1 DEF ReadFieldInfo, SwallowError, ReadData, EndsAt, StopOnAnswer, Return
  <1>8. Steady'
    BY <1>1, SteadyTail
  <1>9. Message(e) \/ e.type = "PARTIAL_RESPONSE" => Owed' = Owed
    BY <1>5, <1>6 DEF Final, Message
  <1>10. e.type = "RESPONSE" => Owed' = Owed \ {e.req.id}
    BY <1>5, <1>6 DEF Final
  <1>11. ASSUME Message(e)
         PROVE  pc' = "wait"
    <2>1. IgnoreEvent(e)
      BY <1>11 DEF ReadEvent, StopOnStatus, EndWithSession, StopsOnStatus, EndsWithSession, ReadFieldInfo, SwallowError, ReadData,
                   StopOnAnswer, Message, AnswerTypes
    <2> QED BY <1>1, <2>1 DEF IgnoreEvent
  <1> QED BY <1>3, <1>4, <1>7, <1>8, <1>9, <1>10, <1>11

-----------------------------------------------------------------------------
(* The session stays behind *)

LEMMA SlipParts ==
  ASSUME SlipInv
  PROVE  TypeInv /\ SessionOrder /\ Steady /\ AnswerInv /\ InStep
         /\ pc \in {"idle", "send", "wait"}
  BY DEF SlipInv, AnswerInv, InStepInv, InStep, TypeInv, TypeOK

LEMMA StillOwed ==
  ASSUME NEW a, NEW b, a # b, NEW S, a \in S, b \in S, NEW x
  PROVE  S \ {x} # {}
  OBVIOUS

LEMMA SlipInit == Init => SlipInv
  <1> SUFFICES ASSUME Init PROVE SlipInv
    OBVIOUS
  <1>1. queue = <<>> /\ up = TRUE /\ clean = TRUE
    BY DEF Init, SessionInit
  <1> QED BY <1>1, AnswerInit DEF SlipInv, Steady, PartsEnd, Behindhand

\* A call that reads on a session that is behind leaves it behind.
LEMMA ReadBehind ==
  ASSUME SlipInv, ReadEvent, ~clean
  PROVE  Owed' # {} /\ (pc' = "wait" => \E a, b \in Owed' : a # b)
  <1> DEFINE e == Head(queue)
  <1>1. PICK a \in Owed, b \in Owed : a # b
    BY ReadFrame DEF SlipInv, Behindhand
  <1>2. /\ e.type \in AnswerTypes \/ Message(e)
        /\ Message(e) \/ e.type = "PARTIAL_RESPONSE" => Owed' = Owed
        /\ e.type = "RESPONSE" => Owed' = Owed \ {e.req.id} /\ pc' # "wait"
    BY SlipParts, ReadSteady
  <1>3. CASE Message(e) \/ e.type = "PARTIAL_RESPONSE"
    BY <1>1, <1>2, <1>3
  <1>4. CASE e.type = "RESPONSE"
    <2>1. Owed \ {e.req.id} # {}
      BY <1>1, StillOwed
    <2> QED BY <1>2, <1>4, <2>1
  <1> QED BY <1>2, <1>3, <1>4 DEF AnswerTypes

LEMMA SlipNext ==
  ASSUME Answering, SlipInv, [Next]_vars
  PROVE  SlipInv'
  <1>1. AnswerInv'
    BY AnswerNext DEF SlipInv
  <1>2. ASSUME NEW c \in Calls, StartCall(c)
        PROVE  SlipInv'
    <2>1. UNCHANGED <<queue, pending, up>> /\ clean' = (Owed = {}) /\ pc' = "send"
      BY <1>2 DEF StartCall, sessionVars
    <2>2. Owed' = Owed /\ Steady'
      BY <2>1, SlipParts DEF Owed, Steady, PartsEnd, Final, Message
    <2> QED BY <1>1, <2>1, <2>2 DEF SlipInv, Behindhand
  <1>3. CASE Send
    <2>1. Owed' = Owed \cup {lastId + 1} /\ lastId + 1 \notin Owed /\ Steady'
      BY <1>3, SlipParts, SendSteady
    <2>2. pc = "send" /\ pc' = "wait" /\ clean' = clean
      BY <1>3 DEF Send
    <2>3. Owed # {} => \E a, b \in Owed' : a # b
      BY <2>1
    <2> QED BY <1>1, <2>1, <2>2, <2>3 DEF SlipInv, Behindhand
  <1>4. CASE StopUnsent \/ TimeOut
    <2>1. UNCHANGED <<queue, pending, up>> /\ pc' = "idle"
      BY <1>4 DEF StopUnsent, TimeOut, Return, sessionVars
    <2>2. Steady'
      BY <2>1, SlipParts DEF Steady, PartsEnd, Final, Message
    <2> QED BY <1>1, <2>1, <2>2 DEF SlipInv, Behindhand
  <1>5. CASE ReadEvent
    <2>1. Steady' /\ clean' = clean
      BY <1>5, SlipParts, ReadSteady, ReadFrame
    <2>2. Behindhand'
      BY <1>5, <2>1, ReadBehind DEF Behindhand
    <2> QED BY <1>1, <2>1, <2>2 DEF SlipInv
  <1>6. CASE Service
    <2>1. Owed' = Owed /\ Steady'
      BY <1>6, SlipParts, ServiceSteady
    <2>2. pc' = pc /\ clean' = clean
      BY <1>6 DEF Service, callVars
    <2> QED BY <1>1, <2>1, <2>2 DEF SlipInv, Behindhand
  <1>7. CASE UNCHANGED vars
    <2>1. UNCHANGED <<queue, pending, up, pc, clean>>
      BY <1>7 DEF vars, sessionVars, callVars
    <2>2. Owed' = Owed /\ Steady'
      BY <2>1, SlipParts DEF Owed, Steady, PartsEnd, Final, Message
    <2> QED BY <1>1, <2>1, <2>2 DEF SlipInv, Behindhand
  <1> QED BY <1>2, <1>3, <1>4, <1>5, <1>6, <1>7 DEF Next, CallStep

LEMMA SlipAlways ==
  ASSUME Answering
  PROVE  Spec => []SlipInv
  <1>1. SlipInv /\ [Next]_vars => SlipInv'
    BY SlipNext
  <1> QED BY <1>1, SlipInit, PTL DEF Spec

\* A step may change how much is owed by one, and what the call itself awaits.
LEMMA NeverNearer ==
  ASSUME Answering, SlipInv, [Next]_vars
  PROVE  [Behind' >= Behind]_vars
  <1> DEFINE owed == Cardinality(Owed)
  <1>1. owed \in Nat /\ IsFiniteSet(Owed)
    BY SlipParts, OwedFinite
  <1>2. ASSUME Owed' = Owed, pc = "wait" \/ pc' # "wait"
        PROVE  Behind' >= Behind
    BY <1>1, <1>2 DEF Behind
  <1>3. CASE (\E c \in Calls : StartCall(c)) \/ StopUnsent \/ TimeOut
    <2>1. UNCHANGED <<queue, pending>> /\ pc' # "wait"
      BY <1>3 DEF StartCall, StopUnsent, TimeOut, Return, sessionVars
    <2> QED BY <1>2, <2>1 DEF Owed
  <1>4. CASE Send
    <2>1. Owed' = Owed \cup {lastId + 1} /\ lastId + 1 \notin Owed
      BY <1>4, SlipParts, SendSteady
    <2>2. Cardinality(Owed') = owed + 1
      BY <1>1, <2>1, FS_AddElement
    <2>3. pc = "send" /\ pc' = "wait"
      BY <1>4 DEF Send
    <2> QED BY <1>1, <2>2, <2>3 DEF Behind
  <1>5. CASE ReadEvent
    <2> DEFINE e == Head(queue)
    <2>1. /\ pc = "wait" /\ ((e.type \in AnswerTypes /\ e.req.id \in Owed) \/ (Message(e) /\ pc' = "wait"))
          /\ Message(e) \/ e.type = "PARTIAL_RESPONSE" => Owed' = Owed
          /\ e.type = "RESPONSE" => Owed' = Owed \ {e.req.id} /\ pc' # "wait"
      BY <1>5, SlipParts, ReadSteady, ReadFrame
    <2>2. CASE Message(e) \/ e.type = "PARTIAL_RESPONSE"
      BY <1>2, <2>1, <2>2
    <2>3. CASE e.type = "RESPONSE"
      <3>1. PICK x \in Owed : Owed' = Owed \ {x}
        BY <2>1, <2>3 DEF Message
      <3>2. Cardinality(Owed') = owed - 1
        BY <1>1, <3>1, FS_RemoveElement
      <3> QED BY <1>1, <2>1, <2>3, <3>2 DEF Behind
    <2> QED BY <2>1, <2>2, <2>3 DEF AnswerTypes
  <1>6. CASE Service
    <2>1. Owed' = Owed /\ pc' = pc
      BY <1>6, SlipParts, ServiceSteady DEF Service, callVars
    <2> QED BY <1>2, <2>1
  <1> QED BY <1>3, <1>4, <1>5, <1>6 DEF Next, CallStep

\* While every request is answered no call, however it ends, brings a session
\* that has fallen behind back in step: each reads at most one end for each
\* request it sends.
THEOREM SlipStays ==
  ASSUME Answering
  PROVE  Spec => SlipNeverHeals
  <1>1. SlipInv /\ [Next]_vars => [Behind' >= Behind]_vars
    BY NeverNearer
  <1> QED BY <1>1, SlipAlways, PTL DEF Spec, SlipNeverHeals

-----------------------------------------------------------------------------
(* What puts a session behind *)

\* A step that adds nothing to what is owed leaves the session as far behind as it
\* was at most, unless it ends a wait.
LEMMA NoFurther ==
  ASSUME TypeInv, SessionOrder, Owed' \subseteq Owed, pc' = "wait" \/ pc # "wait"
  PROVE  ~(Behind' > Behind)
  <1>1. IsFiniteSet(Owed) /\ Cardinality(Owed) \in Nat
    BY OwedFinite
  <1>2. Cardinality(Owed') \in Nat /\ Cardinality(Owed') <= Cardinality(Owed)
    BY <1>1, FS_Subset, FS_CardinalityType
  <1> QED BY <1>1, <1>2 DEF Behind

LEMMA ReadIsNext ==
  ASSUME ReadEvent
  PROVE  queue # <<>> /\ NextEvent(Head(queue))
  BY DEF ReadEvent, IgnoreEvent, StopOnStatus, EndWithSession, ReadFieldInfo, SwallowError,
         ReadData, StopOnAnswer

\* A wait that ends at neither the last event of an answer nor the end of the session
\* ends at a PARTIAL_RESPONSE: authenticateWithApp takes any answer for the last, but
\* an Authorization has no parts.
LEMMA EndOfWait ==
  ASSUME TypeInv, SessionOrder, ReadEvent, pc' # "wait", ~Final(Head(queue)),
         Head(queue).type # "SESSION_STATUS"
  PROVE  GivesUp
  <1> DEFINE e == Head(queue)
  <1>1. pc = "wait" /\ last' = e /\ (e.type = "PARTIAL_RESPONSE" => e.req.class \notin SingleAnswer)
    BY ReadFrame, ReadIsNext, ReadOwes
  <1>2. e.type \in AnswerTypes => e.type = "PARTIAL_RESPONSE"
    BY DEF AnswerTypes, Final
  <1>3. CASE ReadData(e)
    <2>1. EndsAt(e) /\ Return("ok") /\ e.type = "PARTIAL_RESPONSE" /\ MayPass(e)
      BY <1>1, <1>2, <1>3 DEF ReadData
    <2>2. call.fn \in ReturnAtFirst \/ call.fn = "authenticateWithApp"
      BY <2>1 DEF EndsAt
    <2>3. call.fn # "authenticateWithApp"
      <3> SUFFICES ASSUME call.fn = "authenticateWithApp" PROVE FALSE
        OBVIOUS
      <3>1. e.req.class = AnswerClass(call.fn)
        BY <2>1 DEF MayPass
      <3>2. e.req.class \in SingleAnswer
        BY <3>1 DEF AnswerClass, SingleAnswer, Authenticate
      <3> QED BY <1>1, <2>1, <3>2
    <2> QED BY <1>1, <2>1, <2>2, <2>3 DEF GivesUp, Return
  <1>4. CASE StopOnAnswer(e)
    BY <1>1, <1>2, <1>4 DEF StopOnAnswer, Return, GivesUp
  <1>5. ~IgnoreEvent(e) /\ ~ReadFieldInfo(e) /\ ~SwallowError(e)
    BY <1>1, <1>2 DEF IgnoreEvent, ReadFieldInfo, SwallowError
  <1>6. ~StopOnStatus(e) /\ ~EndWithSession(e)
    BY DEF StopOnStatus, EndWithSession, Final
  <1> QED BY <1>3, <1>4, <1>5, <1>6 DEF ReadEvent

LEMMA FallsByOne ==
  ASSUME InStepInv, [Next]_vars
  PROVE  [up /\ Behind' > Behind => Behind' = Behind + 1 /\ GivesUp]_vars
  <1> DEFINE owed == Cardinality(Owed)
             e == Head(queue)
  <1>1. TypeInv /\ SessionOrder /\ owed \in Nat /\ IsFiniteSet(Owed)
    BY OwedFinite DEF InStepInv, InStep
  <1>2. CASE (\E c \in Calls : StartCall(c)) \/ StopUnsent
    <2>1. UNCHANGED <<queue, pending>> /\ pc # "wait"
      BY <1>2 DEF StartCall, StopUnsent, sessionVars
    <2> QED BY <1>1, <2>1, NoFurther DEF Owed
  <1>3. CASE TimeOut
    <2>1. UNCHANGED <<queue, pending>> /\ pc = "wait" /\ pc' = "idle" /\ outcome' = "timeout"
      BY <1>3 DEF TimeOut, Return, sessionVars
    <2>2. Owed' = Owed
      BY <2>1 DEF Owed
    <2> QED BY <1>1, <2>1, <2>2 DEF Behind, GivesUp
  <1>4. CASE Send
    <2>1. Owed' = Owed \cup {lastId + 1} /\ lastId + 1 \notin Owed
      BY <1>1, <1>4, SendSteady
    <2>2. Cardinality(Owed') = owed + 1
      BY <1>1, <2>1, FS_AddElement
    <2>3. pc = "send" /\ pc' = "wait"
      BY <1>4 DEF Send
    <2> QED BY <1>1, <2>2, <2>3 DEF Behind
  <1>5. CASE Service
    BY <1>1, <1>5, ServiceOwes, NoFurther DEF Service, callVars
  <1>6. CASE ReadEvent
    <2>1. /\ pc = "wait" /\ Owed' \subseteq Owed
          /\ Final(e) => e.req.id \in Owed \ Owed'
          /\ e.type = "SESSION_STATUS" => ~up
      <3>1. queue # <<>> /\ NextEvent(e) /\ pc = "wait" /\ queue' = Tail(queue)
        BY <1>6, ReadFrame, ReadIsNext
      <3>2. Owed' \subseteq Owed /\ (Final(e) => e.req.id \in Owed \ Owed')
        BY <1>1, <3>1, ReadOwes
      <3>3. 1 \in DOMAIN queue /\ e = queue[1]
        <4>1. PICK n \in Nat : DOMAIN queue = 1 .. n + 1 /\ e = queue[1]
          BY <1>1, <3>1, HeadGone
        <4> QED BY <4>1
      <3> QED BY <1>1, <3>1, <3>2, <3>3 DEF SessionOrder
    <2>2. Cardinality(Owed') \in Nat /\ Cardinality(Owed') <= owed
      BY <1>1, <2>1, FS_Subset, FS_CardinalityType
    <2>3. CASE Final(e)
      <3>1. Owed' \subseteq Owed \ {e.req.id} /\ e.req.id \in Owed
        BY <2>1, <2>3
      <3>2. Cardinality(Owed \ {e.req.id}) = owed - 1 /\ IsFiniteSet(Owed \ {e.req.id})
        BY <1>1, <3>1, FS_RemoveElement
      <3>3. Cardinality(Owed') <= owed - 1
        BY <3>1, <3>2, FS_Subset
      <3> QED BY <1>1, <2>1, <2>2, <3>3 DEF Behind
    <2>4. CASE pc' = "wait"
      BY <1>1, <2>1, <2>4, NoFurther
    <2>5. CASE ~Final(e) /\ pc' # "wait" /\ up
      <3>1. GivesUp
        BY <1>1, <1>6, <2>1, <2>5, EndOfWait
      <3>2. Behind = owed - 1 /\ Behind' = Cardinality(Owed')
        BY <1>1, <2>1, <2>2, <2>5 DEF Behind
      <3> QED BY <1>1, <2>2, <3>1, <3>2
    <2> QED BY <2>3, <2>4, <2>5
  <1> QED BY <1>2, <1>3, <1>4, <1>5, <1>6 DEF Next, CallStep

\* A session falls behind by one answer for each call that gives up on one, and by
\* nothing else, whatever requests are refused, and whoever's answers are read.
THEOREM OnlyGivingUpCosts == Spec => OnlyGivingUpFallsBehind
  <1>1. InStepInv /\ [Next]_vars => [up /\ Behind' > Behind => Behind' = Behind + 1 /\ GivesUp]_vars
    BY FallsByOne
  <1> QED BY <1>1, InStepInit, InStepNext, PTL DEF Spec, OnlyGivingUpFallsBehind

-----------------------------------------------------------------------------
(* No call waits in vain *)

\* Whether the running call sees every end a request may come to.
SeesItsEnd == StopsOnStatus \/ FailingClasses = {}

\* A call that sees every end is owed its last request, and one that looks for the
\* end of the session finds it.
Awaits ==
  /\ up => PartsEnd
  /\ FailingClasses = {} => \A i \in DOMAIN queue : queue[i].type # "REQUEST_STATUS"
  /\ pc = "wait" /\ up /\ SeesItsEnd => mine[Len(mine)] \in Owed
  /\ pc = "wait" /\ ~up /\ EndsWithSession => \E i \in DOMAIN queue : queue[i].type = "SESSION_STATUS"

\* What a waiting call can still read: an event of the queue, or an answer that the
\* service can go on with.
SomethingComes ==
  pc = "wait" /\ (IF up THEN SeesItsEnd ELSE EndsWithSession) =>
    queue # <<>> \/ \E p \in pending : MayGoOn(p) \/ MayEnd(p)

\* A call that goes on waiting has read no end it sees.
LEMMA ReadNoEnd ==
  ASSUME ReadEvent, pc' = "wait"
  PROVE  LET e == Head(queue) IN
         /\ SeesItsEnd' = SeesItsEnd /\ EndsWithSession' = EndsWithSession
         /\ e.type # "RESPONSE"
         /\ StopsOnStatus => e.type # "REQUEST_STATUS"
         /\ EndsWithSession => e.type # "SESSION_STATUS"
  <1> DEFINE e == Head(queue)
  <1>1. call' = call
    BY ReadFrame
  <1>2. CASE IgnoreEvent(e)
    <2>1. todo' = todo /\ e.type # "RESPONSE"
      BY <1>2 DEF IgnoreEvent
    <2> QED BY <1>1, <1>2, <2>1 DEF IgnoreEvent, SeesItsEnd, StopsOnStatus, ReadingTypes, EndsWithSession
  <1>3. CASE ReadFieldInfo(e) \/ SwallowError(e) \/ ReadData(e)
    <2>1. e.type = "PARTIAL_RESPONSE" /\ todo' = todo
      BY <1>3 DEF ReadFieldInfo, SwallowError, ReadData, EndsAt, Return, AnswerTypes
    <2> QED BY <1>1, <2>1 DEF SeesItsEnd, StopsOnStatus, ReadingTypes, EndsWithSession
  <1>4. CASE StopOnStatus(e) \/ EndWithSession(e) \/ StopOnAnswer(e)
    BY <1>4 DEF StopOnStatus, EndWithSession, StopOnAnswer, Return
  <1> QED BY <1>2, <1>3, <1>4 DEF ReadEvent

LEMMA AwaitsSend ==
  ASSUME InStepInv, Awaits, Send
  PROVE  Awaits'
  <1>1. TypeInv /\ SessionOrder /\ lastId \in Nat /\ mine \in Seq(Nat)
    BY DEF InStepInv, InStep, TypeInv, TypeOK, SessionTypeOK
  <1>2. up /\ UNCHANGED <<queue, up>> /\ mine' = Append(mine, lastId + 1)
    BY DEF Send, SendRequest
  <1>3. mine'[Len(mine')] = lastId + 1
    BY <1>1, <1>2
  <1>4. lastId + 1 \in Owed' /\ (PartsEnd => PartsEnd')
    BY <1>1, SendSteady
  <1> QED BY <1>2, <1>3, <1>4 DEF Awaits

LEMMA AwaitsRead ==
  ASSUME InStepInv, Awaits, ReadEvent
  PROVE  Awaits'
  <1> DEFINE e == Head(queue)
  <1>1. /\ pc = "wait" /\ queue # <<>> /\ queue' = Tail(queue) /\ UNCHANGED <<pending, up, mine>>
        /\ TypeInv /\ SessionOrder
    BY ReadFrame DEF InStepInv, InStep
  <1>2. PICK n \in Nat : /\ DOMAIN queue = 1 .. n + 1 /\ DOMAIN queue' = 1 .. n
                         /\ \A i \in 1 .. n : queue'[i] = queue[i + 1]
                         /\ e = queue[1]
    BY <1>1, HeadGone
  <1>3. up => PartsEnd'
    BY <1>1, TailParts DEF Awaits
  <1>4. FailingClasses = {} => \A i \in DOMAIN queue' : queue'[i].type # "REQUEST_STATUS"
    BY <1>2 DEF Awaits
  <1>5. ASSUME pc' = "wait", up, SeesItsEnd
        PROVE  mine[Len(mine)] \in Owed'
    <2>1. 1 \in DOMAIN queue
      BY <1>2
    <2>2. ~Final(e)
      BY <1>2, <1>5, <2>1, ReadNoEnd DEF Final, SeesItsEnd, Awaits
    <2> QED BY <1>1, <1>5, <2>2, StillThere DEF Awaits
  <1>6. ASSUME pc' = "wait", ~up, EndsWithSession
        PROVE  \E i \in DOMAIN queue' : queue'[i].type = "SESSION_STATUS"
    <2>1. PICK i \in DOMAIN queue : queue[i].type = "SESSION_STATUS"
      BY <1>1, <1>6 DEF Awaits
    <2>2. i # 1
      BY <1>2, <1>6, <2>1, ReadNoEnd
    <2>3. i - 1 \in DOMAIN queue' /\ queue'[i - 1] = queue[i]
      BY <1>2, <2>2
    <2> QED BY <2>1, <2>3
  <1>7. pc' = "wait" => SeesItsEnd' = SeesItsEnd /\ EndsWithSession' = EndsWithSession
    BY ReadNoEnd
  <1> QED BY <1>1, <1>3, <1>4, <1>5, <1>6, <1>7 DEF Awaits

LEMMA AwaitsService ==
  ASSUME InStepInv, Awaits, Service
  PROVE  Awaits'
  <1>1. TypeInv /\ SessionOrder /\ UNCHANGED callVars
    BY ServiceSends DEF InStepInv, InStep
  <1>2. PICK x \in Event : /\ queue' = Append(queue, x)
                           /\ Ends(x) \/ \E p \in pending : Sends(p, x)
    BY <1>1, ServiceSends
  <1>3. PICK n \in Nat : /\ DOMAIN queue = 1 .. n /\ DOMAIN queue' = 1 .. n + 1
                         /\ \A i \in 1 .. n : queue'[i] = queue[i]
                         /\ queue'[n + 1] = x
    BY <1>1, <1>2, Appended
  <1>4. /\ pc' = pc /\ mine' = mine
        /\ SeesItsEnd' = SeesItsEnd /\ EndsWithSession' = EndsWithSession
    BY <1>1 DEF callVars, SeesItsEnd, StopsOnStatus, ReadingTypes, EndsWithSession
  <1>5. FailingClasses = {} => x.type # "REQUEST_STATUS"
    BY <1>2 DEF Ends, Sends
  <1>6. FailingClasses = {} => \A i \in DOMAIN queue' : queue'[i].type # "REQUEST_STATUS"
    BY <1>3, <1>5 DEF Awaits
  <1>7. CASE up'
    <2>1. up
      BY <1>2, <1>7 DEF Ends, Sends
    <2>2. Owed' = Owed /\ PartsEnd'
      BY <1>1, <1>7, <2>1, ServiceParts DEF Awaits
    <2> QED BY <1>4, <1>6, <1>7, <2>1, <2>2 DEF Awaits
  <1>8. CASE ~up'
    <2>1. \E i \in DOMAIN queue' : queue'[i].type = "SESSION_STATUS" \/ (~up /\ pc' = "wait" /\ ~EndsWithSession)
                                   \/ pc' # "wait" \/ ~EndsWithSession
      <3>1. CASE Ends(x)
        BY <1>3, <3>1 DEF Ends
      <3>2. CASE ~up
        BY <1>3, <1>4, <3>2 DEF Awaits
      <3> QED BY <1>2, <1>8, <3>1, <3>2 DEF Sends
    <2> QED BY <1>4, <1>6, <1>8, <2>1 DEF Awaits
  <1> QED BY <1>7, <1>8

LEMMA AwaitsNext ==
  ASSUME InStepInv, Awaits, [Next]_vars
  PROVE  Awaits'
  <1>1. ASSUME UNCHANGED <<queue, pending, up>>, pc' # "wait"
        PROVE  Awaits'
    BY <1>1 DEF Awaits, PartsEnd, Final
  <1>2. CASE (\E c \in Calls : StartCall(c)) \/ StopUnsent \/ TimeOut
    BY <1>1, <1>2 DEF StartCall, StopUnsent, TimeOut, Return, sessionVars
  <1>3. CASE UNCHANGED vars
    BY <1>3 DEF Awaits, PartsEnd, Final, Owed, SeesItsEnd, StopsOnStatus, ReadingTypes, EndsWithSession,
                vars, sessionVars, callVars
  <1> QED BY <1>2, <1>3, AwaitsSend, AwaitsRead, AwaitsService DEF Next, CallStep

LEMMA AwaitsInit == Init => Awaits
  BY DEF Init, SessionInit, Awaits, PartsEnd

LEMMA SomethingIsOwed ==
  ASSUME InStepInv, Awaits
  PROVE  SomethingComes
  <1>1. ASSUME NEW p \in pending
        PROVE  MayGoOn(p) \/ MayEnd(p)
    <2>1. p.sent \in Nat /\ p.req.secs \in Seq(Names)
      BY DEF InStepInv, TypeInv, TypeOK, SessionTypeOK, Request
    <2>2. Len(p.req.secs) \in Nat
      BY <2>1
    <2> QED BY <2>1, <2>2 DEF MayGoOn, MayEnd
  <1>2. \A i \in DOMAIN queue : queue # <<>>
    OBVIOUS
  <1>3. Owed # {} => queue # <<>> \/ \E p \in pending : TRUE
    BY <1>2, OwedIff
  <1> QED BY <1>1, <1>2, <1>3 DEF Awaits, SomethingComes

\* nextEvent() has no timeout in most loops.  While the session lasts a call that
\* waits has an event in the queue or an answer still to come, behind or not and
\* whoever the answers are meant for, if no request is refused, or the call stops
\* on a refusal (bdh reading its data, authenticateWithApp); and after the session
\* ended, if its loop looks for that.  EveryCallEnds, RefusalEndsBdh and
\* TerminationEndsCollecting rest on this.
THEOREM NoCallStarves == Spec => []SomethingComes
  <1>1. InStepInv /\ Awaits => SomethingComes
    BY SomethingIsOwed
  <1>2. InStepInv /\ Awaits /\ [Next]_vars => Awaits'
    BY AwaitsNext
  <1> QED BY <1>1, <1>2, AwaitsInit, InStepInit, InStepNext, PTL DEF Spec

-----------------------------------------------------------------------------
(* The request functions implement CallPromise *)

Trusted == IF pc = "idle" THEN Owed = {} ELSE clean
Phase == IF pc = "idle" THEN "idle" ELSE "busy"

\* What a call that ended normally may have given.
LEMMA GivenKinds ==
  ASSUME NEW s, NEW id
  PROVE  Given(s, id) \in {"whole", "first", "last", "empty", "other"}
  BY DEF Given

LEMMA ReplyKinds ==
  /\ pc # "idle" \/ outcome = "none" => Reply = "none"
  /\ pc = "idle" /\ outcome \notin {"none", "ok"} => Reply = "error"
  /\ pc = "idle" /\ outcome = "ok" => Reply \in Promise!Replies
  BY GivenKinds DEF Reply, Promise!Replies, Ended

LEMMA ReplyKindsNext ==
  /\ pc' # "idle" \/ outcome' = "none" => Reply' = "none"
  /\ pc' = "idle" /\ outcome' \notin {"none", "ok"} => Reply' = "error"
  /\ pc' = "idle" /\ outcome' = "ok" => Reply' \in Promise!Replies
  BY GivenKinds DEF Reply, Promise!Replies, Ended

\* The kinds of promise a sequence of events may keep.
LEMMA GivenIs ==
  ASSUME NEW s \in Seq(Event), NEW id
  PROVE  /\ s = <<>> => Given(s, id) = "empty"
         /\ s # <<>> /\ Whole(s, id) => Given(s, id) = "whole"
         /\ Len(s) = 1 /\ s[1].part = 1 /\ s[1].type # "RESPONSE" => Given(s, id) = "first"
         /\ Len(s) = 1 /\ s[1].part # 1 /\ s[1].type = "RESPONSE" => Given(s, id) = "last"
         /\ Len(s) = 1 /\ s[1].part = 1 /\ s[1].type = "RESPONSE" /\ s[1].req.id = id =>
              Given(s, id) = "whole"
  <1>1. s = <<>> => Given(s, id) = "empty"
    BY DEF Given, Whole
  <1>2. s # <<>> /\ Whole(s, id) => Given(s, id) = "whole"
    <2>1. Len(s) = 1 /\ Whole(s, id) => s[1].part = 1 /\ s[1].type = "RESPONSE"
      BY DEF Whole, Last
    <2> QED BY <2>1 DEF Given
  <1>3. Len(s) = 1 => s # <<>> /\ DOMAIN s = {1} /\ Last(s) = s[1]
    <2>1. Len(s) = 1 => s # <<>>
      BY EmptySeq
    <2>2. Len(s) = 1 => DOMAIN s = {1}
      <3>1. DOMAIN s = 1 .. Len(s)
        OBVIOUS
      <3> QED BY <3>1
    <2> QED BY <2>1, <2>2 DEF Last
  <1>4. Len(s) = 1 /\ s[1].part = 1 /\ s[1].type # "RESPONSE" => Given(s, id) = "first"
    BY <1>3 DEF Given, Whole
  <1>5. Len(s) = 1 /\ s[1].part # 1 /\ s[1].type = "RESPONSE" => Given(s, id) = "last"
    BY <1>3 DEF Given, Whole
  <1>6. Len(s) = 1 /\ s[1].part = 1 /\ s[1].type = "RESPONSE" /\ s[1].req.id = id => Whole(s, id)
    BY <1>3 DEF Whole
  <1> QED BY <1>1, <1>2, <1>3, <1>4, <1>5, <1>6

\* A trusted call that ends normally gives what its function promises.
LEMMA GivesItsPromise ==
  ASSUME SlipInv, ReadEvent, clean, Ended("ok")'
  PROVE  /\ Reply' \in Promise!Promised(call.fn)
         /\ (Owed' = {}) = (Reply' # "first")
  <1> DEFINE e == Head(queue)
             me == Last(mine)
  <1>1. /\ pc = "wait" /\ last' = e /\ UNCHANGED <<up, call, mine, clean>>
        /\ pc' = "idle" /\ outcome' = "ok" /\ up
    BY SlipParts, ReadFrame DEF Ended, Steady
  <1>2. /\ CleanCallReturnsItsOwnAnswer' /\ InStep' /\ AnswerInv /\ got' \in Seq(Event)
        /\ got \in Seq(Event)
    <2>1. [Next]_vars
      BY DEF Next, CallStep
    <2>2. AnswerInv' /\ TypeInv'
      BY <2>1, SlipParts, AnswerNext DEF AnswerInv, InStepInv
    <2> QED BY <2>2, SlipParts DEF AnswerInv, InStepInv, TypeInv, TypeOK
  <1>3. Owed' = {} \/ (call.fn \in ReturnAtFirst /\ e.type = "PARTIAL_RESPONSE")
    BY <1>1, <1>2 DEF InStep, SuccessLeavesNothingOwed, Ended
  <1>4. ReadFieldInfo(e) \/ SwallowError(e) \/ ReadData(e)
    <2>1. e.type \in AnswerTypes \/ (Message(e) /\ pc' = "wait")
      BY SlipParts, ReadSteady
    <2> QED BY <1>1, <2>1 DEF ReadEvent, IgnoreEvent, StopOnStatus, EndWithSession, StopOnAnswer,
                              Return, AnswerTypes
  <1>5. /\ Len(types') = IF call.fn \in TypedFns \cup {"fieldInfo"} THEN Len(call.flds) ELSE 0
        /\ \A i \in DOMAIN types' : types'[i].req.id = mine[i]
    BY <1>1, <1>2 DEF CleanCallReturnsItsOwnAnswer, Ended
  <1>6. (\A i \in DOMAIN got' : got'[i].req.id = me) => AllOwn'
    BY <1>1, <1>5 DEF AllOwn
  <1>7. AllOwn' /\ call.fn # "fieldInfo" => Reply' = Given(got', me)
    BY <1>1 DEF Reply, Ended
  <1>8. AllOwn' /\ call.fn = "fieldInfo" => Reply' = "whole"
    BY <1>1 DEF Reply, Ended
  <1>9. /\ "whole" \in Promise!Promised(call.fn)
        /\ call.fn \in ReturnAtFirst => "first" \in Promise!Promised(call.fn)
        /\ call.fn \in KeepLast => "last" \in Promise!Promised(call.fn)
        /\ call.fn \in Collect => "empty" \in Promise!Promised(call.fn)
    BY DEF Promise!Promised
  <1>10. CASE ReadFieldInfo(e)
    <2>1. call.fn = "fieldInfo" /\ ReadingTypes /\ got' = got
      BY <1>1, <1>10 DEF ReadFieldInfo, ReadingTypes
    <2>2. got = <<>>
      BY <1>1, <2>1, SlipParts DEF AnswerInv, Progress
    <2>3. Reply' = "whole" /\ call.fn \notin ReturnAtFirst
      BY <1>6, <1>8, <2>1, <2>2 DEF ReturnAtFirst
    <2> QED BY <1>3, <1>9, <2>3
  <1>11. CASE SwallowError(e)
    <2>1. call.fn \in Collect /\ call.fn # "fieldInfo" /\ call.fn \notin ReturnAtFirst \cup KeepLast
      BY <1>11 DEF SwallowError, Swallows, Collect, ReturnAtFirst, KeepLast
    <2>2. got' = got /\ GotOwn
      BY <1>1, <1>2, <1>11, CleanWait DEF SwallowError
    <2>3. Whole(got', me) \/ got' = <<>>
      BY <1>1, <1>2, <2>1 DEF CleanCallReturnsItsOwnAnswer, Ended
    <2>4. AllOwn'
      BY <1>6, <2>2 DEF GotOwn
    <2>5. Reply' \in {"whole", "empty"}
      BY <1>2, <1>7, <2>1, <2>3, <2>4, GivenIs
    <2> QED BY <1>3, <1>9, <2>1, <2>5
  <1>12. CASE ReadData(e)
    <2>1. /\ call.fn # "fieldInfo" /\ e.type \in AnswerTypes /\ AllOwn'
          /\ Last(got') = e /\ got' # <<>> /\ \A i \in DOMAIN got' : got'[i].req.id = me
          /\ call.fn \in KeepLast \cup ReturnAtFirst \cup Authenticate => got' = <<e>>
          /\ call.fn \notin KeepLast => Len(got') = e.part
      <3>1. call.fn # "fieldInfo" /\ e.type \in AnswerTypes
        BY <1>12 DEF ReadData, ReadingTypes
      <3> QED BY <1>2, <1>6, <1>12, <3>1, KeepOwn
    <2>2. Reply' = Given(got', me)
      BY <1>7, <2>1
    <2>3. CASE call.fn \in ReturnAtFirst
      <3>1. Len(got') = 1 /\ got'[1] = e /\ e.part = 1 /\ e.req.id = me
        <4>1. got' = <<e>> /\ Len(got') = e.part /\ call.fn \notin KeepLast
          BY <2>1, <2>3 DEF ReturnAtFirst, KeepLast
        <4>2. got'[1].req.id = me
          <5>1. 1 \in DOMAIN got'
            BY <1>2, <2>1
          <5> QED BY <2>1, <5>1
        <4> QED BY <4>1, <4>2
      <3>2. CASE e.type = "RESPONSE"
        <4>1. Reply' = "whole"
          BY <1>2, <2>2, <3>1, <3>2, GivenIs
        <4> QED BY <1>3, <1>9, <3>2, <4>1
      <3>3. CASE e.type = "PARTIAL_RESPONSE"
        <4>1. Reply' = "first"
          BY <1>2, <2>2, <3>1, <3>3, GivenIs
        <4>2. Owed' # {}
          BY <3>3, SlipParts, ReadSteady DEF Message
        <4> QED BY <1>9, <2>3, <4>1, <4>2
      <3> QED BY <2>1, <3>2, <3>3 DEF AnswerTypes
    <2>4. CASE call.fn \in KeepLast
      <3>1. Len(got') = 1 /\ got'[1].req.id = me /\ got'[1].type = "RESPONSE"
            /\ call.fn \notin ReturnAtFirst
        <4>1. call.fn \notin ReturnAtFirst \cup Collect
          BY <2>4 DEF ReturnAtFirst, KeepLast, Collect
        <4> QED BY <1>1, <1>2, <2>1, <2>4, <4>1 DEF CleanCallReturnsItsOwnAnswer, Ended
      <3>2. Reply' \in {"whole", "last"}
        BY <1>2, <2>2, <3>1, GivenIs
      <3> QED BY <1>3, <1>9, <2>4, <3>1, <3>2
    <2>5. CASE call.fn \notin ReturnAtFirst \cup KeepLast
      <3>1. Whole(got', me)
        BY <1>1, <1>2, <2>1, <2>5 DEF CleanCallReturnsItsOwnAnswer, Ended
      <3>2. Reply' = "whole"
        BY <1>2, <2>1, <2>2, <3>1, GivenIs
      <3> QED BY <1>3, <1>9, <2>5, <3>2
    <2> QED BY <2>3, <2>4, <2>5
  <1> QED BY <1>4, <1>10, <1>11, <1>12

LEMMA PromiseInit == Init => Promise!Init
  <1> SUFFICES ASSUME Init PROVE Promise!Init
    OBVIOUS
  <1>1. /\ pc = "idle" /\ outcome = "none" /\ call.fn = "none"
        /\ queue = <<>> /\ pending = {}
    BY DEF Init, SessionInit
  <1>2. Owed = {}
    BY <1>1 DEF Owed
  <1> QED BY <1>1, <1>2, ReplyKinds DEF Promise!Init

\* While nothing of the call changes, nothing of the promise does.
LEMMA PromiseStutters ==
  ASSUME UNCHANGED callVars, Owed' = Owed
  PROVE  UNCHANGED Promise!promiseVars
  <1>1. UNCHANGED <<pc, call, types, got, outcome, mine, clean>>
    BY DEF callVars
  <1>2. Reply' = Reply
    BY <1>1 DEF Reply, AllOwn, Ended
  <1> QED BY <1>1, <1>2 DEF Promise!promiseVars

\* The end of a call is one of the ends of the promise.
LEMMA PromiseRead ==
  ASSUME Answering, SlipInv, ReadEvent
  PROVE  [Promise!Next]_(Promise!promiseVars)
  <1> DEFINE e == Head(queue)
  <1>1. /\ pc = "wait" /\ UNCHANGED <<call, clean>> /\ pc' \in {"idle", "send", "wait"}
        /\ e.type \in AnswerTypes \/ (Message(e) /\ pc' = "wait")
        /\ Reply = "none" /\ clean \in BOOLEAN
    <2>1. [Next]_vars
      BY DEF Next, CallStep
    <2>2. TypeInv /\ TypeInv'
      BY <2>1, SlipParts, TypeNext
    <2> QED BY <2>2, SlipParts, ReadFrame, ReadSteady, ReplyKinds DEF TypeInv, TypeOK
  <1>2. ~clean => Owed' # {}
    BY ReadBehind
  <1>3. CASE pc' # "idle"
    <2>1. Reply' = "none"
      BY <1>3, ReplyKindsNext
    <2> QED BY <1>1, <1>3, <2>1 DEF Promise!promiseVars
  <1>4. CASE pc' = "idle" /\ outcome' = "ok" /\ clean
    <2>1. Reply' \in Promise!Promised(call.fn) /\ (Owed' = {}) = (Reply' # "first")
      BY <1>4, GivesItsPromise DEF Ended
    <2>2. Promise!Succeed
      BY <1>1, <1>4, <2>1 DEF Promise!Succeed, Promise!End
    <2> QED BY <2>2 DEF Promise!Next
  <1>5. CASE pc' = "idle" /\ outcome' = "ok" /\ ~clean
    <2>1. Reply' \in Promise!Replies
      BY <1>5, ReplyKindsNext
    <2>2. Promise!SucceedByLuck
      BY <1>1, <1>2, <1>5, <2>1 DEF Promise!SucceedByLuck, Promise!End
    <2> QED BY <2>2 DEF Promise!Next
  <1>6. CASE pc' = "idle" /\ outcome' # "ok"
    <2>1. outcome' # "none"
      BY <1>1, <1>6 DEF ReadEvent, IgnoreEvent, StopOnStatus, EndWithSession, ReadFieldInfo,
                        SwallowError, ReadData, StopOnAnswer, Return, AnswerTypes
    <2>2. Reply' = "error"
      BY <1>6, <2>1, ReplyKindsNext
    <2>3. Promise!Fail
      BY <1>1, <1>2, <1>6, <2>2 DEF Promise!Fail, Promise!End
    <2> QED BY <2>3 DEF Promise!Next
  <1> QED BY <1>3, <1>4, <1>5, <1>6

LEMMA PromiseStep ==
  ASSUME Answering, SlipInv, [Next]_vars
  PROVE  [Promise!Next]_(Promise!promiseVars)
  <1>1. ASSUME UNCHANGED sessionVars
        PROVE  Owed' = Owed
    BY <1>1 DEF sessionVars, Owed
  <1>2. ASSUME NEW c \in Calls, StartCall(c)
        PROVE  Promise!Begin
    <2>1. /\ pc = "idle" /\ pc' = "send" /\ call' = c /\ clean' = (Owed = {})
      BY <1>2 DEF StartCall
    <2>2. c.fn \in Fns
      BY PlanParts
    <2>3. Reply' = "none"
      BY <2>1, ReplyKindsNext
    <2> QED BY <2>1, <2>2, <2>3 DEF Promise!Begin
  <1>3. CASE Send
    <2>1. /\ pc = "send" /\ pc' = "wait" /\ UNCHANGED <<call, clean>>
      BY <1>3 DEF Send
    <2> QED BY <2>1, ReplyKinds, ReplyKindsNext DEF Promise!promiseVars
  <1>4. CASE StopUnsent \/ TimeOut
    <2>1. /\ pc \in {"send", "wait"} /\ pc' = "idle" /\ outcome' \in {"unsent", "timeout"}
          /\ UNCHANGED sessionVars /\ UNCHANGED <<call, clean>>
      BY <1>4 DEF StopUnsent, TimeOut, Return
    <2>2. ~clean => Owed' # {}
      BY <1>1, <2>1 DEF SlipInv, Behindhand
    <2>3. Reply' = "error" /\ clean \in BOOLEAN
      BY <2>1, SlipParts, ReplyKindsNext DEF TypeInv, TypeOK
    <2>4. Promise!Fail
      BY <2>1, <2>2, <2>3 DEF Promise!Fail, Promise!End
    <2> QED BY <2>4 DEF Promise!Next
  <1>5. CASE Service
    BY <1>5, SlipParts, ServiceSteady, PromiseStutters DEF Service
  <1>6. CASE UNCHANGED vars
    BY <1>1, <1>6, PromiseStutters DEF vars
  <1> QED BY <1>2, <1>3, <1>4, <1>5, <1>6, PromiseRead DEF Next, CallStep, Promise!Next

\* Where every request is answered, the request functions implement the
\* promise their users rely on: a call that begins while nothing is owed gives
\* what its function promises or an error, any other may give anything, and the
\* session is trusted again never of itself.
THEOREM PromiseKept ==
  ASSUME Answering
  PROVE  Spec => KeepsPromise
  <1>1. SlipInv /\ [Next]_vars => [Promise!Next]_(Promise!promiseVars)
    BY PromiseStep
  <1> QED BY <1>1, PromiseInit, SlipAlways, PTL DEF Spec, KeepsPromise, Promise!Spec
=============================================================================
