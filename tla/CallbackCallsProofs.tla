------------------------- MODULE CallbackCallsProofs -------------------------
(***************************************************************************)
(* A subscription on the session, and calls made inside its user's         *)
(* function, leave what the other modules show of the calls as it is; and  *)
(* what the two lose to each other by sharing a queue.                     *)
(***************************************************************************)
EXTENDS CallbackCalls, PromiseProofs

\* What the invariant of the calls needs of the loop: while subscribe() reads,
\* no call runs.
SharedInv ==
  /\ AnswerInv
  /\ ticks \in Nat
  /\ loop = "wait" => pc = "idle"

\* Where every request is answered.
SharedSlipInv == SharedInv /\ Steady /\ Behindhand

\* The messages in line, in the order they were sent: what is behind the first of
\* them is all there, and so is the first itself while subscribe() has run without
\* a call since the one handed over last.
InLine(n) == \E i \in DOMAIN queue : Message(queue[i]) /\ queue[i].part = n
MessagesInOrder ==
  /\ seen \in Nat /\ ticks \in Nat /\ seen <= ticks
  /\ \A i \in DOMAIN queue : Message(queue[i]) =>
       /\ queue[i].part \in seen + 1 .. ticks
       /\ \A n \in queue[i].part .. ticks : InLine(n)
       /\ \A j \in DOMAIN queue : j > i /\ Message(queue[j]) => queue[j].part > queue[i].part
  /\ pc # "idle" => called
  /\ loop # "idle" /\ ~called => \A n \in seen + 1 .. ticks : InLine(n)

LEMMA SharedParts ==
  ASSUME SharedInv
  PROVE  /\ InStepInv /\ TypeInv /\ SessionOrder /\ Honest /\ Progress
         /\ queue \in Seq(Event) /\ lastId \in Nat /\ pc \in {"idle", "send", "wait"}
  BY DEF SharedInv, AnswerInv, InStepInv, InStep, TypeInv, TypeOK, SessionTypeOK

-----------------------------------------------------------------------------
(* The subscription and the calls *)

\* A step that changes the queue only, and leaves it in order, owing no more.
LEMMA QueueOnly ==
  ASSUME InStepInv, queue' \in Seq(Event), UNCHANGED <<pending, lastId, up, callVars>>,
         SessionOrder', Owed' \subseteq Owed
  PROVE  InStepInv'
  <1>1. UNCHANGED <<pc, call, todo, types, got, outcome, mine, clean, last>>
    BY DEF callVars
  <1>2. TypeInv'
    BY <1>1 DEF InStepInv, TypeInv, TypeOK, SessionTypeOK
  <1>3. SuccessLeavesNothingOwed => SuccessLeavesNothingOwed'
    BY <1>1 DEF SuccessLeavesNothingOwed, Ended
  <1>4. CASE pc = "idle"
    BY <1>1, <1>2, <1>3, <1>4 DEF InStepInv, InStep
  <1>5. CASE pc \in {"send", "wait"}
    BY <1>1, <1>2, <1>5 DEF InStepInv, InStep
  <1> QED BY <1>4, <1>5 DEF InStepInv, TypeInv, TypeOK

\* The same for what the call has gathered.
LEMMA QueueOnlyAnswer ==
  ASSUME AnswerInv, InStepInv', Honest', UNCHANGED <<pending, lastId, up, callVars>>,
         clean /\ pc = "wait" => OnlyOwn' /\ InOrder' /\ GotOwn'
  PROVE  AnswerInv'
  <1>1. UNCHANGED <<pc, call, todo, types, got, outcome, mine, clean, last, up>>
    BY DEF callVars
  <1>2. Progress'
    BY <1>1 DEF AnswerInv, Progress, ReadingTypes
  <1>3. CleanInv'
    BY <1>1 DEF AnswerInv, CleanInv, TypesOwn
  <1>4. CleanCallReturnsItsOwnAnswer' /\ CleanCallRejectsOnlyErrors'
    BY <1>1, IdleKeeps DEF AnswerInv
  <1> QED BY <1>2, <1>3, <1>4 DEF AnswerInv

\* A message of the subscription owes nothing to anybody, and is no part of an answer.
LEMMA TickKeeps ==
  ASSUME SharedInv, Tick
  PROVE  AnswerInv' /\ Owed' = Owed /\ (PartsEnd => PartsEnd') /\ (Steady => Steady')
  <1> DEFINE x == SubscriptionData(ticks + 1)
  <1>1. /\ queue \in Seq(Event) /\ SessionOrder /\ UNCHANGED <<pending, lastId, up, callVars>>
        /\ InStepInv /\ TypeInv /\ Honest /\ AnswerInv /\ lastId \in Nat /\ up
    BY SharedParts DEF SharedInv, Tick
  <1>2. /\ x \in Event /\ x.type = "SUBSCRIPTION_DATA" /\ x.req.id = 0 /\ x.body # "error"
    <2>1. NoRequest \in Request /\ NoRequest.id = 0
      BY EmptySeq DEF NoRequest, Request
    <2> QED BY <2>1 DEF SharedInv, SubscriptionData, Event
  <1>3. queue' = Append(queue, x)
    BY DEF Tick
  <1> HIDE DEF x
  <1>4. queue' \in Seq(Event) /\ x.type \notin RequestEventTypes
    BY <1>1, <1>2, <1>3 DEF RequestEventTypes, AnswerTypes
  <1>5. SessionOrder'
    <2>1. queue \in Seq(Event) /\ SessionOrder /\ UNCHANGED <<pending, lastId, up>> /\ lastId \in Nat /\ up
      BY <1>1
    <2>2. \A i \in DOMAIN queue : Final(queue[i]) => queue[i].req.id \in 1 .. lastId
      BY <2>1 DEF SessionOrder, Final, RequestEventTypes, AnswerTypes
    <2> QED BY <1>2, <1>3, <2>1, <2>2, AppendEvents
            DEF SessionOrder, Final, RequestEventTypes, AnswerTypes
  <1>6. Owed' = Owed
    <2>1. Owed' \subseteq Owed
      BY <1>1, <1>3, <1>4, AppendEvents, OwedIff, OwedIffNext
    <2>2. Owed \subseteq Owed'
      BY <1>1, <1>2, <1>3, AppendEvents, OwedIff, OwedIffNext
    <2> QED BY <2>1, <2>2
  <1>7. InStepInv'
    BY <1>1, <1>4, <1>5, <1>6, QueueOnly
  <1>8. Honest'
    BY <1>1, <1>2, <1>3, <1>4, HonestAppend
  <1>9. ASSUME clean, pc = "wait"
        PROVE  OnlyOwn' /\ InOrder' /\ GotOwn'
    BY <1>1, <1>2, <1>3, <1>4, <1>9, QueueOwn
  <1>10. PICK n \in Nat : /\ DOMAIN queue = 1 .. n /\ DOMAIN queue' = 1 .. n + 1
                          /\ \A i \in 1 .. n : queue'[i] = queue[i]
                          /\ queue'[n + 1] = x
    BY <1>1, <1>2, <1>3, Appended
  <1>11. ASSUME PartsEnd
         PROVE  PartsEnd'
    <2>1. ASSUME NEW i \in DOMAIN queue', queue'[i].type = "PARTIAL_RESPONSE"
          PROVE  \/ \E q \in pending' : q.req.id = queue'[i].req.id
                 \/ \E j \in DOMAIN queue' : j > i /\ Final(queue'[j]) /\ queue'[j].req.id = queue'[i].req.id
      <3>1. i \in DOMAIN queue /\ queue'[i] = queue[i]
        BY <1>2, <1>10, <2>1
      <3>2. ASSUME NEW j \in DOMAIN queue, j > i, Final(queue[j]), queue[j].req.id = queue[i].req.id
            PROVE  \E k \in DOMAIN queue' : k > i /\ Final(queue'[k]) /\ queue'[k].req.id = queue'[i].req.id
        <4>1. j \in DOMAIN queue' /\ queue'[j] = queue[j]
          BY <1>10
        <4> QED BY <3>1, <3>2, <4>1
      <3> QED BY <1>1, <1>11, <2>1, <3>1, <3>2 DEF PartsEnd
    <2> QED BY <2>1 DEF PartsEnd, Final
  <1>12. Steady => Steady'
    BY <1>1, <1>2, <1>10, <1>11 DEF Steady, Message
  <1> QED BY <1>1, <1>6, <1>7, <1>8, <1>9, <1>11, <1>12, QueueOnlyAnswer

\* The subscribe loop takes events off the queue, whosever they are, while no
\* call waits for them.
LEMMA LoopKeeps ==
  ASSUME SharedInv, LoopReads \/ LoopInterrupted
  PROVE  /\ AnswerInv' /\ Owed' \subseteq Owed /\ pc = "idle" /\ pc' = "idle"
         /\ (PartsEnd => PartsEnd') /\ (Steady => Steady')
  <1>1. /\ queue \in Seq(Event) /\ queue # <<>> /\ SessionOrder /\ lastId \in Nat
        /\ queue' = Tail(queue) /\ UNCHANGED <<pending, lastId, up, callVars>>
        /\ InStepInv /\ TypeInv /\ Honest /\ AnswerInv /\ pc = "idle" /\ pc' = "idle"
    BY SharedParts DEF SharedInv, LoopReads, AfterRead, LoopInterrupted, callVars
  <1>2. queue' \in Seq(Event)
    BY <1>1
  <1>3. SessionOrder'
    BY SMTT(20), <1>1, TailEvents DEF SessionOrder, Final, RequestEventTypes, AnswerTypes
  <1>4. Owed' \subseteq Owed
    BY <1>1, TailEvents, OwedIff, OwedIffNext
  <1>5. InStepInv'
    BY <1>1, <1>2, <1>3, <1>4, QueueOnly
  <1>6. Honest'
    BY <1>1, HonestRead
  <1>7. Steady => Steady'
    BY <1>1, SteadyTail
  <1>8. PartsEnd => PartsEnd'
    BY <1>1, TailParts
  <1> QED BY <1>1, <1>4, <1>5, <1>6, <1>7, <1>8, QueueOnlyAnswer

LEMMA SharedStart == SharedInit => SharedInv
  BY AnswerInit DEF SharedInit, LoopInit, SharedInv

\* What is not a step of the loop on the queue is a step of RequestCalls or none.
LEMMA OtherSteps ==
  ASSUME SharedInv, [SharedNext]_allVars, ~Tick, ~LoopReads, ~LoopInterrupted
  PROVE  [Next]_vars /\ ticks' = ticks /\ (loop' = "wait" => pc' = "idle")
  <1>1. CASE Subscribe \/ CallbackReturns \/ CallbackFails
    BY <1>1 DEF Subscribe, CallbackReturns, CallbackFails, vars, callVars
  <1>2. ASSUME NEW c \in Calls, Call(c)
        PROVE  Next /\ ticks' = ticks /\ (loop' = "wait" => pc' = "idle")
    BY <1>2 DEF Call, Next
  <1>3. CASE Continue
    <2>1. Next /\ loop' = loop /\ ticks' = ticks
      BY <1>3 DEF Continue, Next, loopVars
    <2>2. pc # "idle"
      BY <1>3, ReadFrame DEF Continue, CallStep, Send, StopUnsent, TimeOut
    <2> QED BY <2>1, <2>2 DEF SharedInv
  <1>4. CASE Service /\ UNCHANGED loopVars
    BY <1>4 DEF Next, Service, loopVars, callVars, SharedInv
  <1>5. CASE UNCHANGED allVars
    BY <1>5 DEF allVars, loopVars, vars, callVars, SharedInv
  <1> QED BY <1>1, <1>2, <1>3, <1>4, <1>5 DEF SharedNext, LoopStep

LEMMA SharedStep ==
  ASSUME SharedInv, [SharedNext]_allVars
  PROVE  SharedInv'
  <1>1. CASE Tick
    <2>1. ticks' \in Nat /\ loop' = loop /\ pc' = pc
      BY <1>1 DEF SharedInv, Tick, callVars
    <2> QED BY <1>1, <2>1, TickKeeps DEF SharedInv
  <1>2. CASE LoopReads \/ LoopInterrupted
    <2>1. ticks' = ticks
      BY <1>2 DEF LoopReads, LoopInterrupted
    <2> QED BY <1>2, <2>1, LoopKeeps DEF SharedInv
  <1>3. CASE ~Tick /\ ~LoopReads /\ ~LoopInterrupted
    BY <1>3, OtherSteps, AnswerNext DEF SharedInv
  <1> QED BY <1>1, <1>2, <1>3

LEMMA SharedAlways == SharedSpec => []SharedInv
  BY SharedStart, SharedStep, PTL DEF SharedSpec

\* However many messages of a subscription come between the answers of calls,
\* and whether the calls are made inside its user's function or not, a call
\* begun on a clean session is owed its last request only: the subscription
\* never puts bdp and the others out of step.
THEOREM SharedInStep == SharedSpec => []InStep
  <1>1. SharedInv => InStep
    BY SharedParts DEF InStepInv
  <1> QED BY <1>1, SharedAlways, PTL

\* And a clean call that returned leaves nothing to the calls and subscriptions
\* after it, but for bds and getPortfolio at a PARTIAL_RESPONSE.
THEOREM SharedSuccess == SharedSpec => []SuccessLeavesNothingOwed
  <1>1. InStepInv /\ clean /\ Ended("ok") => SuccessLeavesNothingOwed
    BY DEF InStepInv, InStep, Ended
  <1>2. SharedInv => SuccessLeavesNothingOwed
    BY <1>1, SharedParts DEF SuccessLeavesNothingOwed
  <1> QED BY <1>2, SharedAlways, PTL

\* What such a call returns is its own answer as if there were no subscription.
THEOREM SharedOwnAnswer == SharedSpec => []CleanCallReturnsItsOwnAnswer
  <1>1. SharedInv => CleanCallReturnsItsOwnAnswer
    BY DEF SharedInv, AnswerInv
  <1> QED BY <1>1, SharedAlways, PTL

\* And it stops on an answer only if that is an error of its own.
THEOREM SharedOnlyErrorsReject == SharedSpec => []CleanCallRejectsOnlyErrors
  <1>1. SharedInv => CleanCallRejectsOnlyErrors
    BY DEF SharedInv, AnswerInv
  <1> QED BY <1>1, SharedAlways, PTL

LEMMA AwaitsTick ==
  ASSUME SharedInv, Awaits, Tick
  PROVE  Awaits'
  <1>1. Owed' = Owed /\ (PartsEnd => PartsEnd') /\ up /\ UNCHANGED <<up, callVars>>
    BY TickKeeps DEF Tick
  <1>2. FailingClasses = {} => \A i \in DOMAIN queue' : queue'[i].type # "REQUEST_STATUS"
    <2>1. queue' = Append(queue, SubscriptionData(ticks + 1)) /\ SubscriptionData(ticks + 1) \in Event
          /\ SubscriptionData(ticks + 1).type = "SUBSCRIPTION_DATA"
      <3>1. NoRequest \in Request /\ ticks + 1 \in Nat
        BY EmptySeq DEF NoRequest, Request, SharedInv
      <3> QED BY <3>1 DEF Tick, SubscriptionData, Event
    <2> QED BY <2>1, SharedParts, AppendEvents DEF Awaits
  <1> QED BY <1>1, <1>2 DEF Awaits, SeesItsEnd, StopsOnStatus, ReadingTypes, callVars

LEMMA AwaitsLoop ==
  ASSUME SharedInv, Awaits, LoopReads \/ LoopInterrupted
  PROVE  Awaits'
  <1>1. (PartsEnd => PartsEnd') /\ up' = up /\ pc' = "idle" /\ queue # <<>> /\ queue' = Tail(queue)
    BY LoopKeeps DEF LoopReads, AfterRead, LoopInterrupted
  <1>2. \A i \in DOMAIN queue' : \E j \in DOMAIN queue : queue'[i] = queue[j]
    BY <1>1, SharedParts, TailEvents
  <1> QED BY <1>1, <1>2 DEF Awaits

\* Nor does a call wait in vain among the messages of a subscription, although the
\* subscribe loop has read and dropped what earlier calls left.
THEOREM NoSharedCallStarves == SharedSpec => []SomethingComes
  <1>1. SharedInit => Awaits
    BY AwaitsInit DEF SharedInit
  <1>2. ASSUME SharedInv, Awaits, [SharedNext]_allVars
        PROVE  Awaits'
    <2>1. CASE ~Tick /\ ~LoopReads /\ ~LoopInterrupted
      BY <1>2, <2>1, OtherSteps, SharedParts, AwaitsNext
    <2> QED BY <1>2, <2>1, AwaitsTick, AwaitsLoop
  <1>3. SharedInv /\ Awaits /\ [SharedNext]_allVars => Awaits'
    BY <1>2
  <1>4. SharedInv /\ Awaits => SomethingComes
    BY SharedParts, SomethingIsOwed
  <1> QED BY <1>1, <1>3, <1>4, SharedAlways, PTL DEF SharedSpec

-----------------------------------------------------------------------------
(* A session that is behind *)

LEMMA SharedSlipStart == SharedInit => SharedSlipInv
  BY SlipInit, SharedStart DEF SharedInit, SlipInv, SharedSlipInv

LEMMA SharedSlipStep ==
  ASSUME Answering, SharedSlipInv, [SharedNext]_allVars
  PROVE  SharedSlipInv'
  <1>1. SharedInv /\ SharedInv' /\ SlipInv
    BY SharedStep DEF SharedSlipInv, SharedInv, SlipInv
  <1>2. CASE Tick
    <2>1. Owed' = Owed /\ Steady' /\ pc' = pc /\ clean' = clean
      BY <1>1, <1>2, TickKeeps DEF SharedSlipInv, Tick, callVars
    <2> QED BY <1>1, <2>1 DEF SharedSlipInv, Behindhand
  <1>3. CASE LoopReads \/ LoopInterrupted
    BY <1>1, <1>3, LoopKeeps DEF SharedSlipInv, Behindhand
  <1>4. CASE ~Tick /\ ~LoopReads /\ ~LoopInterrupted
    BY <1>1, <1>4, OtherSteps, SlipNext DEF SharedSlipInv, SlipInv
  <1> QED BY <1>2, <1>3, <1>4

LEMMA SharedSlipAlways ==
  ASSUME Answering
  PROVE  SharedSpec => []SharedSlipInv
  <1>1. SharedSlipInv /\ [SharedNext]_allVars => SharedSlipInv'
    BY SharedSlipStep
  <1> QED BY <1>1, SharedSlipStart, PTL DEF SharedSpec

\* While every request is answered, a session that has fallen behind is mended
\* by nothing but a waiting subscribe loop: not by a call, inside the user's
\* function or outside it, and not by messages between its answers.
THEOREM OnlyTheLoopHeals ==
  ASSUME Answering
  PROVE  SharedSpec => OnlySubscribeHeals
  <1>1. ASSUME SharedSlipInv, [SharedNext]_allVars, loop # "wait"
        PROVE  ~(Behind' < Behind)
    <2>1. SharedInv /\ SlipInv
      BY <1>1 DEF SharedSlipInv, SharedInv, SlipInv
    <2>2. Cardinality(Owed) \in Nat
      BY <2>1, SlipParts, OwedFinite
    <2>3. Behind \in Int
      BY <2>2 DEF Behind
    <2>4. CASE Tick
      <3>1. Owed' = Owed /\ pc' = pc
        BY <2>1, <2>4, TickKeeps DEF Tick, callVars
      <3> QED BY <2>3, <3>1 DEF Behind
    <2>5. CASE ~Tick
      <3>1. [Next]_vars
        BY <1>1, <2>1, <2>5, OtherSteps DEF LoopReads, LoopInterrupted
      <3>2. [Behind' >= Behind]_vars
        BY <2>1, <3>1, NeverNearer
      <3>3. CASE UNCHANGED vars
        <4>1. Owed' = Owed /\ pc' = pc
          BY <3>3 DEF vars, sessionVars, callVars, Owed
        <4> QED BY <2>3, <4>1 DEF Behind
      <3>4. CASE Behind' >= Behind
        <4>1. AnswerInv'
          BY <1>1, SharedSlipStep DEF SharedSlipInv, SharedInv
        <4>2. Cardinality(Owed') \in Nat
          BY <4>1, OwedFiniteNext DEF AnswerInv, InStepInv, InStep
        <4> QED BY <2>3, <3>4, <4>2 DEF Behind
      <3> QED BY <3>2, <3>3, <3>4
    <2> QED BY <2>4, <2>5
  <1>2. SharedSlipInv /\ [SharedNext]_allVars => [Behind' < Behind => loop = "wait"]_allVars
    BY <1>1
  <1> QED BY <1>2, SharedSlipAlways, PTL DEF SharedSpec, OnlySubscribeHeals

\* The messages of a subscription, and the loop that reads them, put it behind neither.
THEOREM OnlyGivingUpCostsShared == SharedSpec => OnlyGivingUpFallsBehind
  <1>1. ASSUME SharedInv, [SharedNext]_allVars
        PROVE  [up /\ Behind' > Behind => Behind' = Behind + 1 /\ GivesUp]_vars
    <2>1. CASE Tick
      <3>1. Owed' = Owed /\ pc' = pc
        BY <1>1, <2>1, TickKeeps DEF Tick, callVars
      <3> QED BY <1>1, <3>1, SharedParts, NoFurther
    <2>2. CASE LoopReads \/ LoopInterrupted
      <3>1. Owed' \subseteq Owed /\ pc = "idle"
        BY <1>1, <2>2, LoopKeeps
      <3> QED BY <1>1, <3>1, SharedParts, NoFurther
    <2>3. CASE ~Tick /\ ~LoopReads /\ ~LoopInterrupted
      BY <1>1, <2>3, OtherSteps, SharedParts, FallsByOne
    <2> QED BY <2>1, <2>2, <2>3
  <1>2. SharedInv /\ [SharedNext]_allVars =>
          [up /\ Behind' > Behind => Behind' = Behind + 1 /\ GivesUp]_vars
    BY <1>1
  <1> QED BY <1>2, SharedAlways, PTL DEF SharedSpec, OnlyGivingUpFallsBehind

\* There too the request functions implement the promise, and all that subscribe
\* adds to it is that it may make a session trusted again.
THEOREM SharedPromiseKept ==
  ASSUME Answering
  PROVE  SharedSpec => KeepsPromiseWhenShared
  <1>1. ASSUME SharedSlipInv, [SharedNext]_allVars
        PROVE  [Promise!Next \/ Promise!Drain]_(Promise!promiseVars)
    <2>1. SharedInv /\ SlipInv
      BY <1>1 DEF SharedSlipInv, SharedInv, SlipInv
    <2>2. CASE Tick
      <3>1. UNCHANGED callVars /\ Owed' = Owed
        BY <2>1, <2>2, TickKeeps DEF Tick
      <3> QED BY <3>1, PromiseStutters
    <2>3. CASE LoopReads \/ LoopInterrupted
      <3>1. UNCHANGED callVars /\ pc = "idle" /\ pc' = "idle" /\ Owed' \subseteq Owed
        BY <2>1, <2>3, LoopKeeps DEF LoopReads, LoopInterrupted
      <3>2. CASE Owed = {} \/ Owed' # {}
        <4>1. UNCHANGED <<pc, call, types, got, outcome, mine, clean>>
          BY <3>1 DEF callVars
        <4>2. Reply' = Reply
          BY <4>1 DEF Reply, AllOwn, Ended
        <4> QED BY <3>1, <3>2, <4>1, <4>2 DEF Promise!promiseVars
      <3>3. CASE Owed # {} /\ Owed' = {}
        <4>1. UNCHANGED <<pc, call, types, got, outcome, mine, clean>>
          BY <3>1 DEF callVars
        <4>2. Reply' = Reply
          BY <4>1 DEF Reply, AllOwn, Ended
        <4> QED BY <3>1, <3>3, <4>1, <4>2 DEF Promise!Drain
      <3> QED BY <3>2, <3>3
    <2>4. CASE ~Tick /\ ~LoopReads /\ ~LoopInterrupted
      BY <1>1, <2>1, <2>4, OtherSteps, PromiseStep
    <2> QED BY <2>2, <2>3, <2>4
  <1>2. SharedSlipInv /\ [SharedNext]_allVars => [Promise!Next \/ Promise!Drain]_(Promise!promiseVars)
    BY <1>1
  <1>3. SharedInit => Promise!Init
    BY PromiseInit DEF SharedInit
  <1> QED BY <1>2, <1>3, SharedSlipAlways, PTL DEF SharedSpec, KeepsPromiseWhenShared, Promise!SharedSpec

-----------------------------------------------------------------------------
(* The messages *)

\* Another event in line changes nothing for them,
LEMMA AppendMessages ==
  ASSUME SharedInv, MessagesInOrder, NEW x \in Event, ~Message(x), queue' = Append(queue, x),
         UNCHANGED <<pc, loop, ticks, seen, called>>
  PROVE  MessagesInOrder'
  <1>1. PICK n \in Nat : /\ DOMAIN queue = 1 .. n /\ DOMAIN queue' = 1 .. n + 1
                         /\ \A i \in 1 .. n : queue'[i] = queue[i]
                         /\ queue'[n + 1] = x
    BY SharedParts, AppendEvents
  <1>2. \A k : InLine(k) => InLine(k)'
    BY <1>1 DEF InLine, Message
  <1>3. ASSUME NEW i \in DOMAIN queue', Message(queue'[i])
        PROVE  i \in DOMAIN queue /\ queue'[i] = queue[i] /\ Message(queue[i])
    BY <1>1, <1>3 DEF Message
  <1> QED BY <1>2, <1>3 DEF MessagesInOrder, Message

\* nor does an event that is no message when it is taken, nor a message taken
\* where called says so.
LEMMA TakeMessages ==
  ASSUME SharedInv, MessagesInOrder, queue # <<>>, queue' = Tail(queue),
         UNCHANGED <<ticks, seen, called>>, pc' # "idle" => called', loop' # "idle" => loop # "idle",
         ~Message(Head(queue)) \/ called \/ loop' = "idle"
  PROVE  MessagesInOrder'
  <1>1. PICK n \in Nat : /\ DOMAIN queue = 1 .. n + 1 /\ DOMAIN queue' = 1 .. n
                         /\ \A i \in 1 .. n : queue'[i] = queue[i + 1]
                         /\ Head(queue) = queue[1]
    <2>1. Len(queue) - 1 \in Nat /\ (Len(queue) - 1) + 1 = Len(queue)
      BY SharedParts, TailEvents
    <2> QED BY <2>1, SharedParts, TailEvents
  <1>2. ASSUME NEW i \in DOMAIN queue'
        PROVE  i + 1 \in DOMAIN queue /\ queue'[i] = queue[i + 1] /\ 1 \in DOMAIN queue /\ i + 1 > 1
    BY <1>1
  <1>3. ASSUME NEW k, InLine(k), ~(Message(queue[1]) /\ queue[1].part = k)
        PROVE  InLine(k)'
    <2>1. PICK j \in DOMAIN queue : Message(queue[j]) /\ queue[j].part = k
      BY <1>3 DEF InLine
    <2>2. j - 1 \in DOMAIN queue' /\ queue'[j - 1] = queue[j]
      BY <1>1, <1>3, <2>1
    <2> QED BY <2>1, <2>2 DEF InLine, Message
  <1>4. ASSUME NEW i \in DOMAIN queue', Message(queue'[i])
        PROVE  /\ queue'[i].part \in seen + 1 .. ticks
               /\ \A k \in queue'[i].part .. ticks : InLine(k)'
               /\ \A j \in DOMAIN queue' : j > i /\ Message(queue'[j]) => queue'[j].part > queue'[i].part
    <2>1. Message(queue[i + 1])
      BY <1>2, <1>4
    <2>2. queue'[i].part \in seen + 1 .. ticks /\ \A k \in queue'[i].part .. ticks : InLine(k)
      BY <1>2, <2>1 DEF MessagesInOrder
    <2>3. Message(queue[1]) => queue[1].part \in Nat /\ queue[1].part < queue'[i].part
      BY <1>2, <2>1 DEF MessagesInOrder
    <2>4. ASSUME NEW k \in queue'[i].part .. ticks
          PROVE  InLine(k)'
      <3>1. queue'[i].part \in Nat /\ k >= queue'[i].part
        BY <2>2 DEF MessagesInOrder
      <3>2. ~(Message(queue[1]) /\ queue[1].part = k)
        BY <2>3, <3>1
      <3> QED BY <1>3, <2>2, <3>2
    <2>5. ASSUME NEW j \in DOMAIN queue', j > i, Message(queue'[j])
          PROVE  queue'[j].part > queue'[i].part
      <3>1. j + 1 \in DOMAIN queue /\ queue'[j] = queue[j + 1] /\ j + 1 > i + 1
        BY <1>1, <2>5
      <3>2. Message(queue[j + 1])
        BY <2>5, <3>1
      <3> QED BY <1>2, <2>1, <3>1, <3>2 DEF MessagesInOrder
    <2> QED BY <2>2, <2>4, <2>5
  <1>5. ASSUME loop' # "idle", ~called, NEW k \in seen + 1 .. ticks
        PROVE  InLine(k)'
    <2>1. ~Message(queue[1]) /\ loop # "idle"
      BY <1>1, <1>5
    <2> QED BY <1>3, <1>5, <2>1 DEF MessagesInOrder
  <1>6. \A e : Message(e)' <=> Message(e)
    BY DEF Message
  <1> QED BY <1>4, <1>5, <1>6 DEF MessagesInOrder

\* A new message is the last.
LEMMA TickMessages ==
  ASSUME SharedInv, MessagesInOrder, Tick
  PROVE  MessagesInOrder'
  <1>1. PICK x : x = SubscriptionData(ticks + 1) /\ x \in Event /\ Message(x) /\ x.part = ticks + 1
    <2>1. NoRequest \in Request
      BY EmptySeq DEF NoRequest, Request
    <2>2. ticks + 1 \in Nat
      BY DEF SharedInv
    <2>3. /\ SubscriptionData(ticks + 1) \in Event
          /\ SubscriptionData(ticks + 1).type = "SUBSCRIPTION_DATA"
          /\ SubscriptionData(ticks + 1).part = ticks + 1
      BY <2>1, <2>2 DEF SubscriptionData, Event
    <2> QED BY <2>3 DEF Message
  <1>2. /\ queue' = Append(queue, x) /\ ticks' = ticks + 1
        /\ UNCHANGED <<pc, loop, seen, called>> /\ seen \in Nat /\ ticks \in Nat /\ seen <= ticks
    BY <1>1 DEF Tick, callVars, MessagesInOrder
  <1>3. PICK n \in Nat : /\ DOMAIN queue = 1 .. n /\ DOMAIN queue' = 1 .. n + 1
                         /\ \A i \in 1 .. n : queue'[i] = queue[i]
                         /\ queue'[n + 1] = x
    BY <1>1, <1>2, SharedParts, AppendEvents
  <1>4. \A k : InLine(k) \/ k = ticks + 1 => InLine(k)'
    BY <1>1, <1>3 DEF InLine, Message
  <1>5. \A a \in Nat : \A k \in a .. ticks + 1 : k \in a .. ticks \/ k = ticks + 1
    BY <1>2
  <1>6. ASSUME NEW i \in DOMAIN queue', Message(queue'[i])
        PROVE  /\ queue'[i].part \in seen + 1 .. ticks + 1
               /\ \A k \in queue'[i].part .. ticks + 1 : InLine(k)'
               /\ \A j \in DOMAIN queue' : j > i /\ Message(queue'[j]) => queue'[j].part > queue'[i].part
    <2>1. CASE i = n + 1
      BY <1>1, <1>2, <1>3, <1>4, <2>1
    <2>2. CASE i \in 1 .. n
      <3>1. i \in DOMAIN queue /\ queue'[i] = queue[i] /\ Message(queue[i])
        BY <1>3, <1>6, <2>2
      <3>2. queue[i].part \in seen + 1 .. ticks /\ \A k \in queue[i].part .. ticks : InLine(k)
        BY <3>1 DEF MessagesInOrder
      <3>3. \A k \in queue[i].part .. ticks + 1 : InLine(k)'
        BY <1>2, <1>4, <1>5, <3>2
      <3>4. ASSUME NEW j \in DOMAIN queue', j > i, Message(queue'[j])
            PROVE  queue'[j].part > queue[i].part
        <4>1. CASE j = n + 1
          BY <1>1, <1>2, <1>3, <3>2, <4>1
        <4>2. CASE j \in 1 .. n
          BY <1>3, <3>1, <3>4, <4>2 DEF MessagesInOrder
        <4> QED BY <1>3, <4>1, <4>2
      <3>5. queue'[i].part \in seen + 1 .. ticks + 1
        BY <1>2, <3>1, <3>2
      <3> QED BY <3>1, <3>3, <3>4, <3>5
    <2> QED BY <1>3, <2>1, <2>2
  <1>7. ASSUME loop # "idle", ~called, NEW k \in seen + 1 .. ticks + 1
        PROVE  InLine(k)'
    BY <1>2, <1>4, <1>5, <1>7 DEF MessagesInOrder
  <1>8. \A e : Message(e)' <=> Message(e)
    BY DEF Message
  <1> QED BY <1>2, <1>6, <1>7, <1>8 DEF MessagesInOrder

\* The message handed over is the first in line, and the next one if no call came
\* between.
LEMMA HandMessage ==
  ASSUME SharedInv, MessagesInOrder, LoopReads, ForUser(Head(queue))
  PROVE  /\ MessagesInOrder'
         /\ seen' > seen
         /\ seen' = seen + 1 \/ called
  <1>1. /\ loop = "wait" /\ pc = "idle" /\ pc' = "idle" /\ queue # <<>> /\ queue' = Tail(queue)
        /\ seen' = Head(queue).part /\ called' = FALSE /\ ticks' = ticks
        /\ Message(Head(queue))
    BY DEF LoopReads, ForUser, Message, AfterRead, SharedInv, callVars
  <1>2. PICK n \in Nat : /\ DOMAIN queue = 1 .. n + 1 /\ DOMAIN queue' = 1 .. n
                         /\ \A i \in 1 .. n : queue'[i] = queue[i + 1]
                         /\ Head(queue) = queue[1]
    <2>1. Len(queue) - 1 \in Nat /\ (Len(queue) - 1) + 1 = Len(queue)
      BY <1>1, SharedParts, TailEvents
    <2> QED BY <1>1, <2>1, SharedParts, TailEvents
  <1>3. PICK p : p = queue[1].part /\ p \in seen + 1 .. ticks /\ seen' = p
    BY <1>1, <1>2 DEF MessagesInOrder
  <1>4. /\ p \in Nat /\ p > seen /\ p <= ticks /\ seen \in Nat /\ ticks \in Nat
        /\ \A k \in p .. ticks : InLine(k)
    BY <1>1, <1>2, <1>3 DEF MessagesInOrder
  <1>5. ASSUME NEW i \in DOMAIN queue, i # 1, Message(queue[i])
        PROVE  queue[i].part > p /\ queue[i].part \in seen + 1 .. ticks
    <2>1. i > 1 /\ 1 \in DOMAIN queue
      BY <1>2, <1>5
    <2> QED BY <1>1, <1>2, <1>3, <1>5, <2>1 DEF MessagesInOrder
  <1>6. seen' = seen + 1 \/ called
    <2> SUFFICES ASSUME ~called, p # seen + 1 PROVE FALSE
      BY <1>3
    <2>1. seen + 1 \in seen + 1 .. ticks
      BY <1>4
    <2>2. PICK j \in DOMAIN queue : Message(queue[j]) /\ queue[j].part = seen + 1
      BY <1>1, <2>1 DEF MessagesInOrder, InLine
    <2>3. j # 1 => queue[j].part > p
      BY <1>5, <2>2
    <2> QED BY <1>3, <1>4, <2>2, <2>3
  <1>7. ASSUME NEW k \in p + 1 .. ticks
        PROVE  InLine(k)'
    <2>1. k \in p .. ticks /\ k # p
      BY <1>4
    <2>2. PICK j \in DOMAIN queue : Message(queue[j]) /\ queue[j].part = k
      BY <1>4, <2>1 DEF InLine
    <2>3. j - 1 \in DOMAIN queue' /\ queue'[j - 1] = queue[j]
      BY <1>2, <1>3, <2>1, <2>2
    <2> QED BY <2>2, <2>3 DEF InLine, Message
  <1>8. ASSUME NEW i \in DOMAIN queue', Message(queue'[i])
        PROVE  /\ queue'[i].part \in p + 1 .. ticks
               /\ \A k \in queue'[i].part .. ticks : InLine(k)'
               /\ \A j \in DOMAIN queue' : j > i /\ Message(queue'[j]) => queue'[j].part > queue'[i].part
    <2>1. i + 1 \in DOMAIN queue /\ queue'[i] = queue[i + 1] /\ i + 1 # 1 /\ Message(queue[i + 1])
      BY <1>2, <1>8
    <2>2. PICK m : m = queue'[i].part /\ m > p /\ m \in seen + 1 .. ticks
      BY <1>5, <2>1
    <2>3. m \in p + 1 .. ticks /\ \A k \in m .. ticks : k \in p + 1 .. ticks
      BY <1>4, <2>2
    <2>4. ASSUME NEW j \in DOMAIN queue', j > i, Message(queue'[j])
          PROVE  queue'[j].part > queue'[i].part
      <3>1. j + 1 \in DOMAIN queue /\ queue'[j] = queue[j + 1] /\ j + 1 > i + 1
        BY <1>2, <2>4
      <3>2. Message(queue[j + 1])
        BY <2>4, <3>1
      <3> QED BY <2>1, <3>1, <3>2 DEF MessagesInOrder
    <2> QED BY <1>7, <2>2, <2>3, <2>4
  <1>9. \A e : Message(e)' <=> Message(e)
    BY DEF Message
  <1>10. MessagesInOrder'
    BY <1>1, <1>3, <1>4, <1>7, <1>8, <1>9 DEF MessagesInOrder
  <1> QED BY <1>3, <1>4, <1>6, <1>10

LEMMA MessagesStart == SharedInit => MessagesInOrder
  <1> SUFFICES ASSUME SharedInit PROVE MessagesInOrder
    OBVIOUS
  <1>1. DOMAIN queue = {} /\ seen = 0 /\ ticks = 0 /\ pc = "idle" /\ loop = "idle"
    BY DEF SharedInit, LoopInit, Init, SessionInit
  <1> QED BY <1>1 DEF MessagesInOrder

LEMMA MessagesStep ==
  ASSUME SharedInv, MessagesInOrder, [SharedNext]_allVars
  PROVE  /\ MessagesInOrder'
         /\ seen' # seen => seen' > seen /\ (seen' = seen + 1 \/ called)
  <1>1. CASE Tick
    BY <1>1, TickMessages DEF Tick
  <1>2. CASE LoopReads /\ ForUser(Head(queue))
    BY <1>2, HandMessage
  <1>3. CASE LoopReads /\ ~ForUser(Head(queue))
    <2>1. /\ queue # <<>> /\ queue' = Tail(queue) /\ UNCHANGED <<ticks, seen, called, loop>>
          /\ pc' = "idle" /\ ~Message(Head(queue))
      BY <1>3, LoopKeeps DEF LoopReads, AfterRead, ForUser, Message
    <2> QED BY <2>1, TakeMessages
  <1>4. CASE LoopInterrupted
    <2>1. /\ queue # <<>> /\ queue' = Tail(queue) /\ UNCHANGED <<ticks, seen, called>>
          /\ pc' = "idle" /\ loop' = "idle"
      BY <1>4, LoopKeeps DEF LoopInterrupted
    <2> QED BY <2>1, TakeMessages
  <1>5. CASE Continue /\ ReadEvent
    <2>1. /\ queue # <<>> /\ queue' = Tail(queue) /\ UNCHANGED <<ticks, seen, called, loop>> /\ called
      BY <1>5, ReadFrame DEF Continue, loopVars, MessagesInOrder
    <2> QED BY <2>1, TakeMessages
  <1>6. CASE Service /\ UNCHANGED loopVars
    <2>1. /\ UNCHANGED <<pc, loop, ticks, seen, called>>
          /\ \E x \in Event : queue' = Append(queue, x) /\ ~Message(x)
      BY <1>6, SharedParts, ServiceSends DEF loopVars, callVars, Ends, Sends, Message
    <2> QED BY <2>1, AppendMessages
  <1>7. ASSUME UNCHANGED <<queue, ticks, seen>>,
               pc' # "idle" => called',
               called => called',
               loop' # "idle" /\ ~called' => (loop # "idle" /\ ~called) \/ ticks = 0
        PROVE  MessagesInOrder'
    <2>1. /\ \A k : InLine(k)' <=> InLine(k)
          /\ \A e : Message(e)' <=> Message(e)
      BY <1>7 DEF InLine, Message
    <2>2. ticks = 0 => \A k : k \notin seen + 1 .. ticks
      BY DEF MessagesInOrder
    <2> QED BY <1>7, <2>1, <2>2 DEF MessagesInOrder
  <1>8. CASE Subscribe \/ CallbackReturns \/ CallbackFails
    <2>1. /\ UNCHANGED <<queue, ticks, seen, called, pc>>
          /\ loop' # "idle" => loop # "idle" \/ ticks = 0
      BY <1>8 DEF Subscribe, CallbackReturns, CallbackFails, vars, sessionVars, callVars
    <2> QED BY <1>7, <2>1 DEF MessagesInOrder
  <1>9. ASSUME NEW c \in Calls, Call(c)
        PROVE  MessagesInOrder' /\ seen' = seen
    <2>1. UNCHANGED <<queue, ticks, seen>> /\ called'
      BY <1>9 DEF Call, StartCall, sessionVars
    <2> QED BY <1>7, <2>1
  <1>10. CASE Continue /\ ~ReadEvent
    <2>1. UNCHANGED <<queue, ticks, seen, called, loop>> /\ pc # "idle"
      BY <1>10 DEF Continue, CallStep, Send, SendRequest, StopUnsent, TimeOut, loopVars, sessionVars
    <2> QED BY <1>7, <2>1 DEF MessagesInOrder
  <1>11. CASE UNCHANGED allVars
    <2>1. UNCHANGED <<queue, ticks, seen, called, loop, pc>>
      BY <1>11 DEF allVars, loopVars, vars, sessionVars, callVars
    <2> QED BY <1>7, <2>1 DEF MessagesInOrder
  <1>12. seen' = seen \/ (LoopReads /\ ForUser(Head(queue)))
    BY DEF SharedNext, LoopStep, Subscribe, CallbackReturns, CallbackFails, LoopReads, LoopInterrupted,
           Tick, Call, Continue, loopVars, allVars
  <1> QED BY <1>1, <1>2, <1>3, <1>4, <1>5, <1>6, <1>8, <1>9, <1>10, <1>11, <1>12 DEF SharedNext, LoopStep

\* Messages reach the user's function in the order they were sent, and none is
\* skipped unless a request function ran since the last: the subscribe loop itself
\* loses none, however long the queue and whatever stands between them.
THEOREM MessagesLostToCallsOnly == SharedSpec => TickLostOnlyToACall
  <1>1. SharedInv /\ MessagesInOrder /\ [SharedNext]_allVars =>
          MessagesInOrder' /\ [seen' # seen => seen' > seen /\ (seen' = seen + 1 \/ called)]_allVars
    BY MessagesStep
  <1> QED BY <1>1, MessagesStart, SharedAlways, PTL DEF SharedSpec, TickLostOnlyToACall
=============================================================================
