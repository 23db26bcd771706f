----------------------------- MODULE Subscribe ------------------------------
(***************************************************************************)
(* subscribe(): live market data.  A call subscribes securities[i] with    *)
(* correlation id i, reads the session's events for ever, hands each       *)
(* message to the user's function under the name securities[cid], and ends *)
(* only by an interrupt, which unsubscribes, or an exception, which does   *)
(* not.  Calls follow one another on one session, each numbering its       *)
(* securities from 0 again.  The library keeps the subscriptions and the   *)
(* queue (modelled from how subscribe.cpp uses it); sub, sec and n in a    *)
(* message, fresh, seen and lost are history.                              *)
(***************************************************************************)
EXTENDS Integers, Sequences, FiniteSets, SequencesExt, Functions

CONSTANTS
  Securities,
  SecLists,    \* the lists of securities of the calls
  MaxSubs,     \* bound: calls of subscribe in a behaviour
  MaxTicks,    \* bound: messages of one subscription
  MaxQueue     \* bound: events waiting in the queue

ASSUME SubscribeAssumption ==
  /\ SecLists \subseteq Seq(Securities) \ {<<>>}
  /\ MaxSubs \in Nat /\ MaxTicks \in Nat /\ MaxQueue \in Nat

VARIABLES
  active,      \* the library's subscriptions: [sub, cid, sec, n]
  queue,       \* events; an event is a sequence of messages
  interrupted, \* an R interrupt is pending
  pc,          \* "idle", "wait" (nextEvent), "check" (event in hand), "deliver", "callback"
  securities,  \* argument of the running or last call
  hand,        \* messages of the event in hand not yet delivered
  outcome,     \* "none", "interrupt" or "error"
  subs,        \* calls so far
  fresh,       \* history: no subscription and no event was left when the call began
  seen,        \* history: per correlation id, messages delivered by this call
  last         \* history: last message delivered, with the name given to it

libVars == <<active, queue>>
callVars == <<pc, securities, hand, outcome, subs, fresh, seen, last>>
vars == <<libVars, interrupted, callVars>>

NoName == "none"
Nothing == [sub |-> 0, name |-> NoName, sec |-> NoName]

Init ==
  /\ active = {} /\ queue = <<>>
  /\ interrupted = FALSE
  /\ pc = "idle" /\ securities = <<>> /\ hand = <<>> /\ outcome = "none"
  /\ subs = 0 /\ fresh = TRUE /\ seen = <<>> /\ last = Nothing

\* SubscriptionList.add(..., CorrelationId(i)); cids count from 0.
Cid_FromOne(i) == i          \* mutant
Cid(i) == i - 1

StartSubscribe(secs) ==
  /\ pc = "idle"
  /\ subs < MaxSubs
  /\ IsInjective(secs)
  /\ subs' = subs + 1
  /\ securities' = secs
  /\ hand' = <<>>
  /\ fresh' = (active = {} /\ queue = <<>>)
  /\ seen' = [c \in {Cid(i) : i \in DOMAIN secs} |-> 0]
  /\ \/ /\ active' = active \cup {[sub |-> subs + 1, cid |-> Cid(i), sec |-> secs[i], n |-> 0] :
                                    i \in DOMAIN secs}
        /\ pc' = "wait"
        /\ outcome' = "none"
     \/ \* the service does not open, or subscribe() throws (say, on an id in use)
        /\ pc' = "idle"
        /\ outcome' = "error"
        /\ UNCHANGED active
  /\ UNCHANGED <<queue, interrupted, last>>

\* The library queues an event with the next message of some subscriptions.
Tick ==
  /\ \E s \in active, failed \in BOOLEAN :
       /\ s.n < MaxTicks
       /\ LET m == [sub |-> s.sub, cid |-> s.cid, sec |-> s.sec, n |-> s.n + 1] IN
            \/ Len(queue) < MaxQueue /\ queue' = Append(queue, <<m>>)
            \/ \* the last queued event takes the message too
               /\ queue # <<>>
               /\ Len(Last(queue)) = 1
               /\ queue' = [queue EXCEPT ![Len(queue)] = Append(@, m)]
       \* SubscriptionFailure and SubscriptionTerminated are the last of theirs
       /\ active' = (active \ {s}) \cup (IF failed THEN {} ELSE {[s EXCEPT !.n = @ + 1]})
  /\ UNCHANGED <<interrupted, callVars>>

\* An event no message of which is for the callback (a late answer to a request).
OtherEvent ==
  /\ Len(queue) < MaxQueue
  /\ queue' = Append(queue, <<>>)
  /\ UNCHANGED <<active, interrupted, callVars>>

Interrupt ==
  /\ pc # "idle"
  /\ ~interrupted
  /\ interrupted' = TRUE
  /\ UNCHANGED <<libVars, callVars>>

NextEvent ==
  /\ pc = "wait"
  /\ queue # <<>>
  /\ hand' = Head(queue)
  /\ queue' = Tail(queue)
  /\ pc' = "check"
  /\ UNCHANGED <<active, interrupted, securities, outcome, subs, fresh, seen, last>>

\* checkUserInterrupt() comes after nextEvent(): the event in hand is dropped.
Unsubscribe_Nothing == active                                               \* mutant
Unsubscribe == {s \in active : s.cid \notin {Cid(i) : i \in DOMAIN securities}}

Noticed_Never == FALSE       \* mutant: no checkUserInterrupt()
Noticed == interrupted

CheckInterrupt ==
  /\ pc = "check"
  /\ IF Noticed
     THEN /\ active' = Unsubscribe
          /\ interrupted' = FALSE
          /\ hand' = <<>>
          /\ pc' = "idle"
          /\ outcome' = "interrupt"
     ELSE /\ pc' = IF hand = <<>> THEN "wait" ELSE "deliver"
          /\ UNCHANGED <<active, interrupted, hand, outcome>>
  /\ UNCHANGED <<queue, securities, subs, fresh, seen, last>>

\* if (cid >= 0 && cid < securities.size()) topic = securities[cid]
NameOf_Next(c) == IF c + 1 < Len(securities) THEN securities[c + 2] ELSE NoName   \* mutant
NameOf(c) == IF c < Len(securities) THEN securities[c + 1] ELSE NoName

\* while (msgIter.next()): the messages of the event still to hand over.
Rest_None(h) == <<>>         \* mutant: only the first message of an event
Rest(h) == Tail(h)

Deliver ==
  /\ pc = "deliver"
  /\ LET m == Head(hand) IN
       /\ last' = [sub |-> m.sub, name |-> NameOf(m.cid), sec |-> m.sec]
       /\ seen' = IF m.cid \in DOMAIN seen THEN [seen EXCEPT ![m.cid] = m.n] ELSE seen
  /\ hand' = Rest(hand)
  /\ pc' = "callback"
  /\ UNCHANGED <<libVars, interrupted, securities, outcome, subs, fresh>>

\* recursiveParse throws on the message before the function is called: a value
\* that does not convert, an array of sequences, a date that is none.
ParseFails ==
  /\ pc = "deliver"
  /\ pc' = "idle"
  /\ outcome' = "error"
  /\ hand' = <<>>
  /\ UNCHANGED <<libVars, interrupted, securities, subs, fresh, seen, last>>

CallbackReturns ==
  /\ pc = "callback"
  /\ pc' = IF hand = <<>> THEN "wait" ELSE "deliver"
  /\ UNCHANGED <<libVars, interrupted, securities, hand, outcome, subs, fresh, seen, last>>

\* An R error in the function leaves the loop and the subscriptions behind: only
\* InterruptedException is caught.
CallbackFails ==
  /\ pc = "callback"
  /\ pc' = "idle"
  /\ outcome' = "error"
  /\ hand' = <<>>
  /\ UNCHANGED <<libVars, interrupted, securities, subs, fresh, seen, last>>

\* R takes the interrupt while the function runs.  How it passes through C++ is
\* the Rcpp build's choice: as InterruptedException, or as R's own jump, which
\* no catch clause sees.
InterruptCallback ==
  /\ pc = "callback"
  /\ interrupted
  /\ interrupted' = FALSE
  /\ pc' = "idle"
  /\ hand' = <<>>
  /\ \/ active' = Unsubscribe /\ outcome' = "interrupt"
     \/ outcome' = "error" /\ UNCHANGED active
  /\ UNCHANGED <<queue, securities, subs, fresh, seen, last>>

\* Outside subscribe R takes the interrupt itself.
InterruptElsewhere ==
  /\ pc = "idle"
  /\ interrupted
  /\ interrupted' = FALSE
  /\ UNCHANGED <<libVars, callVars>>

Loop ==
  \/ NextEvent \/ CheckInterrupt
  \/ Deliver \/ ParseFails
  \/ CallbackReturns \/ CallbackFails \/ InterruptCallback

Next ==
  \/ \E secs \in SecLists : StartSubscribe(secs)
  \/ Loop
  \/ Tick
  \/ OtherEvent
  \/ Interrupt
  \/ InterruptElsewhere

Spec == Init /\ [][Next]_vars

\* The loop runs on, and the user's function returns or fails.
FairSpec == Spec /\ WF_vars(Loop)

-----------------------------------------------------------------------------
Messages == [sub : 1 .. MaxSubs, cid : Nat, sec : Securities, n : 1 .. MaxTicks]

\* Types of the state.
TypeOK ==
  /\ \A s \in active : s.sub \in 1 .. subs /\ s.cid \in Nat /\ s.sec \in Securities /\ s.n \in 0 .. MaxTicks
  /\ queue \in Seq(Seq(Messages))
  /\ interrupted \in BOOLEAN
  /\ pc \in {"idle", "wait", "check", "deliver", "callback"}
  /\ securities \in Seq(Securities)
  /\ hand \in Seq(Messages)
  /\ pc = "deliver" => hand # <<>>
  /\ outcome \in {"none", "interrupt", "error"}
  /\ subs \in 0 .. MaxSubs
  /\ fresh \in BOOLEAN

\* In a call that found the session clean, the name a message is handed over
\* with is the security it is about.
FreshNamesAreRight == (fresh /\ last.sub = subs) => last.name = last.sec

\* In such a call no message of a subscription is skipped, repeated or
\* reordered on its way to the user's function.
FreshDeliversInOrder ==
  [][fresh /\ pc = "deliver" /\ pc' = "callback" => Head(hand).n = seen[Head(hand).cid] + 1]_vars

\* Messages still to come of subscriptions other than the running call's.
Foreign ==
  \/ \E s \in active : s.sub # subs
  \/ \E i \in DOMAIN queue : \E j \in DOMAIN queue[i] : queue[i][j].sub # subs
  \/ \E j \in DOMAIN hand : hand[j].sub # subs

\* A wrong name has one cause: while a call has nothing foreign before it, it
\* stays so, and its names are right from then on.
NoForeignNoWrongName ==
  [][~Foreign /\ subs' = subs => ~Foreign' /\ (last' # last => last'.name = last'.sec)]_vars

\* An interrupted call leaves no subscription of its own.
InterruptUnsubscribes ==
  outcome = "interrupt" => \A s \in active : s.sub # subs

\* A pending interrupt ends the call once there is an event to read: it is only
\* looked at when nextEvent() has returned.
InterruptNoticed == (interrupted /\ queue # <<>> /\ pc = "wait") ~> pc = "idle"
=============================================================================
