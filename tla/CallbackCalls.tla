---------------------------- MODULE CallbackCalls ----------------------------
(***************************************************************************)
(* Request functions and a live subscription on one session: subscribe()   *)
(* reads the queue until its user's function fails or R is interrupted,    *)
(* and that function may call bdp and the others, which read the same      *)
(* queue.  Each loop drops what is meant for the other.  After a failure   *)
(* the subscription runs on, and its messages meet the calls that follow.  *)
(* One subscription, one message an event (Subscribe has more of both); a  *)
(* subscribe() inside the user's function never returns to it in practice  *)
(* and is left out.                                                        *)
(***************************************************************************)
EXTENDS RequestCalls

CONSTANT MaxTicks   \* bound: messages of the subscription

ASSUME CallbackAssumption == MaxTicks \in Nat

VARIABLES
  loop,     \* subscribe(): "idle", "wait" (nextEvent) or "callback"
  live,     \* the library's side of the subscription exists
  ticks,    \* messages it has sent
  seen,     \* history: the last message handed to the user's function
  called    \* history: a request function ran since then

loopVars == <<loop, live, ticks, seen, called>>
allVars == <<vars, loopVars>>

LoopInit ==
  /\ loop = "idle" /\ live = FALSE
  /\ ticks = 0 /\ seen = 0
  /\ called = FALSE

Subscribe ==
  /\ pc = "idle" /\ loop = "idle"
  /\ ~live /\ ticks = 0
  /\ up
  /\ live' = TRUE
  /\ loop' = "wait"
  /\ UNCHANGED <<vars, ticks, seen, called>>

Tick ==
  /\ live /\ up
  /\ ticks < MaxTicks
  /\ ticks' = ticks + 1
  /\ queue' = Append(queue, SubscriptionData(ticks + 1))
  /\ UNCHANGED <<pending, lastId, up, callVars, loop, live, seen, called>>

\* Only subscription events go to the user's function.
ForUser_Newest(e) ==     \* mutant: skips a message when a newer one is waiting
  e.type = "SUBSCRIPTION_DATA" /\ \A i \in 2 .. Len(queue) : queue[i].type # "SUBSCRIPTION_DATA"
ForUser(e) == e.type = "SUBSCRIPTION_DATA"

\* The others are gone with the Event object.
AfterRead_Requeue == IF ForUser(Head(queue)) THEN Tail(queue)
                     ELSE Append(Tail(queue), Head(queue))          \* mutant: left for its reader
AfterRead == Tail(queue)

LoopReads ==
  /\ loop = "wait"
  /\ queue # <<>>
  /\ queue' = AfterRead
  /\ LET e == Head(queue) IN
       IF ForUser(e) THEN loop' = "callback" /\ seen' = e.part /\ called' = FALSE
       ELSE UNCHANGED <<loop, seen, called>>
  /\ UNCHANGED <<pending, lastId, up, callVars, live, ticks>>

\* checkUserInterrupt() after nextEvent(): the event is dropped, the
\* subscription ended.
LoopInterrupted ==
  /\ loop = "wait"
  /\ queue # <<>>
  /\ queue' = Tail(queue)
  /\ loop' = "idle" /\ live' = FALSE
  /\ UNCHANGED <<pending, lastId, up, callVars, ticks, seen, called>>

\* The user's function is done when the call it may have made is; a call that
\* stopped is an R error, which it may catch.
CallbackReturns ==
  /\ loop = "callback" /\ pc = "idle"
  /\ loop' = "wait"
  /\ UNCHANGED <<vars, live, ticks, seen, called>>

\* An R error ends subscribe() and leaves the subscription; an interrupt of the
\* user's function may end the subscription too (as in Subscribe).
CallbackFails ==
  /\ loop = "callback" /\ pc = "idle"
  /\ loop' = "idle"
  /\ live' \in {live, FALSE}
  /\ UNCHANGED <<vars, ticks, seen, called>>

\* R is single-threaded: a call is made between two subscribe() or inside the
\* user's function.
Call(c) ==
  /\ loop # "wait"
  /\ StartCall(c)
  /\ called' = TRUE
  /\ UNCHANGED <<loop, live, ticks, seen>>

Continue == (CallStep \/ TimeOut) /\ UNCHANGED loopVars

LoopStep == LoopReads \/ CallbackReturns \/ CallbackFails

SharedInit == Init /\ LoopInit

SharedNext ==
  \/ Subscribe \/ LoopStep \/ LoopInterrupted
  \/ Tick
  \/ \E c \in Calls : Call(c)
  \/ Continue
  \/ Service /\ UNCHANGED loopVars

SharedSpec == SharedInit /\ [][SharedNext]_allVars

\* As in RequestCalls; and the subscribe loop runs, its user's function ends.
FairSharedSpec ==
  /\ SharedSpec
  /\ WF_allVars(CallStep /\ UNCHANGED loopVars)
  /\ WF_allVars(Answer /\ UNCHANGED <<callVars, loopVars>>)
  /\ WF_allVars(LoopStep)

-----------------------------------------------------------------------------
\* Messages reach the user's function in order, and one is lost only to a
\* request function that read it from the queue: subscribe itself loses none.
TickLostOnlyToACall == [][seen' # seen => seen' > seen /\ (seen' = seen + 1 \/ called)]_allVars

\* A session that has fallen behind is mended by nothing but the subscribe loop,
\* which drops the answers nobody read; request functions, called in the user's
\* function or not, with messages between their answers or not, never mend it.
OnlySubscribeHeals == [][Behind' < Behind => loop = "wait"]_allVars

\* And there it is mended: a waiting subscribe loop drops all that is owed,
\* unless the user's function gets a message or an interrupt first.
WaitingHeals == (loop = "wait" /\ Owed # {}) ~> (Owed = {} \/ loop # "wait")

\* A call ends although messages of a subscription come between its answers.
CallEndsAmongTicks == pc = "wait" ~> pc = "idle"

\* What CallPromise says of the request functions holds of calls made inside a
\* user's function too, whatever messages come between their answers; subscribe
\* adds to it only that it may mend a session.
KeepsPromiseWhenShared == Promise!SharedSpec
=============================================================================
