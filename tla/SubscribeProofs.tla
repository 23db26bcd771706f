--------------------------- MODULE SubscribeProofs --------------------------
(***************************************************************************)
(* What subscribe() hands to the user's function: for any number of calls, *)
(* subscriptions and messages, and queues of any length.                   *)
(***************************************************************************)
EXTENDS Subscribe, TLAPS

\* The messages of an event and of a queue.
Of(s) == {s[j] : j \in DOMAIN s}
All(q) == UNION {Of(q[i]) : i \in DOMAIN q}
InLine == Of(hand) \cup All(queue)

\* Messages of one subscription keep their order.
Ahead(a, b) == a.cid = b.cid => a.n < b.n
Ordered(s) == \A j, l \in DOMAIN s : j < l => Ahead(s[j], s[l])
OrderedAll(q) ==
  /\ \A i \in DOMAIN q : Ordered(q[i])
  /\ \A i, k \in DOMAIN q : i < k => \A a \in Of(q[i]), b \in Of(q[k]) : Ahead(a, b)

\* What is about the running call has the security's place in its list.
Right(x) == x.sub = subs => x.cid + 1 \in DOMAIN securities /\ x.sec = securities[x.cid + 1]

Known ==
  /\ \A x \in active \cup InLine : x.sub <= subs /\ Right(x)
  /\ last.sub \in 0 .. subs
  /\ last.sub = subs => last.name = last.sec
  /\ pc = "wait" => hand = <<>>

OnlyOwn ==
  fresh => \A x \in active \cup InLine : x.sub = subs

\* All numbers from the one after the last seen to n are in line.
InLineTo(c, n) == \A k \in seen[c] + 1 .. n : \E x \in InLine : x.cid = c /\ x.n = k

InOrder ==
  fresh /\ pc # "idle" =>
    /\ DOMAIN seen = {Cid(i) : i \in DOMAIN securities}
    /\ \A c \in DOMAIN seen : seen[c] \in Nat
    /\ \A s, t \in active : s.cid = t.cid => s = t
    /\ Ordered(hand) /\ OrderedAll(queue)
    /\ \A a \in Of(hand), b \in All(queue) : Ahead(a, b)
    /\ \A x \in InLine : seen[x.cid] < x.n /\ InLineTo(x.cid, x.n)
    /\ \A s \in active : /\ seen[s.cid] <= s.n /\ InLineTo(s.cid, s.n)
                         /\ \A x \in InLine : x.cid = s.cid => x.n <= s.n

SubscribeInv ==
  /\ TypeOK
  /\ active \subseteq [sub : Nat, cid : Nat, sec : Securities, n : Nat]
  /\ Known
  /\ OnlyOwn
  /\ InOrder
  /\ InterruptUnsubscribes

-----------------------------------------------------------------------------
(* Messages in line *)

LEMMA AppendOne ==
  ASSUME NEW S, NEW s \in Seq(S), NEW x \in S
  PROVE  /\ Append(s, x) \in Seq(S) /\ Len(s) \in Nat
         /\ DOMAIN s = 1 .. Len(s) /\ DOMAIN Append(s, x) = 1 .. Len(s) + 1
         /\ \A i \in 1 .. Len(s) : Append(s, x)[i] = s[i]
         /\ Append(s, x)[Len(s) + 1] = x
  OBVIOUS

LEMMA TailOne ==
  ASSUME NEW S, NEW s \in Seq(S), s # <<>>
  PROVE  /\ Tail(s) \in Seq(S) /\ Len(s) \in Nat \ {0} /\ Head(s) \in S /\ Head(s) = s[1]
         /\ DOMAIN s = 1 .. Len(s) /\ DOMAIN Tail(s) = 1 .. Len(s) - 1
         /\ \A i \in 1 .. Len(s) - 1 : Tail(s)[i] = s[i + 1]
  OBVIOUS

\* One message more in an event,
LEMMA OfAppend ==
  ASSUME NEW S, NEW s \in Seq(S), NEW x \in S
  PROVE  /\ Of(Append(s, x)) = Of(s) \cup {x}
         /\ Ordered(s) /\ (\A a \in Of(s) : Ahead(a, x)) => Ordered(Append(s, x))
  <1>1. PICK n \in Nat : /\ n = Len(s) /\ DOMAIN s = 1 .. n /\ DOMAIN Append(s, x) = 1 .. n + 1
                         /\ \A i \in 1 .. n : Append(s, x)[i] = s[i]
                         /\ Append(s, x)[n + 1] = x
    BY AppendOne
  <1>2. Of(Append(s, x)) = Of(s) \cup {x}
    BY <1>1 DEF Of
  <1>3. ASSUME Ordered(s), \A a \in Of(s) : Ahead(a, x)
        PROVE  Ordered(Append(s, x))
    <2> SUFFICES ASSUME NEW j \in 1 .. n + 1, NEW l \in 1 .. n + 1, j < l
                 PROVE  Ahead(Append(s, x)[j], Append(s, x)[l])
      BY <1>1 DEF Ordered
    <2>1. j \in 1 .. n /\ Append(s, x)[j] = s[j] /\ s[j] \in Of(s)
      BY <1>1 DEF Of
    <2>2. CASE l = n + 1
      BY <1>1, <1>3, <2>1, <2>2
    <2>3. CASE l # n + 1
      BY <1>1, <1>3, <2>1, <2>3 DEF Ordered
    <2> QED BY <2>2, <2>3
  <1> QED BY <1>2, <1>3

\* or one less.
LEMMA OfTail ==
  ASSUME NEW S, NEW s \in Seq(S), s # <<>>
  PROVE  /\ Of(s) = {Head(s)} \cup Of(Tail(s))
         /\ Ordered(s) => Ordered(Tail(s)) /\ \A a \in Of(Tail(s)) : Ahead(Head(s), a)
  <1>1. PICK n \in Nat : /\ n + 1 = Len(s) /\ DOMAIN s = 1 .. n + 1 /\ DOMAIN Tail(s) = 1 .. n
                         /\ \A i \in 1 .. n : Tail(s)[i] = s[i + 1]
                         /\ Head(s) = s[1]
    <2>1. Len(s) - 1 \in Nat /\ (Len(s) - 1) + 1 = Len(s)
      BY TailOne
    <2> QED BY <2>1, TailOne
  <1>2. ASSUME NEW i \in 1 .. n + 1
        PROVE  s[i] \in {Head(s)} \cup Of(Tail(s))
    <2>1. i = 1 \/ (i - 1 \in 1 .. n /\ Tail(s)[i - 1] = s[i])
      BY <1>1
    <2> QED BY <1>1, <2>1 DEF Of
  <1>3. Of(s) = {Head(s)} \cup Of(Tail(s))
    BY <1>1, <1>2 DEF Of
  <1>4. Ordered(s) => Ordered(Tail(s)) /\ \A a \in Of(Tail(s)) : Ahead(Head(s), a)
    BY <1>1 DEF Ordered, Of
  <1> QED BY <1>3, <1>4

\* The library queues one event more,
LEMMA AllAppend ==
  ASSUME NEW S, NEW q \in Seq(Seq(S)), NEW e \in Seq(S)
  PROVE  /\ All(Append(q, e)) = All(q) \cup Of(e)
         /\ OrderedAll(q) /\ Ordered(e) /\ (\A a \in All(q), b \in Of(e) : Ahead(a, b)) =>
              OrderedAll(Append(q, e))
  <1> DEFINE r == Append(q, e)
  <1>1. PICK n \in Nat : /\ DOMAIN q = 1 .. n /\ DOMAIN r = 1 .. n + 1
                         /\ \A i \in 1 .. n : r[i] = q[i]
                         /\ r[n + 1] = e
    BY AppendOne
  <1> HIDE DEF r
  <1>2. All(r) = All(q) \cup Of(e)
    <2>1. \A i \in 1 .. n + 1 : (i \in 1 .. n /\ Of(r[i]) = Of(q[i])) \/ (i = n + 1 /\ Of(r[i]) = Of(e))
      BY <1>1
    <2> QED BY <1>1, <2>1 DEF All
  <1>3. ASSUME OrderedAll(q), Ordered(e), \A a \in All(q), b \in Of(e) : Ahead(a, b)
        PROVE  OrderedAll(r)
    <2>1. \A i \in DOMAIN r : Ordered(r[i])
      BY <1>1, <1>3 DEF OrderedAll
    <2>2. ASSUME NEW i \in DOMAIN r, NEW k \in DOMAIN r, i < k, NEW a \in Of(r[i]), NEW b \in Of(r[k])
          PROVE  Ahead(a, b)
      <3>1. i \in 1 .. n /\ a \in Of(q[i]) /\ a \in All(q)
        BY <1>1, <2>2 DEF All
      <3>2. CASE k = n + 1
        BY <1>1, <1>3, <2>2, <3>1, <3>2
      <3>3. CASE k # n + 1
        BY <1>1, <1>3, <2>2, <3>1, <3>3 DEF OrderedAll
      <3> QED BY <3>2, <3>3
    <2> QED BY <2>1, <2>2 DEF OrderedAll
  <1> QED BY <1>2, <1>3 DEF r

\* or lets the last take one message more,
LEMMA AllGrow ==
  ASSUME NEW S, NEW q \in Seq(Seq(S)), q # <<>>, NEW x \in S,
         NEW r \in Seq(Seq(S)), DOMAIN r = DOMAIN q, r[Len(q)] = Append(q[Len(q)], x),
         \A i \in DOMAIN q : i # Len(q) => r[i] = q[i]
  PROVE  /\ All(r) = All(q) \cup {x}
         /\ OrderedAll(q) /\ (\A a \in All(q) : Ahead(a, x)) => OrderedAll(r)
  <1>1. PICK n \in Nat \ {0} : n = Len(q) /\ DOMAIN q = 1 .. n /\ q[n] \in Seq(S)
    BY TailOne
  <1>2. /\ r \in Seq(Seq(S)) /\ DOMAIN r = 1 .. n /\ r[n] = Append(q[n], x)
        /\ \A i \in 1 .. n : i # n => r[i] = q[i]
    BY <1>1
  <1>a. /\ Of(Append(q[n], x)) = Of(q[n]) \cup {x}
        /\ Ordered(q[n]) /\ (\A a \in Of(q[n]) : Ahead(a, x)) => Ordered(Append(q[n], x))
    BY <1>1, OfAppend
  <1>3. Of(r[n]) = Of(q[n]) \cup {x}
    BY <1>2, <1>a, Zenon
  <1>4. All(r) = All(q) \cup {x}
    <2>1. \A i \in 1 .. n : Of(q[i]) \subseteq Of(r[i]) /\ Of(r[i]) \subseteq Of(q[i]) \cup {x}
      BY <1>2, <1>3
    <2>2. x \in Of(r[n]) /\ n \in 1 .. n
      BY <1>3
    <2>3. All(r) \subseteq All(q) \cup {x}
      BY <1>1, <1>2, <2>1 DEF All
    <2>4. All(q) \cup {x} \subseteq All(r)
      <3>1. x \in All(r)
        BY <1>2, <2>2 DEF All
      <3>2. All(q) \subseteq All(r)
        BY <1>1, <1>2, <2>1 DEF All
      <3> QED BY <3>1, <3>2
    <2> QED BY <2>3, <2>4
  <1>5. ASSUME OrderedAll(q), \A a \in All(q) : Ahead(a, x)
        PROVE  OrderedAll(r)
    <2>1. \A i \in 1 .. n : \A a \in Of(q[i]) : a \in All(q)
      BY <1>1 DEF All
    <2>2. Ordered(r[n])
      <3>1. n \in 1 .. n /\ Ordered(q[n])
        BY <1>1, <1>5 DEF OrderedAll
      <3>2. \A a \in Of(q[n]) : Ahead(a, x)
        BY <1>5, <2>1, <3>1
      <3> QED BY <1>2, <1>a, <3>1, <3>2, Zenon
    <2>3. \A i \in 1 .. n : Ordered(r[i])
      BY <1>1, <1>2, <1>5, <2>2 DEF OrderedAll
    <2>4. ASSUME NEW i \in 1 .. n, NEW k \in 1 .. n, i < k, NEW a \in Of(r[i]), NEW b \in Of(r[k])
          PROVE  Ahead(a, b)
      <3>1. i # n /\ a \in Of(q[i]) /\ a \in All(q)
        BY <1>2, <2>1, <2>4, SMTT(20)
      <3>2. b \in Of(q[k]) \/ b = x
        BY <1>2, <1>3, <2>4
      <3> QED BY <1>1, <1>5, <2>4, <3>1, <3>2 DEF OrderedAll
    <2> QED BY <1>2, <2>3, <2>4 DEF OrderedAll
  <1> QED BY <1>2, <1>4, <1>5

\* and nextEvent() takes the first.
LEMMA AllTail ==
  ASSUME NEW S, NEW q \in Seq(Seq(S)), q # <<>>
  PROVE  /\ All(q) = Of(Head(q)) \cup All(Tail(q))
         /\ OrderedAll(q) => /\ Ordered(Head(q)) /\ OrderedAll(Tail(q))
                             /\ \A a \in Of(Head(q)), b \in All(Tail(q)) : Ahead(a, b)
  <1>1. PICK n \in Nat : /\ n + 1 = Len(q) /\ DOMAIN q = 1 .. n + 1 /\ DOMAIN Tail(q) = 1 .. n
                         /\ \A i \in 1 .. n : Tail(q)[i] = q[i + 1]
                         /\ Head(q) = q[1]
    <2>1. Len(q) - 1 \in Nat /\ (Len(q) - 1) + 1 = Len(q)
      BY TailOne
    <2> QED BY <2>1, TailOne
  <1>2. All(q) = Of(Head(q)) \cup All(Tail(q))
    <2>1. \A i \in 1 .. n : i + 1 \in 1 .. n + 1 /\ Of(Tail(q)[i]) = Of(q[i + 1])
      BY <1>1
    <2>2. \A i \in 1 .. n + 1 : i = 1 \/ (i - 1 \in 1 .. n /\ Of(q[i]) = Of(Tail(q)[i - 1]))
      BY <1>1
    <2>3. 1 \in 1 .. n + 1
      OBVIOUS
    <2>4. All(q) \subseteq Of(Head(q)) \cup All(Tail(q))
      BY <1>1, <2>2 DEF All
    <2>5. Of(Head(q)) \cup All(Tail(q)) \subseteq All(q)
      BY <1>1, <2>1, <2>3 DEF All
    <2> QED BY <2>4, <2>5
  <1>3. ASSUME OrderedAll(q)
        PROVE  /\ Ordered(Head(q)) /\ OrderedAll(Tail(q))
               /\ \A a \in Of(Head(q)), b \in All(Tail(q)) : Ahead(a, b)
    <2>1. Ordered(Head(q)) /\ OrderedAll(Tail(q))
      <3>1. /\ \A i \in 1 .. n + 1 : Ordered(q[i])
            /\ \A i, k \in 1 .. n + 1 : i < k => \A a \in Of(q[i]), b \in Of(q[k]) : Ahead(a, b)
        BY <1>1, <1>3 DEF OrderedAll
      <3>2. \A i \in 1 .. n : Ordered(Tail(q)[i])
        BY <1>1, <3>1
      <3>3. ASSUME NEW i \in 1 .. n, NEW k \in 1 .. n, i < k
            PROVE  \A a \in Of(Tail(q)[i]), b \in Of(Tail(q)[k]) : Ahead(a, b)
        <4>1. i + 1 \in 1 .. n + 1 /\ k + 1 \in 1 .. n + 1 /\ i + 1 < k + 1
          BY <3>3
        <4> QED BY <1>1, <3>1, <4>1
      <3>4. 1 \in 1 .. n + 1
        OBVIOUS
      <3> QED BY <1>1, <3>1, <3>2, <3>3, <3>4 DEF OrderedAll
    <2>2. ASSUME NEW a \in Of(Head(q)), NEW b \in All(Tail(q))
          PROVE  Ahead(a, b)
      <3>1. PICK i \in 1 .. n : b \in Of(Tail(q)[i])
        BY <1>1 DEF All
      <3> QED BY <1>1, <1>3, <3>1 DEF OrderedAll
    <2> QED BY <2>1, <2>2
  <1> QED BY <1>2, <1>3

-----------------------------------------------------------------------------
(* What each step does to the messages in line *)

LEMMA InvParts ==
  ASSUME SubscribeInv
  PROVE  /\ TypeOK /\ Known /\ OnlyOwn /\ InOrder
         /\ active \subseteq [sub : Nat, cid : Nat, sec : Securities, n : Nat]
         /\ queue \in Seq(Seq(Messages)) /\ hand \in Seq(Messages) /\ securities \in Seq(Securities)
         /\ subs \in Nat /\ fresh \in BOOLEAN
         /\ Of(hand) \subseteq Messages /\ All(queue) \subseteq Messages
         /\ \A x \in InLine : x.cid \in Nat /\ x.n \in Nat /\ x.sub \in Nat
         /\ pc \in {"idle", "wait", "check", "deliver", "callback"}
  <1>1. /\ queue \in Seq(Seq(Messages)) /\ hand \in Seq(Messages) /\ securities \in Seq(Securities)
        /\ subs \in Nat /\ fresh \in BOOLEAN /\ MaxSubs \in Nat /\ MaxTicks \in Nat
        /\ pc \in {"idle", "wait", "check", "deliver", "callback"}
    BY SubscribeAssumption DEF SubscribeInv, TypeOK
  <1>2. Of(hand) \subseteq Messages
    BY <1>1 DEF Of
  <1>3. ASSUME NEW i \in DOMAIN queue
        PROVE  Of(queue[i]) \subseteq Messages
    <2>1. queue[i] \in Seq(Messages)
      BY <1>1
    <2> QED BY <2>1 DEF Of
  <1>4. All(queue) \subseteq Messages
    BY <1>3 DEF All
  <1>5. \A x \in Messages : x.cid \in Nat /\ x.n \in Nat /\ x.sub \in Nat
    BY <1>1 DEF Messages
  <1> QED BY <1>1, <1>2, <1>4, <1>5 DEF SubscribeInv, InLine

\* A step that hands nothing over leaves what is in line alone, or the call ends,
\* after an interrupt without its subscriptions.
LEMMA QuietKeeps ==
  ASSUME SubscribeInv, UNCHANGED <<queue, securities, subs, fresh, seen, last>>,
         active' = active \/ (active' = Unsubscribe /\ pc' = "idle"),
         hand' = hand \/ (hand' = <<>> /\ pc' = "idle"),
         pc' \in {"idle", "wait", "check", "deliver", "callback"}, pc = "idle" => pc' = "idle",
         pc' = "wait" => hand' = <<>>, pc' = "deliver" => hand' # <<>>,
         interrupted' \in BOOLEAN, outcome' \in {"none", "interrupt", "error"},
         outcome' = "interrupt" => (outcome = "interrupt" /\ active' = active) \/ active' = Unsubscribe
  PROVE  SubscribeInv'
  <1>1. active' \subseteq active /\ hand' \in Seq(Messages) /\ InLine' \subseteq InLine
    <2>1. Of(<<>>) = {} /\ <<>> \in Seq(Messages)
      BY DEF Of
    <2>2. Of(hand') \subseteq Of(hand) /\ All(queue') = All(queue)
      BY <2>1
    <2> QED BY <2>1, <2>2, InvParts DEF Unsubscribe, InLine
  <1>2. TypeOK'
    BY <1>1 DEF SubscribeInv, TypeOK
  <1>3. Known'
    BY <1>1, InvParts DEF Known, Right
  <1>4. OnlyOwn'
    BY <1>1, InvParts DEF OnlyOwn
  <1>5. InOrder'
    <2>1. pc' # "idle" => pc # "idle" /\ UNCHANGED <<active, hand, InLine>>
      BY DEF InLine
    <2> QED BY <2>1, InvParts DEF InOrder, InLineTo
  <1>6. InterruptUnsubscribes'
    <2>1. ASSUME NEW s \in Unsubscribe
          PROVE  s.sub # subs
      <3>1. s.cid \in Nat /\ s \in active /\ s.cid \notin {Cid(i) : i \in DOMAIN securities}
        BY InvParts DEF Unsubscribe
      <3>2. s.sub = subs => s.cid + 1 \in DOMAIN securities
        BY <3>1, InvParts DEF Known, Right
      <3>3. Cid(s.cid + 1) = s.cid
        BY <3>1 DEF Cid
      <3> QED BY <3>1, <3>2, <3>3
    <2> QED BY <2>1 DEF SubscribeInv, InterruptUnsubscribes
  <1> QED BY <1>1, <1>2, <1>3, <1>4, <1>5, <1>6, InvParts DEF SubscribeInv

LEMMA NextEventKeeps ==
  ASSUME SubscribeInv, NextEvent
  PROVE  SubscribeInv'
  <1>1. /\ pc = "wait" /\ pc' = "check" /\ queue # <<>> /\ hand' = Head(queue) /\ queue' = Tail(queue)
        /\ UNCHANGED <<active, interrupted, securities, outcome, subs, fresh, seen, last>>
    BY DEF NextEvent
  <1>2. hand = <<>> /\ Of(hand) = {}
    BY <1>1, InvParts DEF Known, Of
  <1>3. hand' \in Seq(Messages) /\ queue' \in Seq(Seq(Messages))
    BY <1>1, InvParts, TailOne
  <1>4. All(queue) = Of(hand') \cup All(queue') /\ InLine' = InLine
    BY <1>1, <1>2, InvParts, AllTail DEF InLine
  <1>5. TypeOK'
    BY <1>1, <1>3 DEF SubscribeInv, TypeOK
  <1>6. Known' /\ OnlyOwn'
    BY <1>1, <1>4, InvParts DEF Known, Right, OnlyOwn
  <1>7. InOrder'
    <2>1. OrderedAll(queue) => /\ Ordered(hand') /\ OrderedAll(queue')
                               /\ \A a \in Of(hand'), b \in All(queue') : Ahead(a, b)
      BY <1>1, InvParts, AllTail
    <2> QED BY <1>1, <1>4, <2>1, InvParts DEF InOrder, InLineTo
  <1> QED BY <1>1, <1>5, <1>6, <1>7 DEF SubscribeInv, InterruptUnsubscribes

\* The message handed over is the next of its subscription, and its name right.
LEMMA DeliverKeeps ==
  ASSUME SubscribeInv, Deliver
  PROVE  /\ SubscribeInv'
         /\ fresh => Head(hand).n = seen[Head(hand).cid] + 1
         /\ Head(hand) \in InLine /\ last'.sub = Head(hand).sub
         /\ InLine' \subseteq InLine
  <1> DEFINE m == Head(hand)
  <1>1. /\ pc = "deliver" /\ pc' = "callback" /\ hand' = Tail(hand)
        /\ last' = [sub |-> m.sub, name |-> NameOf(m.cid), sec |-> m.sec]
        /\ seen' = IF m.cid \in DOMAIN seen THEN [seen EXCEPT ![m.cid] = m.n] ELSE seen
        /\ UNCHANGED <<active, queue, interrupted, securities, outcome, subs, fresh>>
    BY DEF Deliver, Rest, libVars
  <1>2. hand # <<>> /\ hand \in Seq(Messages)
    BY <1>1, InvParts DEF TypeOK
  <1>3. m \in Messages /\ hand' \in Seq(Messages) /\ Of(hand) = {m} \cup Of(hand')
    BY <1>1, <1>2, TailOne, OfTail
  <1> HIDE DEF m
  <1>4. InLine = {m} \cup InLine' /\ m \in InLine /\ m.cid \in Nat /\ m.n \in Nat /\ m.sub \in Nat
    <2>1. InLine = {m} \cup InLine'
      BY <1>1, <1>3 DEF InLine
    <2> QED BY <2>1, InvParts
  <1>5. TypeOK'
    BY <1>1, <1>3 DEF SubscribeInv, TypeOK
  <1>6. Known'
    <2>1. m.sub <= subs /\ Right(m)
      BY <1>4, InvParts DEF Known
    <2>2. m.sub = subs => NameOf(m.cid) = m.sec
      <3>1. m.sub = subs => m.cid + 1 \in DOMAIN securities /\ m.sec = securities[m.cid + 1]
        BY <2>1 DEF Right
      <3> QED BY <1>4, <3>1, InvParts DEF NameOf
    <2> QED BY <1>1, <1>4, <2>1, <2>2, InvParts DEF Known, Right
  <1>7. OnlyOwn'
    BY <1>1, <1>4, InvParts DEF OnlyOwn
  <1>8. ASSUME fresh
        PROVE  m.n = seen[m.cid] + 1 /\ InOrder'
    <2>1. /\ DOMAIN seen = {Cid(i) : i \in DOMAIN securities}
          /\ \A c \in DOMAIN seen : seen[c] \in Nat
          /\ \A s, t \in active : s.cid = t.cid => s = t
          /\ Ordered(hand) /\ OrderedAll(queue)
          /\ \A a \in Of(hand), b \in All(queue) : Ahead(a, b)
          /\ \A x \in InLine : seen[x.cid] < x.n /\ InLineTo(x.cid, x.n)
          /\ \A s \in active : /\ seen[s.cid] <= s.n /\ InLineTo(s.cid, s.n)
                               /\ \A x \in InLine : x.cid = s.cid => x.n <= s.n
      BY <1>1, <1>8, InvParts DEF InOrder
    <2>2. \A x \in active \cup InLine : x.cid \in DOMAIN seen /\ seen[x.cid] \in Nat /\ x.cid \in Nat /\ x.n \in Nat
      <3>1. \A x \in active \cup InLine : x.cid \in Nat /\ x.n \in Nat /\ x.cid + 1 \in DOMAIN securities
        BY <1>8, InvParts DEF OnlyOwn, Known, Right
      <3>2. \A c \in Nat : Cid(c + 1) = c
        BY DEF Cid
      <3> QED BY <2>1, <3>1, <3>2
    <2>3. Ordered(hand') /\ \A a \in Of(hand') : Ahead(m, a)
      BY <1>1, <1>2, <2>1, OfTail DEF m
    <2>4. \A x \in InLine' : x.cid = m.cid => m.n < x.n
      <3>1. m \in Of(hand)
        BY <1>3
      <3> QED BY <1>1, <2>1, <2>3, <3>1 DEF InLine, Ahead
    <2>5. m.n = seen[m.cid] + 1
      <3> DEFINE k == seen[m.cid] + 1
      <3>1. k \in Nat /\ k <= m.n /\ k \in seen[m.cid] + 1 .. m.n
        BY <1>4, <2>1, <2>2
      <3>2. PICK x \in InLine : x.cid = m.cid /\ x.n = k
        BY <1>4, <2>1, <3>1 DEF InLineTo
      <3> HIDE DEF k
      <3>3. x = m
        BY <1>4, <2>4, <3>1, <3>2
      <3> QED BY <3>2, <3>3 DEF k
    <2>6. /\ DOMAIN seen' = DOMAIN seen /\ seen'[m.cid] = m.n
          /\ \A c \in DOMAIN seen : c # m.cid => seen'[c] = seen[c]
      BY <1>1, <1>4, <2>2
    <2>7. ASSUME NEW c \in DOMAIN seen, NEW n \in Nat, InLineTo(c, n)
          PROVE  InLineTo(c, n)'
      <3> SUFFICES ASSUME NEW k \in seen'[c] + 1 .. n
                   PROVE  \E x \in InLine' : x.cid = c /\ x.n = k
        BY DEF InLineTo
      <3>1. seen[c] \in Nat /\ seen'[c] \in Nat /\ k \in seen[c] + 1 .. n
        BY <1>4, <2>1, <2>5, <2>6
      <3>2. PICK x \in InLine : x.cid = c /\ x.n = k
        BY <2>7, <3>1 DEF InLineTo
      <3>3. x # m
        BY <1>4, <2>6, <3>1, <3>2
      <3> QED BY <1>4, <3>2, <3>3
    <2>8. \A x \in InLine' : seen'[x.cid] < x.n
      BY <1>4, <2>1, <2>2, <2>4, <2>6
    <2>9. \A s \in active : seen'[s.cid] <= s.n
      BY <1>4, <2>1, <2>2, <2>6
    <2>10. \A x \in InLine' : InLineTo(x.cid, x.n)'
      BY <1>4, <2>1, <2>2, <2>7
    <2>11. \A s \in active : InLineTo(s.cid, s.n)'
      BY <2>1, <2>2, <2>7
    <2>12. InOrder'
      BY <1>1, <1>3, <1>4, <2>1, <2>2, <2>3, <2>5, <2>6, <2>8, <2>9, <2>10, <2>11 DEF InOrder
    <2> QED BY <2>5, <2>12
  <1>9. InOrder'
    BY <1>1, <1>8, InvParts DEF InOrder
  <1>10. InterruptUnsubscribes'
    BY <1>1 DEF SubscribeInv, InterruptUnsubscribes
  <1>11. active' \subseteq [sub : Nat, cid : Nat, sec : Securities, n : Nat]
    BY <1>1, InvParts
  <1>12. SubscribeInv'
    BY <1>5, <1>6, <1>7, <1>9, <1>10, <1>11 DEF SubscribeInv
  <1> QED BY <1>1, <1>4, <1>8, <1>12 DEF m

LEMMA OtherEventKeeps ==
  ASSUME SubscribeInv, OtherEvent
  PROVE  SubscribeInv' /\ InLine' = InLine
  <1>1. queue' = Append(queue, <<>>) /\ UNCHANGED <<active, interrupted, callVars>>
    BY DEF OtherEvent
  <1>2. UNCHANGED <<pc, securities, hand, outcome, subs, fresh, seen, last>>
    BY <1>1 DEF callVars
  <1>3. <<>> \in Seq(Messages) /\ Of(<<>>) = {} /\ Ordered(<<>>)
    BY DEF Of, Ordered
  <1>4. queue' \in Seq(Seq(Messages)) /\ All(queue') = All(queue) /\ InLine' = InLine
    <2>1. queue' \in Seq(Seq(Messages))
      BY <1>1, <1>3, InvParts, AppendOne
    <2>2. All(queue') = All(queue)
      BY <1>1, <1>3, InvParts, AllAppend
    <2> QED BY <1>2, <2>1, <2>2 DEF InLine
  <1>5. OrderedAll(queue) => OrderedAll(queue')
    BY <1>1, <1>3, InvParts, AllAppend
  <1>6. TypeOK'
    BY <1>1, <1>2, <1>4 DEF SubscribeInv, TypeOK
  <1>7. Known' /\ OnlyOwn'
    BY <1>1, <1>2, <1>4, InvParts DEF Known, Right, OnlyOwn
  <1>8. InOrder'
    BY <1>1, <1>2, <1>4, <1>5, InvParts DEF InOrder, InLineTo
  <1> QED BY <1>1, <1>2, <1>4, <1>6, <1>7, <1>8 DEF SubscribeInv, InterruptUnsubscribes

\* A message is queued behind those of its subscription.
LEMMA TickAdds ==
  ASSUME SubscribeInv, Tick
  PROVE  \E s \in active, m \in Messages :
           /\ m.sub = s.sub /\ m.cid = s.cid /\ m.sec = s.sec /\ m.n = s.n + 1 /\ s.n < MaxTicks
           /\ active' = active \ {s} \/ active' = (active \ {s}) \cup {[s EXCEPT !.n = @ + 1]}
           /\ queue' \in Seq(Seq(Messages)) /\ All(queue') = All(queue) \cup {m}
           /\ OrderedAll(queue) /\ (\A a \in All(queue) : Ahead(a, m)) => OrderedAll(queue')
  <1> DEFINE M(s) == [sub |-> s.sub, cid |-> s.cid, sec |-> s.sec, n |-> s.n + 1]
  <1>1. PICK s \in active :
          /\ s.n < MaxTicks
          /\ \/ queue' = Append(queue, <<M(s)>>)
             \/ queue # <<>> /\ queue' = [queue EXCEPT ![Len(queue)] = Append(@, M(s))]
          /\ active' = active \ {s} \/ active' = (active \ {s}) \cup {[s EXCEPT !.n = @ + 1]}
    BY DEF Tick
  <1>2. PICK m : m = M(s)
    OBVIOUS
  <1>3. m.sub = s.sub /\ m.cid = s.cid /\ m.sec = s.sec /\ m.n = s.n + 1 /\ m \in Messages
    <2>1. /\ s.sub \in 1 .. MaxSubs /\ s.cid \in Nat /\ s.sec \in Securities /\ s.n + 1 \in 1 .. MaxTicks
      BY <1>1, SubscribeAssumption, SMTT(20) DEF SubscribeInv, TypeOK
    <2> QED BY <1>2, <2>1 DEF Messages
  <1>4. CASE queue' = Append(queue, <<M(s)>>)
    <2>1. <<m>> \in Seq(Messages) /\ Of(<<m>>) = {m} /\ Ordered(<<m>>) /\ queue' = Append(queue, <<m>>)
      BY <1>2, <1>3, <1>4 DEF Of, Ordered
    <2> HIDE DEF M
    <2>2. /\ queue' \in Seq(Seq(Messages)) /\ All(queue') = All(queue) \cup {m}
          /\ OrderedAll(queue) /\ (\A a \in All(queue) : Ahead(a, m)) => OrderedAll(queue')
      <3>1. queue \in Seq(Seq(Messages))
        BY InvParts
      <3>2. queue' \in Seq(Seq(Messages))
        BY <2>1, <3>1
      <3>3. PICK e \in Seq(Messages) : Of(e) = {m} /\ Ordered(e) /\ queue' = Append(queue, e)
        BY <2>1
      <3>4. /\ All(queue') = All(queue) \cup {m}
            /\ OrderedAll(queue) /\ (\A a \in All(queue), b \in Of(e) : Ahead(a, b)) => OrderedAll(queue')
        BY <3>1, <3>3, AllAppend
      <3> QED BY <3>2, <3>3, <3>4
    <2> QED BY <1>1, <1>3, <2>2
  <1>5. CASE queue # <<>> /\ queue' = [queue EXCEPT ![Len(queue)] = Append(@, M(s))]
    <2>1. /\ queue' \in Seq(Seq(Messages)) /\ All(queue') = All(queue) \cup {m}
          /\ OrderedAll(queue) /\ (\A a \in All(queue) : Ahead(a, m)) => OrderedAll(queue')
      <3>1. PICK n \in Nat \ {0} : n = Len(queue) /\ DOMAIN queue = 1 .. n /\ queue[n] \in Seq(Messages)
        BY <1>5, InvParts, TailOne
      <3>2. queue # <<>> /\ queue' = [queue EXCEPT ![n] = Append(@, m)]
        BY <1>2, <1>5, <3>1
      <3>3. /\ queue' \in Seq(Seq(Messages)) /\ DOMAIN queue' = DOMAIN queue
            /\ queue'[n] = Append(queue[n], m)
            /\ \A i \in DOMAIN queue : i # n => queue'[i] = queue[i]
        BY <1>3, <3>1, <3>2, InvParts
      <3>4. /\ queue \in Seq(Seq(Messages)) /\ queue # <<>>
            /\ queue'[Len(queue)] = Append(queue[Len(queue)], m)
            /\ \A i \in DOMAIN queue : i # Len(queue) => queue'[i] = queue[i]
        BY <1>5, <3>1, <3>3, InvParts, Zenon
      <3>5. PICK q, r : q = queue /\ r = queue'
        OBVIOUS
      <3>6. /\ q \in Seq(Seq(Messages)) /\ q # <<>> /\ m \in Messages
            /\ r \in Seq(Seq(Messages)) /\ DOMAIN r = DOMAIN q
            /\ r[Len(q)] = Append(q[Len(q)], m)
            /\ \A i \in DOMAIN q : i # Len(q) => r[i] = q[i]
        BY <1>3, <3>3, <3>4, <3>5
      <3>7. /\ All(r) = All(q) \cup {m}
            /\ OrderedAll(q) /\ (\A a \in All(q) : Ahead(a, m)) => OrderedAll(r)
        BY <3>6, AllGrow
      <3> QED BY <3>3, <3>5, <3>7
    <2> QED BY <1>1, <1>3, <2>1
  <1> QED BY <1>1, <1>4, <1>5

LEMMA TickKeeps ==
  ASSUME SubscribeInv, Tick
  PROVE  /\ SubscribeInv'
         /\ \A x \in active' \cup InLine' : \E y \in active \cup InLine : x.sub = y.sub
  <1>1. PICK s \in active, m \in Messages :
           /\ m.sub = s.sub /\ m.cid = s.cid /\ m.sec = s.sec /\ m.n = s.n + 1 /\ s.n < MaxTicks
           /\ active' = active \ {s} \/ active' = (active \ {s}) \cup {[s EXCEPT !.n = @ + 1]}
           /\ queue' \in Seq(Seq(Messages)) /\ All(queue') = All(queue) \cup {m}
           /\ OrderedAll(queue) /\ (\A a \in All(queue) : Ahead(a, m)) => OrderedAll(queue')
    BY TickAdds
  <1>2. UNCHANGED <<interrupted, pc, securities, hand, outcome, subs, fresh, seen, last>>
    BY DEF Tick, callVars
  <1>3. InLine' = InLine \cup {m} /\ All(queue) \subseteq InLine
    BY <1>1, <1>2 DEF InLine
  <1> DEFINE t == [s EXCEPT !.n = @ + 1]
  <1>4. /\ t.sub = s.sub /\ t.cid = s.cid /\ t.sec = s.sec /\ t.n = s.n + 1
        /\ t \in [sub : Nat, cid : Nat, sec : Securities, n : Nat] /\ s.n \in Nat /\ s.cid \in Nat
    <2>1. s \in [sub : Nat, cid : Nat, sec : Securities, n : Nat]
      BY InvParts
    <2> QED BY <2>1
  <1>5. \A x \in active' : (x \in active /\ x # s) \/ x = t
    BY <1>1
  <1> HIDE DEF t
  <1>6. TypeOK'
    <2>1. \A x \in active' : x.sub \in 1 .. subs /\ x.cid \in Nat /\ x.sec \in Securities /\ x.n \in 0 .. MaxTicks
      <3>1. t.sub \in 1 .. subs /\ t.cid \in Nat /\ t.sec \in Securities /\ t.n \in 0 .. MaxTicks
        BY <1>1, <1>4, SubscribeAssumption DEF SubscribeInv, TypeOK
      <3> QED BY <1>5, <3>1 DEF SubscribeInv, TypeOK
    <2> QED BY <1>1, <1>2, <2>1 DEF SubscribeInv, TypeOK
  <1>7. Known' /\ OnlyOwn'
    BY <1>1, <1>2, <1>3, <1>4, <1>5, InvParts, SMTT(20) DEF Known, Right, OnlyOwn
  <1>8. ASSUME fresh, pc # "idle"
        PROVE  InOrder'
    <2>1. /\ DOMAIN seen = {Cid(i) : i \in DOMAIN securities}
          /\ \A c \in DOMAIN seen : seen[c] \in Nat
          /\ \A x, y \in active : x.cid = y.cid => x = y
          /\ Ordered(hand) /\ OrderedAll(queue)
          /\ \A a \in Of(hand), b \in All(queue) : Ahead(a, b)
          /\ \A x \in InLine : seen[x.cid] < x.n /\ InLineTo(x.cid, x.n)
          /\ \A x \in active : /\ seen[x.cid] <= x.n /\ InLineTo(x.cid, x.n)
                               /\ \A y \in InLine : y.cid = x.cid => y.n <= x.n
      BY <1>8, InvParts DEF InOrder
    <2>2. seen[s.cid] \in Nat
      <3>1. s.cid + 1 \in DOMAIN securities
        BY <1>8, InvParts DEF OnlyOwn, Known, Right
      <3>2. Cid(s.cid + 1) = s.cid
        BY <1>4 DEF Cid
      <3> QED BY <2>1, <3>1, <3>2
    <2>3. \A a \in InLine : Ahead(a, m)
      BY <1>1, <1>4, <2>1, InvParts DEF Ahead
    <2>4. OrderedAll(queue') /\ \A a \in Of(hand), b \in All(queue') : Ahead(a, b)
      BY <1>1, <1>3, <2>1, <2>3 DEF InLine
    <2>5. \A c, n : InLineTo(c, n) => InLineTo(c, n)'
      BY <1>2, <1>3 DEF InLineTo
    <2>6. InLineTo(s.cid, s.n + 1)'
      <3> SUFFICES ASSUME NEW k \in seen[s.cid] + 1 .. s.n + 1
                   PROVE  \E x \in InLine' : x.cid = s.cid /\ x.n = k
        BY <1>2 DEF InLineTo
      <3>1. CASE k = s.n + 1
        BY <1>1, <1>3, <3>1
      <3>2. CASE k # s.n + 1
        <4>1. k \in seen[s.cid] + 1 .. s.n
          BY <1>4, <2>2, <3>2
        <4> QED BY <1>3, <2>1, <4>1 DEF InLineTo
      <3> QED BY <3>1, <3>2
    <2>7. seen[s.cid] < s.n + 1
      BY <1>4, <2>1, <2>2
    <2>8. \A x \in InLine' : seen'[x.cid] < x.n
      BY <1>1, <1>2, <1>3, <2>1, <2>7
    <2>9. \A x \in InLine' : InLineTo(x.cid, x.n)'
      <3>1. InLineTo(m.cid, m.n)'
        BY <1>1, <2>6
      <3> QED BY <1>3, <2>1, <2>5, <3>1
    <2>10. ASSUME NEW x \in active'
           PROVE  /\ seen'[x.cid] <= x.n /\ InLineTo(x.cid, x.n)'
                  /\ \A y \in InLine' : y.cid = x.cid => y.n <= x.n
      <3>1. CASE x \in active /\ x # s
        <4>1. InLineTo(x.cid, x.n)'
          BY <2>1, <2>5, <3>1
        <4>2. x.cid # s.cid
          BY <2>1, <3>1
        <4> QED BY <1>1, <1>2, <1>3, <2>1, <3>1, <4>1, <4>2
      <3>2. CASE x = t
        <4>1. InLineTo(x.cid, x.n)'
          BY <1>4, <2>6, <3>2
        <4>2. \A y \in InLine' : y.cid = s.cid => y.n <= s.n + 1
          BY <1>1, <1>3, <1>4, <2>1, InvParts
        <4> QED BY <1>2, <1>4, <2>2, <2>7, <3>2, <4>1, <4>2
      <3> QED BY <1>5, <3>1, <3>2
    <2>11. \A x, y \in active' : x.cid = y.cid => x = y
      BY <1>4, <1>5, <2>1
    <2> QED BY <1>2, <2>1, <2>4, <2>8, <2>9, <2>10, <2>11 DEF InOrder
  <1>9. InOrder'
    BY <1>2, <1>8 DEF InOrder
  <1>10. InterruptUnsubscribes'
    BY <1>2, <1>4, <1>5 DEF SubscribeInv, InterruptUnsubscribes
  <1>11. active' \subseteq [sub : Nat, cid : Nat, sec : Securities, n : Nat]
    BY <1>4, <1>5, InvParts
  <1>12. \A x \in active' \cup InLine' : \E y \in active \cup InLine : x.sub = y.sub
    BY <1>1, <1>3, <1>4, <1>5
  <1> QED BY <1>6, <1>7, <1>9, <1>10, <1>11, <1>12 DEF SubscribeInv

LEMMA StartKeeps ==
  ASSUME SubscribeInv, NEW secs \in SecLists, StartSubscribe(secs)
  PROVE  SubscribeInv'
  <1> DEFINE New(i) == [sub |-> subs + 1, cid |-> Cid(i), sec |-> secs[i], n |-> 0]
             news == {New(i) : i \in DOMAIN secs}
  <1>1. /\ subs < MaxSubs /\ subs' = subs + 1 /\ securities' = secs /\ hand' = <<>>
        /\ fresh' = (active = {} /\ queue = <<>>)
        /\ seen' = [c \in {Cid(i) : i \in DOMAIN secs} |-> 0]
        /\ UNCHANGED <<queue, interrupted, last>>
        /\ \/ active' = active \cup news /\ pc' = "wait" /\ outcome' = "none"
           \/ active' = active /\ pc' = "idle" /\ outcome' = "error"
    BY DEF StartSubscribe
  <1>2. secs \in Seq(Securities) /\ DOMAIN secs = 1 .. Len(secs) /\ MaxSubs \in Nat /\ MaxTicks \in Nat
    BY SubscribeAssumption
  <1>3. \A i \in DOMAIN secs : Cid(i) \in Nat /\ Cid(i) + 1 = i /\ secs[i] \in Securities
    BY <1>2 DEF Cid
  <1>4. \A x \in news : /\ x.sub = subs + 1 /\ x.n = 0 /\ x.cid + 1 \in DOMAIN secs
                        /\ x.cid \in Nat /\ x.sec = secs[x.cid + 1] /\ x = New(x.cid + 1)
                        /\ x \in [sub : Nat, cid : Nat, sec : Securities, n : Nat]
    BY <1>2, <1>3, InvParts
  <1> HIDE DEF news
  <1>5. Of(<<>>) = {} /\ <<>> \in Seq(Messages) /\ Ordered(<<>>)
    BY DEF Of, Ordered
  <1>6. InLine' = All(queue) /\ InLine' \subseteq InLine
    BY <1>1, <1>5 DEF InLine
  <1>7. active' \subseteq active \cup news
    BY <1>1
  <1>8. TypeOK'
    <2>1. \A x \in active' : x.sub \in 1 .. subs' /\ x.cid \in Nat /\ x.sec \in Securities /\ x.n \in 0 .. MaxTicks
      <3>1. \A x \in active : x.sub \in 1 .. subs' /\ x.cid \in Nat /\ x.sec \in Securities /\ x.n \in 0 .. MaxTicks
        BY <1>1, InvParts DEF TypeOK
      <3>2. \A x \in news : x.sub \in 1 .. subs' /\ x.cid \in Nat /\ x.sec \in Securities /\ x.n \in 0 .. MaxTicks
        BY <1>1, <1>2, <1>3, <1>4, InvParts
      <3> QED BY <1>7, <3>1, <3>2
    <2> QED BY <1>1, <1>2, <1>5, <2>1, InvParts DEF TypeOK
  <1>9. Known'
    <2>1. \A x \in active \cup InLine : x.sub <= subs /\ x.sub \in Nat
      BY InvParts DEF Known
    <2>2. \A x \in active \cup InLine' : x.sub <= subs' /\ x.sub # subs'
      BY <1>1, <1>6, <2>1, InvParts
    <2>3. \A x \in news : x.sub = subs' /\ x.cid + 1 \in DOMAIN securities' /\ x.sec = securities'[x.cid + 1]
      BY <1>1, <1>4
    <2>4. subs' \in Nat /\ subs' <= subs'
      BY <1>1, InvParts
    <2>5. \A x \in active' \cup InLine' : x.sub <= subs' /\ Right(x)'
      BY <1>7, <2>2, <2>3, <2>4 DEF Right
    <2>6. last'.sub \in 0 .. subs' /\ last'.sub # subs'
      BY <1>1, InvParts DEF SubscribeInv, Known
    <2> QED BY <1>1, <2>5, <2>6 DEF Known
  <1>10. ASSUME fresh'
         PROVE  InLine' = {} /\ \A x \in active' : x \in news
    <2>1. active = {} /\ queue = <<>>
      BY <1>1, <1>10
    <2>2. All(<<>>) = {}
      BY DEF All
    <2> QED BY <1>6, <1>7, <2>1, <2>2
  <1>11. OnlyOwn'
    BY <1>1, <1>4, <1>10 DEF OnlyOwn
  <1>12. InOrder'
    <2> SUFFICES ASSUME fresh', pc' # "idle"
                 PROVE  InOrder'
      BY DEF InOrder
    <2>1. DOMAIN seen' = {Cid(i) : i \in DOMAIN secs} /\ \A c \in DOMAIN seen' : seen'[c] = 0
      BY <1>1
    <2>2. \A x \in active' : seen'[x.cid] = 0 /\ x.n = 0 /\ InLineTo(x.cid, x.n)'
      <3>1. \A x \in active' : seen'[x.cid] = 0 /\ x.n = 0
        BY <1>3, <1>4, <1>10, <2>1
      <3> QED BY <3>1 DEF InLineTo
    <2>3. \A x, y \in active' : x.cid = y.cid => x = y
      BY <1>4, <1>10
    <2>4. Of(hand') = {} /\ Ordered(hand') /\ OrderedAll(queue')
      <3>1. queue' = <<>>
        BY <1>1
      <3>2. OrderedAll(<<>>)
        BY DEF OrderedAll
      <3> QED BY <1>1, <1>5, <3>1, <3>2
    <2> QED BY <1>1, <1>10, <2>1, <2>2, <2>3, <2>4 DEF InOrder
  <1>13. InterruptUnsubscribes'
    BY <1>1 DEF InterruptUnsubscribes
  <1> QED BY <1>4, <1>7, <1>8, <1>9, <1>11, <1>12, <1>13, InvParts DEF SubscribeInv

-----------------------------------------------------------------------------
(* The invariant is inductive *)

LEMMA SubscribeInit == Init => SubscribeInv
  <1> SUFFICES ASSUME Init PROVE SubscribeInv
    OBVIOUS
  <1>1. /\ active = {} /\ queue = <<>> /\ hand = <<>> /\ pc = "idle" /\ subs = 0 /\ outcome = "none"
        /\ last = Nothing
    BY DEF Init
  <1>2. \A S : <<>> \in Seq(S)
    OBVIOUS
  <1>3. TypeOK
    <2>1. 0 \in 0 .. MaxSubs
      BY SubscribeAssumption
    <2> QED BY <1>1, <1>2, <2>1 DEF Init, TypeOK
  <1>4. InLine = {}
    BY <1>1 DEF InLine, Of, All
  <1>5. last.sub = 0 /\ last.name = last.sec
    BY <1>1 DEF Nothing
  <1> QED BY <1>1, <1>3, <1>4, <1>5 DEF SubscribeInv, Known, OnlyOwn, InOrder, InterruptUnsubscribes

\* The loop's other steps and the interrupts hand nothing over.
LEMMA QuietSteps ==
  ASSUME SubscribeInv,
         \/ CheckInterrupt \/ ParseFails \/ CallbackReturns \/ CallbackFails \/ InterruptCallback
         \/ Interrupt \/ InterruptElsewhere \/ UNCHANGED vars
  PROVE  /\ SubscribeInv'
         /\ UNCHANGED <<queue, securities, subs, fresh, seen, last>>
         /\ active' \subseteq active /\ InLine' \subseteq InLine
         /\ ~(pc = "deliver" /\ pc' = "callback")
  <1>1. /\ pc = "wait" => hand = <<>>
        /\ pc = "deliver" => hand # <<>>
        /\ pc \in {"idle", "wait", "check", "deliver", "callback"}
        /\ interrupted \in BOOLEAN /\ outcome \in {"none", "interrupt", "error"}
    BY InvParts DEF Known, TypeOK
  <1>2. /\ UNCHANGED <<queue, securities, subs, fresh, seen, last>>
        /\ active' = active \/ (active' = Unsubscribe /\ pc' = "idle")
        /\ hand' = hand \/ (hand' = <<>> /\ pc' = "idle")
        /\ pc' \in {"idle", "wait", "check", "deliver", "callback"}
        /\ pc = "idle" => pc' = "idle"
        /\ pc' = "wait" => hand' = <<>>
        /\ pc' = "deliver" => hand' # <<>>
        /\ interrupted' \in BOOLEAN /\ outcome' \in {"none", "interrupt", "error"}
        /\ outcome' = "interrupt" => (outcome = "interrupt" /\ active' = active) \/ active' = Unsubscribe
        /\ ~(pc = "deliver" /\ pc' = "callback")
    <2>1. CASE CheckInterrupt
      BY <1>1, <2>1 DEF CheckInterrupt
    <2>2. CASE ParseFails \/ CallbackReturns \/ CallbackFails \/ InterruptCallback
      BY <1>1, <2>2 DEF ParseFails, CallbackReturns, CallbackFails, InterruptCallback, libVars
    <2>3. CASE Interrupt \/ InterruptElsewhere \/ UNCHANGED vars
      BY <1>1, <2>3 DEF Interrupt, InterruptElsewhere, vars, libVars, callVars
    <2> QED BY <2>1, <2>2, <2>3
  <1>3. SubscribeInv'
    BY <1>2, QuietKeeps
  <1>4. active' \subseteq active
    BY <1>2 DEF Unsubscribe
  <1>5. InLine' \subseteq InLine
    <2>1. Of(<<>>) = {}
      BY DEF Of
    <2>2. Of(hand') \subseteq Of(hand) /\ All(queue') = All(queue)
      BY <1>2, <2>1
    <2> QED BY <2>2 DEF InLine
  <1> QED BY <1>2, <1>3, <1>4, <1>5

LEMMA SubscribeNext ==
  ASSUME SubscribeInv, [Next]_vars
  PROVE  SubscribeInv'
  BY StartKeeps, NextEventKeeps, DeliverKeeps, TickKeeps, OtherEventKeeps, QuietSteps DEF Next, Loop

LEMMA SubscribeAlways == Spec => []SubscribeInv
  BY SubscribeInit, SubscribeNext, PTL DEF Spec

\* Every reachable state is well typed.
THEOREM SubscribeTyped == Spec => []TypeOK
  <1>1. SubscribeInv => TypeOK
    BY DEF SubscribeInv
  <1> QED BY <1>1, SubscribeAlways, PTL

\* In a call that found the session clean every message is handed over under the
\* name of the security it is about, however many calls numbered theirs before.
THEOREM FreshNames == Spec => []FreshNamesAreRight
  <1>1. SubscribeInv => FreshNamesAreRight
    BY DEF SubscribeInv, Known, FreshNamesAreRight
  <1> QED BY <1>1, SubscribeAlways, PTL

\* A call that ended by an interrupt has left no subscription of its own.
THEOREM InterruptLeavesNone == Spec => []InterruptUnsubscribes
  <1>1. SubscribeInv => InterruptUnsubscribes
    BY DEF SubscribeInv
  <1> QED BY <1>1, SubscribeAlways, PTL

\* Nothing of a subscription is skipped, repeated or handed over out of order in
\* such a call, for queues of any length and events of any messages.
THEOREM FreshInOrder == Spec => FreshDeliversInOrder
  <1>1. ASSUME SubscribeInv, [Next]_vars, fresh, pc = "deliver", pc' = "callback"
        PROVE  Head(hand).n = seen[Head(hand).cid] + 1
    <2>1. Deliver
      BY <1>1, QuietSteps DEF Next, Loop, StartSubscribe, NextEvent, Tick, OtherEvent, callVars
    <2> QED BY <1>1, <2>1, DeliverKeeps
  <1>2. SubscribeInv /\ [Next]_vars =>
          [fresh /\ pc = "deliver" /\ pc' = "callback" => Head(hand).n = seen[Head(hand).cid] + 1]_vars
    BY <1>1
  <1> QED BY <1>2, SubscribeAlways, PTL DEF Spec, FreshDeliversInOrder

\* A wrong name has no cause but what another call left behind: without that a
\* call's names are right, and nothing foreign comes up while it runs.
THEOREM WrongNamesAreForeign == Spec => NoForeignNoWrongName
  <1>1. Foreign <=> \E x \in active \cup InLine : x.sub # subs
    BY DEF Foreign, InLine, Of, All
  <1>2. Foreign' <=> \E x \in active' \cup InLine' : x.sub # subs'
    BY DEF Foreign, InLine, Of, All
  <1>3. ASSUME SubscribeInv, [Next]_vars, ~Foreign, subs' = subs
        PROVE  ~Foreign' /\ (last' # last => last'.name = last'.sec)
    <2>1. \A x \in active \cup InLine : x.sub = subs
      BY <1>1, <1>3
    <2>2. SubscribeInv'
      BY <1>3, SubscribeNext
    <2>3. CASE Deliver
      <3>1. active' = active /\ InLine' \subseteq InLine /\ last'.sub = subs
        BY <1>3, <2>1, <2>3, DeliverKeeps DEF Deliver, libVars
      <3>2. last'.name = last'.sec
        BY <1>3, <2>2, <3>1 DEF SubscribeInv, Known
      <3> QED BY <1>2, <1>3, <2>1, <3>1, <3>2
    <2>4. CASE Tick
      <3>1. last' = last
        BY <2>4 DEF Tick, callVars
      <3> QED BY <1>2, <1>3, <2>1, <2>4, <3>1, TickKeeps
    <2>5. CASE OtherEvent
      <3>1. last' = last /\ active' = active /\ InLine' = InLine
        BY <1>3, <2>5, OtherEventKeeps DEF OtherEvent, callVars
      <3> QED BY <1>2, <1>3, <2>1, <3>1
    <2>6. CASE NextEvent
      <3>1. last' = last /\ active' = active /\ queue # <<>> /\ hand' = Head(queue) /\ queue' = Tail(queue)
        BY <2>6 DEF NextEvent
      <3>2. InLine' \subseteq InLine
        BY <1>3, <3>1, InvParts, AllTail DEF InLine
      <3> QED BY <1>2, <1>3, <2>1, <3>1, <3>2
    <2>7. CASE \E secs \in SecLists : StartSubscribe(secs)
      <3>1. subs \in Nat /\ subs' = subs + 1
        BY <1>3, <2>7, InvParts DEF StartSubscribe
      <3> QED BY <1>3, <3>1
    <2>8. CASE \/ CheckInterrupt \/ ParseFails \/ CallbackReturns \/ CallbackFails \/ InterruptCallback
               \/ Interrupt \/ InterruptElsewhere \/ UNCHANGED vars
      BY <1>2, <1>3, <2>1, <2>8, QuietSteps
    <2> QED BY <1>3, <2>3, <2>4, <2>5, <2>6, <2>7, <2>8 DEF Next, Loop
  <1>4. SubscribeInv /\ [Next]_vars =>
          [~Foreign /\ subs' = subs => ~Foreign' /\ (last' # last => last'.name = last'.sec)]_vars
    BY <1>3
  <1> QED BY <1>4, SubscribeAlways, PTL DEF Spec, NoForeignNoWrongName
=============================================================================
