--------------------------- MODULE HandlesProofs ----------------------------
(***************************************************************************)
(* No call is ever given a deleted object, and none is deleted twice,      *)
(* however many objects are created and in whatever order R collects them. *)
(***************************************************************************)
EXTENDS Handles, TLAPS

Object == [kind : {"Session", "Identity"}, on : 0 .. MaxObjects,
           state : {"live", "deleted"}, owned : BOOLEAN]

\* An object that a pointer owns has not been deleted, none has been deleted
\* twice, and what a call can be given is owned.
OwnedIsLive ==
  \A i \in Ids : /\ objs[i].owned => objs[i].state = "live" /\ frees[i] = 0
                 /\ frees[i] <= 1

ReachableIsOwned == ~exiting => \A i \in Reachable : objs[i].owned

HandlesInv ==
  /\ TypeOK
  /\ frees \in Seq(Nat) /\ Len(frees) = Len(objs) /\ Len(objs) <= MaxObjects
  /\ OwnedIsLive
  /\ ReachableIsOwned

-----------------------------------------------------------------------------
(* Objects are only added *)

LEMMA InvParts ==
  ASSUME HandlesInv
  PROVE  /\ objs \in Seq(Object) /\ frees \in Seq(Nat) /\ MaxObjects \in Nat
         /\ Len(objs) \in Nat /\ Len(frees) = Len(objs) /\ Len(objs) <= MaxObjects
         /\ Ids = 1 .. Len(objs) /\ DOMAIN frees = Ids
         /\ con # 0 => con \in Ids /\ objs[con].kind = "Session"
         /\ blpAuth # 0 => blpAuth \in Ids /\ objs[blpAuth].kind = "Identity"
         /\ held \subseteq Ids /\ exiting \in BOOLEAN
         /\ Reachable \subseteq Ids /\ \A i \in Ids : objs[i] \in Object
  <1>1. /\ objs \in Seq(Object) /\ frees \in Seq(Nat) /\ MaxObjects \in Nat
        /\ Len(frees) = Len(objs) /\ Len(objs) <= MaxObjects
        /\ con # 0 => con \in Ids /\ objs[con].kind = "Session"
        /\ blpAuth # 0 => blpAuth \in Ids /\ objs[blpAuth].kind = "Identity"
        /\ held \subseteq Ids /\ exiting \in BOOLEAN
    BY HandlesAssumption DEF HandlesInv, TypeOK, Object
  <1>2. Ids = 1 .. Len(objs) /\ DOMAIN frees = Ids /\ Len(objs) \in Nat
    BY <1>1 DEF Ids
  <1>3. Reachable \subseteq Ids
    BY <1>1 DEF Reachable
  <1>4. \A i \in Ids : objs[i] \in Object
    BY <1>1 DEF Ids
  <1> QED BY <1>1, <1>2, <1>3, <1>4

\* A pointer stored while objects are added is an old one or owns a new object.
LEMMA GrowKeeps ==
  ASSUME HandlesInv, ~exiting, exiting' = exiting,
         objs' \in Seq(Object), frees' \in Seq(Nat),
         Len(frees') = Len(objs'), Len(objs') <= MaxObjects, Ids \subseteq Ids',
         \A i \in Ids : objs'[i] = objs[i] /\ frees'[i] = frees[i],
         \A i \in Ids' \ Ids : objs'[i].state = "live" /\ frees'[i] = 0,
         con' # con /\ con' # 0 =>
           con' \in Ids' \ Ids /\ objs'[con'].kind = "Session" /\ objs'[con'].owned,
         blpAuth' # blpAuth /\ blpAuth' # 0 =>
           blpAuth' \in Ids' \ Ids /\ objs'[blpAuth'].kind = "Identity" /\ objs'[blpAuth'].owned,
         \A i \in held' \ held : i \in Ids' \ Ids /\ objs'[i].owned
  PROVE  HandlesInv'
  <1>1. TypeOK'
    BY InvParts, SMTT(20) DEF TypeOK, Object
  <1>2. OwnedIsLive'
    <2>1. ASSUME NEW i \in Ids'
          PROVE  (objs'[i].owned => objs'[i].state = "live" /\ frees'[i] = 0) /\ frees'[i] <= 1
      <3>1. CASE i \in Ids
        BY <3>1 DEF HandlesInv, OwnedIsLive
      <3>2. CASE i \notin Ids
        BY <3>2
      <3> QED BY <3>1, <3>2
    <2> QED BY <2>1 DEF OwnedIsLive
  <1>3. ReachableIsOwned'
    <2>1. \A i \in Reachable : i \in Ids /\ objs[i].owned
      BY InvParts DEF HandlesInv, ReachableIsOwned
    <2>2. \A i \in Reachable' : i \in Reachable \/ objs'[i].owned
      BY DEF Reachable
    <2> QED BY <2>1, <2>2 DEF ReachableIsOwned
  <1> QED BY <1>1, <1>2, <1>3 DEF HandlesInv

LEMMA Append1 ==
  ASSUME NEW S, NEW s \in Seq(S), NEW x \in S
  PROVE  /\ Append(s, x) \in Seq(S) /\ Len(Append(s, x)) = Len(s) + 1
         /\ DOMAIN Append(s, x) = 1 .. Len(s) + 1
         /\ \A i \in 1 .. Len(s) : Append(s, x)[i] = s[i]
         /\ Append(s, x)[Len(s) + 1] = x
  OBVIOUS

\* One object more, the newest.
LEMMA CreateAdds ==
  ASSUME HandlesInv, NEW kind \in {"Session", "Identity"}, NEW on \in 0 .. MaxObjects,
         NEW ok \in BOOLEAN, Create(kind, on, ok)
  PROVE  /\ ~exiting /\ objs' \in Seq(Object) /\ frees' \in Seq(Nat)
         /\ Len(frees') = Len(objs') /\ Len(objs') <= MaxObjects
         /\ Ids \subseteq Ids' /\ Ids' \ Ids = {New} /\ New # 0
         /\ \A i \in Ids : objs'[i] = objs[i] /\ frees'[i] = frees[i]
         /\ objs'[New].kind = kind /\ objs'[New].state = "live" /\ objs'[New].owned = ok
         /\ frees'[New] = 0
  <1> DEFINE x == [kind |-> kind, on |-> on, state |-> "live", owned |-> ok]
  <1>1. x \in Object
    BY DEF Object
  <1>2. Len(objs) < MaxObjects /\ ~exiting /\ objs' = Append(objs, x) /\ frees' = Append(frees, 0)
    BY DEF Create
  <1> HIDE DEF x
  <1>3. /\ objs' \in Seq(Object) /\ Len(objs') = Len(objs) + 1 /\ DOMAIN objs' = 1 .. Len(objs) + 1
        /\ \A i \in 1 .. Len(objs) : objs'[i] = objs[i]
        /\ objs'[Len(objs) + 1] = x
    BY <1>1, <1>2, InvParts, Append1
  <1>4. /\ frees' \in Seq(Nat) /\ Len(frees') = Len(frees) + 1
        /\ \A i \in 1 .. Len(frees) : frees'[i] = frees[i]
        /\ frees'[Len(frees) + 1] = 0
    BY <1>2, InvParts, Append1
  <1>5. Ids' = 1 .. Len(objs) + 1
    BY <1>3 DEF Ids
  <1> QED BY <1>2, <1>3, <1>4, <1>5, InvParts DEF New, x

-----------------------------------------------------------------------------
(* The invariant is inductive *)

LEMMA HandlesInit == Init => HandlesInv
  <1> SUFFICES ASSUME Init PROVE HandlesInv
    OBVIOUS
  <1>1. /\ objs = <<>> /\ frees = <<>> /\ con = 0 /\ blpAuth = 0 /\ held = {} /\ exiting = FALSE
        /\ Ids = {} /\ Len(objs) = 0 /\ Len(frees) = 0
    BY DEF Init, Ids
  <1>2. TypeOK /\ frees \in Seq(Nat)
    <2>1. \A S : <<>> \in Seq(S)
      OBVIOUS
    <2> QED BY <1>1, <2>1 DEF TypeOK
  <1>3. OwnedIsLive /\ ReachableIsOwned
    BY <1>1 DEF OwnedIsLive, ReachableIsOwned, Reachable
  <1> QED BY <1>1, <1>2, <1>3, HandlesAssumption DEF HandlesInv

LEMMA ConnectKeeps ==
  ASSUME HandlesInv, NEW ok \in BOOLEAN, NEW default \in BOOLEAN, Connect(ok, default)
  PROVE  HandlesInv'
  <1>1. Create("Session", 0, ok) /\ UNCHANGED <<blpAuth, exiting>>
    BY DEF Connect
  <1>2. 0 \in 0 .. MaxObjects
    BY InvParts
  <1>3. con' # con => ok /\ con' = New
    BY DEF Connect
  <1>4. \A i \in held' \ held : ok /\ i = New
    BY DEF Connect
  <1>5. /\ ~exiting /\ objs' \in Seq(Object) /\ frees' \in Seq(Nat)
        /\ Len(frees') = Len(objs') /\ Len(objs') <= MaxObjects
        /\ Ids \subseteq Ids' /\ Ids' \ Ids = {New}
        /\ \A i \in Ids : objs'[i] = objs[i] /\ frees'[i] = frees[i]
        /\ objs'[New].kind = "Session" /\ objs'[New].state = "live" /\ objs'[New].owned = ok
        /\ frees'[New] = 0
    BY <1>1, <1>2, CreateAdds
  <1> QED BY <1>1, <1>3, <1>4, <1>5, GrowKeeps

LEMMA AuthenticateKeeps ==
  ASSUME HandlesInv, NEW c \in Sessions, NEW ok \in BOOLEAN, NEW default \in BOOLEAN,
         Authenticate(c, ok, default)
  PROVE  HandlesInv'
  <1>1. Create("Identity", c, ok) /\ UNCHANGED <<con, exiting>>
    BY DEF Authenticate
  <1>2. c \in 0 .. MaxObjects
    BY InvParts DEF Sessions
  <1>3. blpAuth' # blpAuth => ok /\ blpAuth' = New
    BY DEF Authenticate
  <1>4. \A i \in held' \ held : ok /\ i = New
    BY DEF Authenticate
  <1>5. /\ ~exiting /\ objs' \in Seq(Object) /\ frees' \in Seq(Nat)
        /\ Len(frees') = Len(objs') /\ Len(objs') <= MaxObjects
        /\ Ids \subseteq Ids' /\ Ids' \ Ids = {New}
        /\ \A i \in Ids : objs'[i] = objs[i] /\ frees'[i] = frees[i]
        /\ objs'[New].kind = "Identity" /\ objs'[New].state = "live" /\ objs'[New].owned = ok
        /\ frees'[New] = 0
    BY <1>1, <1>2, CreateAdds
  <1> QED BY <1>1, <1>3, <1>4, <1>5, GrowKeeps

LEMMA AttachKeeps ==
  ASSUME HandlesInv, Attach
  PROVE  HandlesInv'
  <1>1. CASE AttachPlain
    <2>1. ~exiting /\ con' = 0 /\ blpAuth' = 0 /\ UNCHANGED <<objs, held, frees, exiting>> /\ Ids' = Ids
      BY <1>1 DEF AttachPlain, Ids
    <2> QED BY <2>1, InvParts, GrowKeeps
  <1>2. CASE AttachConnect
    <2>1. Create("Session", 0, TRUE) /\ con' = New /\ blpAuth' = 0 /\ UNCHANGED <<held, exiting>>
      BY <1>2 DEF AttachConnect
    <2>2. 0 \in 0 .. MaxObjects
      BY InvParts
    <2>3. /\ ~exiting /\ objs' \in Seq(Object) /\ frees' \in Seq(Nat)
          /\ Len(frees') = Len(objs') /\ Len(objs') <= MaxObjects
          /\ Ids \subseteq Ids' /\ Ids' \ Ids = {New}
          /\ \A i \in Ids : objs'[i] = objs[i] /\ frees'[i] = frees[i]
          /\ objs'[New].kind = "Session" /\ objs'[New].state = "live" /\ objs'[New].owned
          /\ frees'[New] = 0
      BY <2>1, <2>2, CreateAdds
    <2> QED BY <2>1, <2>3, GrowKeeps
  <1>3. CASE AttachAuthenticate
    <2>1. /\ con # 0 /\ Create("Identity", con, TRUE) /\ con' = 0 /\ blpAuth' = New
          /\ UNCHANGED <<held, exiting>>
      BY <1>3 DEF AttachAuthenticate
    <2>2. con \in 0 .. MaxObjects
      BY <2>1, InvParts
    <2>3. /\ ~exiting /\ objs' \in Seq(Object) /\ frees' \in Seq(Nat)
          /\ Len(frees') = Len(objs') /\ Len(objs') <= MaxObjects
          /\ Ids \subseteq Ids' /\ Ids' \ Ids = {New}
          /\ \A i \in Ids : objs'[i] = objs[i] /\ frees'[i] = frees[i]
          /\ objs'[New].kind = "Identity" /\ objs'[New].state = "live" /\ objs'[New].owned
          /\ frees'[New] = 0
      BY <2>1, <2>2, CreateAdds
    <2> QED BY <2>1, <2>3, GrowKeeps
  <1>4. CASE AttachBoth
    <2> DEFINE x == [kind |-> "Session", on |-> 0, state |-> "live", owned |-> TRUE]
               y(ok) == [kind |-> "Identity", on |-> AuthenticatedOn, state |-> "live", owned |-> ok]
    <2>1. PICK ok \in BOOLEAN : /\ objs' = objs \o <<x, y(ok)>>
                                /\ frees' = frees \o <<0, 0>>
                                /\ con' = New /\ blpAuth' = IF ok THEN New + 1 ELSE blpAuth
      BY <1>4 DEF AttachBoth
    <2>2. Len(objs) + 2 <= MaxObjects /\ ~exiting /\ UNCHANGED <<held, exiting>>
      BY <1>4 DEF AttachBoth
    <2>3. x \in Object /\ y(ok) \in Object
      BY <2>2, InvParts DEF Object, AuthenticatedOn, New
    <2>4. /\ x.kind = "Session" /\ x.state = "live" /\ x.owned
          /\ y(ok).kind = "Identity" /\ y(ok).state = "live" /\ y(ok).owned = ok
      OBVIOUS
    <2> HIDE DEF x, y
    <2>5. /\ objs' \in Seq(Object) /\ Len(objs') = Len(objs) + 2 /\ DOMAIN objs' = 1 .. Len(objs) + 2
          /\ \A i \in 1 .. Len(objs) : objs'[i] = objs[i]
          /\ objs'[Len(objs) + 1] = x /\ objs'[Len(objs) + 2] = y(ok)
      BY <2>1, <2>3, InvParts
    <2>6. /\ frees' \in Seq(Nat) /\ Len(frees') = Len(frees) + 2
          /\ \A i \in 1 .. Len(frees) : frees'[i] = frees[i]
          /\ frees'[Len(frees) + 1] = 0 /\ frees'[Len(frees) + 2] = 0
      BY <2>1, InvParts
    <2>7. Ids' = Ids \cup {New, New + 1} /\ Ids' \ Ids = {New, New + 1} /\ New + 1 = Len(objs) + 2
      <3>1. Ids = 1 .. Len(objs) /\ Ids' = 1 .. Len(objs) + 2 /\ Len(objs) \in Nat
        BY <2>5, InvParts DEF Ids
      <3>2. \A n \in Nat : /\ 1 .. n + 2 = (1 .. n) \cup {n + 1, n + 2}
                           /\ n + 1 \notin 1 .. n /\ n + 2 \notin 1 .. n
                           /\ (n + 1) + 1 = n + 2
        OBVIOUS
      <3>3. New = Len(objs) + 1 /\ New + 1 = Len(objs) + 2
        BY <3>1, <3>2 DEF New
      <3> QED BY <3>1, <3>2, <3>3
    <2>8. /\ \A i \in Ids : objs'[i] = objs[i] /\ frees'[i] = frees[i]
          /\ \A i \in Ids' \ Ids : objs'[i].state = "live" /\ frees'[i] = 0
          /\ objs'[New].kind = "Session" /\ objs'[New].owned
          /\ objs'[New + 1].kind = "Identity" /\ objs'[New + 1].owned = ok
      BY <2>4, <2>5, <2>6, <2>7, InvParts DEF New
    <2>9. Len(frees') = Len(objs') /\ Len(objs') <= MaxObjects /\ Ids \subseteq Ids' /\ exiting' = exiting
      BY <2>2, <2>5, <2>6, <2>7, InvParts
    <2>10. /\ con' \in Ids' \ Ids /\ objs'[con'].kind = "Session" /\ objs'[con'].owned
           /\ blpAuth' # blpAuth => /\ blpAuth' \in Ids' \ Ids /\ objs'[blpAuth'].kind = "Identity"
                                   /\ objs'[blpAuth'].owned
      BY <2>1, <2>7, <2>8
    <2> QED BY <2>2, <2>5, <2>6, <2>8, <2>9, <2>10, GrowKeeps
  <1> QED BY <1>1, <1>2, <1>3, <1>4 DEF Attach

\* The finalizer deletes what nothing can reach and leaves the pointer empty.
LEMMA FinalizeKeeps ==
  ASSUME HandlesInv, NEW i \in Ids, Finalize(i)
  PROVE  HandlesInv'
  <1>1. /\ objs[i].owned /\ (i \notin Reachable \/ exiting)
        /\ objs' = [objs EXCEPT ![i] = [@ EXCEPT !.state = "deleted", !.owned = FALSE]]
        /\ frees' = [frees EXCEPT ![i] = @ + 1]
        /\ UNCHANGED <<con, blpAuth, held, exiting>>
    BY DEF Finalize, Collectable, Deleted
  <1>2. /\ objs' \in Seq(Object) /\ frees' \in Seq(Nat) /\ Len(objs') = Len(objs)
        /\ Len(frees') = Len(frees) /\ Ids' = Ids
    <2>1. [objs[i] EXCEPT !.state = "deleted", !.owned = FALSE] \in Object
      BY InvParts DEF Object
    <2>2. frees[i] + 1 \in Nat
      BY InvParts
    <2> QED BY <1>1, <2>1, <2>2, InvParts DEF Ids
  <1>3. /\ \A k \in Ids : objs'[k].kind = objs[k].kind
        /\ \A k \in Ids \ {i} : objs'[k] = objs[k] /\ frees'[k] = frees[k]
        /\ objs'[i].owned = FALSE /\ frees'[i] = frees[i] + 1 /\ frees[i] \in Nat
    BY <1>1, InvParts DEF Object
  <1>4. TypeOK'
    BY <1>1, <1>2, <1>3, InvParts DEF TypeOK, Object
  <1>5. OwnedIsLive'
    BY <1>1, <1>2, <1>3 DEF HandlesInv, OwnedIsLive
  <1>6. ReachableIsOwned'
    BY <1>1, <1>2, <1>3, InvParts DEF HandlesInv, ReachableIsOwned, Reachable
  <1> QED BY <1>2, <1>4, <1>5, <1>6, InvParts DEF HandlesInv

LEMMA HandlesNext ==
  ASSUME HandlesInv, [Next]_vars
  PROVE  HandlesInv'
  <1>1. ASSUME NEW i \in held, Forget(i)
        PROVE  HandlesInv'
    <2>1. held' \subseteq held /\ UNCHANGED <<objs, con, blpAuth, frees, exiting>>
      BY <1>1 DEF Forget
    <2> QED BY <2>1 DEF HandlesInv, TypeOK, OwnedIsLive, ReachableIsOwned, Ids, Reachable
  <1>2. CASE Exit
    BY <1>2 DEF Exit, HandlesInv, TypeOK, OwnedIsLive, ReachableIsOwned, Ids, Reachable
  <1>3. CASE UNCHANGED vars
    BY <1>3 DEF vars, HandlesInv, TypeOK, OwnedIsLive, ReachableIsOwned, Ids, Reachable
  <1> QED BY <1>1, <1>2, <1>3, ConnectKeeps, AuthenticateKeeps, AttachKeeps, FinalizeKeeps DEF Next

LEMMA HandlesAlways == Spec => []HandlesInv
  BY HandlesInit, HandlesNext, PTL DEF Spec

\* Every reachable state is well typed: con is NULL or a session, blpAuth NULL
\* or an identity.
THEOREM HandlesTyped == Spec => []TypeOK
  <1>1. HandlesInv => TypeOK
    BY DEF HandlesInv
  <1> QED BY <1>1, HandlesAlways, PTL

\* Until R ends, the defaults and whatever the user holds are live objects.
THEOREM NoDeletedObjectIsUsed == Spec => []ReachableIsLive
  <1>1. HandlesInv => ReachableIsLive
    BY InvParts DEF HandlesInv, OwnedIsLive, ReachableIsOwned, ReachableIsLive
  <1> QED BY <1>1, HandlesAlways, PTL

\* No object is deleted twice: not when the finalizer that collection ran is
\* followed by the one at the end of R.
THEOREM NoDoubleDelete == Spec => []DeletedOnce
  <1>1. HandlesInv => DeletedOnce
    BY DEF HandlesInv, OwnedIsLive, DeletedOnce
  <1> QED BY <1>1, HandlesAlways, PTL

-----------------------------------------------------------------------------
(* The defaults *)

\* A step that leaves the defaults alone leaves them paired.
LEMMA StepParts ==
  ASSUME HandlesInv, [Next]_vars, Paired, ~Paired'
  PROVE  (con' # con /\ blpAuth' = blpAuth) \/ (con' = con /\ objs'[blpAuth'].on # con)
  <1>1. con' # 0 /\ blpAuth' # 0 /\ objs'[blpAuth'].on # con'
    BY DEF Paired
  <1>2. blpAuth' = blpAuth => blpAuth \in Ids
    BY <1>1, InvParts
  <1>3. ASSUME NEW ok \in BOOLEAN, NEW default \in BOOLEAN, Connect(ok, default)
        PROVE  blpAuth' = blpAuth /\ con' # con
    <2>1. blpAuth' = blpAuth /\ Create("Session", 0, ok)
      BY <1>3 DEF Connect
    <2>2. objs'[blpAuth'] = objs[blpAuth]
      BY <1>2, <2>1, InvParts, CreateAdds
    <2> QED BY <1>1, <2>1, <2>2 DEF Paired
  <1>4. ASSUME NEW c \in Sessions, NEW ok \in BOOLEAN, NEW default \in BOOLEAN, Authenticate(c, ok, default)
        PROVE  con' = con
    BY <1>4 DEF Authenticate
  <1>5. CASE Attach
    <2>1. AttachBoth
      BY <1>1, <1>5 DEF Attach, AttachPlain, AttachConnect, AttachAuthenticate
    <2>2. PICK ok \in BOOLEAN :
            /\ objs' = objs \o <<[kind |-> "Session", on |-> 0, state |-> "live", owned |-> TRUE],
                                 [kind |-> "Identity", on |-> New, state |-> "live", owned |-> ok]>>
            /\ con' = New /\ blpAuth' = IF ok THEN New + 1 ELSE blpAuth
      BY <2>1 DEF AttachBoth, AuthenticatedOn
    <2>3. con' # con
      BY <2>2, InvParts DEF New
    <2>4. ~ok
      <3>1. objs'[New + 1].on = New
        BY <2>2, InvParts DEF New
      <3> QED BY <1>1, <2>2, <3>1
    <2> QED BY <2>2, <2>3, <2>4
  <1>6. ASSUME NEW i \in Ids, Finalize(i)
        PROVE  FALSE
    <2>1. /\ objs' = [objs EXCEPT ![i] = [@ EXCEPT !.state = "deleted", !.owned = FALSE]]
          /\ UNCHANGED <<con, blpAuth>>
      BY <1>6 DEF Finalize, Deleted
    <2>2. \A k \in Ids : objs'[k].on = objs[k].on
      BY <2>1, InvParts DEF Object
    <2> QED BY <1>1, <1>2, <2>1, <2>2 DEF Paired
  <1>7. ~(UNCHANGED <<objs, con, blpAuth>>)
    BY DEF Paired
  <1>8. ~(Exit \/ \E i \in held : Forget(i))
    BY <1>7 DEF Exit, Forget
  <1> QED BY <1>1, <1>3, <1>4, <1>5, <1>6, <1>7, <1>8 DEF Next, vars

\* Defaults that belong together part only because another connection replaces
\* theirs or an identity of another connection does: no step, not even a load of
\* the package that fails half way, stores a new connection with a stranger's
\* new identity.
THEOREM DefaultsPart == Spec => DefaultsPartOneAtATime
  <1>1. HandlesInv /\ [Next]_vars =>
          [Paired /\ ~Paired' => \/ con' # con /\ blpAuth' = blpAuth
                                 \/ con' = con /\ objs'[blpAuth'].on # con]_vars
    BY StepParts
  <1> QED BY <1>1, HandlesAlways, PTL DEF Spec, DefaultsPartOneAtATime
=============================================================================
