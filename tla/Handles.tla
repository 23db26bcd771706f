------------------------------ MODULE Handles -------------------------------
(***************************************************************************)
(* The native Session and Identity objects, the R external pointers that   *)
(* own them, and the defaults .pkgenv$con and .pkgenv$blpAuth: blpConnect, *)
(* blpAuthenticate, .onAttach, blpDisconnect and the finalizers.  Pointers *)
(* are identified with the object they own, 0 is NULL.  R's collector may  *)
(* finalize any pointer that nothing refers to, in any order, and at the   *)
(* end of the R session finalizes them all.                                *)
(***************************************************************************)
EXTENDS Naturals, Sequences, FiniteSets

CONSTANT MaxObjects   \* bound: native objects created in a behaviour

ASSUME HandlesAssumption == MaxObjects \in Nat

VARIABLES
  objs,     \* native objects: [kind, on (an identity's session), state, owned]
  con,      \* .pkgenv$con
  blpAuth,  \* .pkgenv$blpAuth
  held,     \* pointers in the user's own variables
  frees,    \* history: how often each object has been deleted
  exiting   \* the R session is ending

vars == <<objs, con, blpAuth, held, frees, exiting>>

Init ==
  /\ objs = <<>> /\ frees = <<>>
  /\ con = 0 /\ blpAuth = 0 /\ held = {}
  /\ exiting = FALSE

Ids == DOMAIN objs
Reachable == ({con, blpAuth} \cup held) \ {0}
Sessions == {i \in Reachable : objs[i].kind = "Session"}

\* new Session / new Identity, and the external pointer if all goes well: an
\* object whose start() or authorization failed has no owner.
Create(kind, on, ok) ==
  /\ Len(objs) < MaxObjects
  /\ ~exiting
  /\ objs' = Append(objs, [kind |-> kind, on |-> on, state |-> "live", owned |-> ok])
  /\ frees' = Append(frees, 0)

New_Last == Len(objs)            \* mutant: the object before
New == Len(objs) + 1

Connect(ok, default) ==
  /\ Create("Session", 0, ok)
  /\ con' = IF ok /\ default THEN New ELSE con
  /\ held' = IF ok /\ ~default THEN held \cup {New} ELSE held
  /\ UNCHANGED <<blpAuth, exiting>>

\* con is the default connection or one of the user's.
Authenticate(c, ok, default) ==
  /\ c \in Sessions
  /\ Create("Identity", c, ok)
  /\ blpAuth' = IF ok /\ default THEN New ELSE blpAuth
  /\ held' = IF ok /\ ~default THEN held \cup {New} ELSE held
  /\ UNCHANGED <<con, exiting>>

\* .onAttach(): both defaults are assigned, NULL where the option is not set; an
\* error in blpConnect() or blpAuthenticate() ends it before the assignments,
\* but blpConnect() has by then stored its own.
\* blpAutoConnect only, blpAutoAuthenticate only, both, neither.
AttachPlain ==
  /\ ~exiting
  /\ con' = 0 /\ blpAuth' = 0
  /\ UNCHANGED <<objs, held, frees, exiting>>

AttachConnect ==
  /\ Create("Session", 0, TRUE)
  /\ con' = New /\ blpAuth' = 0
  /\ UNCHANGED <<held, exiting>>

AttachAuthenticate ==
  /\ con # 0
  /\ Create("Identity", con, TRUE)
  /\ con' = 0 /\ blpAuth' = New
  /\ UNCHANGED <<held, exiting>>

\* The identity is asked for on the connection just stored.
AuthenticatedOn_Old == con      \* mutant: on the connection of before
AuthenticatedOn == New

AttachBoth ==
  /\ Len(objs) + 2 <= MaxObjects
  /\ ~exiting
  /\ \E ok \in BOOLEAN :
       /\ objs' = objs \o <<[kind |-> "Session", on |-> 0, state |-> "live", owned |-> TRUE],
                            [kind |-> "Identity", on |-> AuthenticatedOn, state |-> "live", owned |-> ok]>>
       /\ frees' = frees \o <<0, 0>>
       /\ con' = New
       /\ blpAuth' = IF ok THEN New + 1 ELSE blpAuth
  /\ UNCHANGED <<held, exiting>>

\* The user's variable goes; blpDisconnect() changes nothing.
Forget(i) ==
  /\ i \in held
  /\ held' = held \ {i}
  /\ UNCHANGED <<objs, con, blpAuth, frees, exiting>>

\* sessionFinalizer, identityFinalizer: delete, then R_ClearExternalPtr.
Deleted_Uncleared(o) == [o EXCEPT !.state = "live"]                  \* mutant
Deleted(o) == [o EXCEPT !.state = "deleted", !.owned = FALSE]

\* R finalizes what nothing refers to; registered with onexit = TRUE, the rest
\* at the end.
Collectable_Defaults(i) == i \notin held \/ exiting   \* mutant: .pkgenv does not keep them
Collectable_NotAtExit(i) == i \notin Reachable         \* mutant: onexit = FALSE
Collectable(i) == i \notin Reachable \/ exiting

Finalize(i) ==
  /\ objs[i].owned
  /\ Collectable(i)
  /\ objs' = [objs EXCEPT ![i] = Deleted(@)]
  /\ frees' = [frees EXCEPT ![i] = @ + 1]
  /\ UNCHANGED <<con, blpAuth, held, exiting>>

Exit ==
  /\ ~exiting
  /\ exiting' = TRUE
  /\ UNCHANGED <<objs, con, blpAuth, held, frees>>

Attach == AttachPlain \/ AttachConnect \/ AttachAuthenticate \/ AttachBoth

Next ==
  \/ \E ok, default \in BOOLEAN : Connect(ok, default)
  \/ \E ok, default \in BOOLEAN : \E c \in Sessions : Authenticate(c, ok, default)
  \/ Attach
  \/ \E i \in held : Forget(i)
  \/ \E i \in Ids : Finalize(i)
  \/ Exit

Spec == Init /\ [][Next]_vars

\* At its end R runs every finalizer that is left.
FairSpec == Spec /\ WF_vars(exiting /\ \E i \in Ids : Finalize(i))

-----------------------------------------------------------------------------
\* Types of the state.
TypeOK ==
  /\ objs \in Seq([kind : {"Session", "Identity"}, on : 0 .. MaxObjects,
                   state : {"live", "deleted"}, owned : BOOLEAN])
  /\ con \in {0} \cup {i \in Ids : objs[i].kind = "Session"}
  /\ blpAuth \in {0} \cup {i \in Ids : objs[i].kind = "Identity"}
  /\ held \subseteq Ids
  /\ exiting \in BOOLEAN

\* Whatever a call can be given, by default or by the user, is a live object
\* until the R session ends: neither default ever keeps a finalized pointer.
ReachableIsLive == ~exiting => \A i \in Reachable : objs[i].state = "live" /\ objs[i].owned

\* No object is deleted twice, whether collected or finalized at the end.
DeletedOnce == \A i \in Ids : frees[i] <= 1

\* The default identity, if both defaults are there, was authorized on the
\* default connection: what every function assumes of its con and identity.
Paired == con # 0 /\ blpAuth # 0 => objs[blpAuth].on = con

\* Paired defaults part in two ways only: another connection takes the place of
\* theirs while the identity stays (blpConnect, or an attach that fails to
\* authenticate), or an identity authorized on another connection takes theirs.
\* No step stores a new connection with a new identity of another.
DefaultsPartOneAtATime ==
  [][Paired /\ ~Paired' => \/ con' # con /\ blpAuth' = blpAuth
                           \/ con' = con /\ objs'[blpAuth'].on # con]_vars

\* At the end of R every object is deleted but those whose creation failed.
ExitFreesOwned == exiting ~> \A i \in Ids : ~objs[i].owned

\* What the documentation says of blpConnect: the default connection "is
\* automatically used for all future calls": only blpConnect replaces it.
DefaultConnectionStays == [][con # 0 /\ con' # con => con' > Len(objs)]_vars
=============================================================================
