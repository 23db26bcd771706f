----------------------------- MODULE CallPromise -----------------------------
(***************************************************************************)
(* What the users of the request functions may rely on, without queues,    *)
(* events or loops.  The session is trusted while nothing is owed on it.   *)
(* A call that begins on a trusted session gives what its function         *)
(* promises, or an error.  On any other session a call may give anything,  *)
(* also the answer to another question.                                    *)
(***************************************************************************)
CONSTANTS
  Fns,             \* the functions called
  ReturnAtFirst,   \* those that may give a first part only
  KeepLast,        \* those that may give the last part only
  Collect          \* those that give nothing where the service reports an error

VARIABLES
  phase,    \* "idle" or "busy"
  fn,       \* the function of the running or last call
  trusted,
  reply     \* what the last call gave; "none" while it runs

promiseVars == <<phase, fn, trusted, reply>>

Replies == {"whole", "first", "last", "empty", "other"}

Promised(f) ==
  {"whole"} \cup {r \in {"first", "last", "empty"} :
                   \/ r = "first" /\ f \in ReturnAtFirst
                   \/ r = "last"  /\ f \in KeepLast
                   \/ r = "empty" /\ f \in Collect}

Init ==
  /\ phase = "idle" /\ fn = "none" /\ reply = "none"
  /\ trusted = TRUE

Begin ==
  /\ phase = "idle" /\ phase' = "busy"
  /\ fn' \in Fns
  /\ reply' = "none"
  /\ UNCHANGED trusted

End ==
  /\ phase = "busy" /\ phase' = "idle"
  /\ UNCHANGED fn

\* What follows a first part stays behind.
Succeed ==
  /\ End
  /\ trusted
  /\ reply' \in Promised(fn)
  /\ trusted' = (reply' # "first")

\* Each answer taken for another leaves another behind.
SucceedByLuck ==
  /\ End
  /\ ~trusted
  /\ reply' \in Replies
  /\ trusted' = FALSE

Fail ==
  /\ End
  /\ reply' = "error"
  /\ trusted' \in {trusted, FALSE}

Next == Begin \/ Succeed \/ SucceedByLuck \/ Fail

Spec == Init /\ [][Next]_promiseVars

\* A reader that only drops what requests left behind (subscribe) mends the session.
Drain ==
  /\ phase = "idle"
  /\ ~trusted /\ trusted' = TRUE
  /\ UNCHANGED <<phase, fn, reply>>

SharedSpec == Init /\ [][Next \/ Drain]_promiseVars
=============================================================================
