--------------------------- MODULE MCCallbackCalls ---------------------------
(* Instances of CallbackCalls for TLC. *)
EXTENDS CallbackCalls
CONSTANTS s1, b1
OneSecurity == {<<s1>>}
NoLists == {}
NoClasses == {}
ErringClasses == {"Tick", "Authorization", "Beqs", "Reference"}
=============================================================================
