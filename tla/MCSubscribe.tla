---------------------------- MODULE MCSubscribe -----------------------------
(* Instances of Subscribe for TLC. *)
EXTENDS Subscribe
CONSTANTS a, b
Lists == {<<a, b>>, <<b>>}
=============================================================================
