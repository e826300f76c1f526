--------------------------- MODULE MCClientWatch ----------------------------
(***************************************************************************)
(* Instances of ClientWatch for TLC.                                       *)
(***************************************************************************)
EXTENDS ClientWatch

Ask(k, c) == [name |-> <<k, 0>>, prefix |-> FALSE, cancel |-> c]

Calls   == {Ask("a", FALSE), Ask("a", TRUE), Ask("b", FALSE)}
TwoKeys == {Ask("a", FALSE), Ask("b", FALSE)}
=============================================================================
