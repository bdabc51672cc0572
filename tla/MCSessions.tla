----------------------------- MODULE MCSessions ------------------------------
(* Sessions, for TLC. *)
EXTENDS Sessions, TLC

CONSTANTS m1, m2

TwoMessages == {m1, m2}
==============================================================================
