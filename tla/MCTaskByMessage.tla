-------------------------- MODULE MCTaskByMessage --------------------------
(* A small instance of TaskByMessage for TLC: one item, one worker. *)
EXTENDS TaskByMessage

CONSTANTS h1, none

OneHint == {h1}
NameFits == [h \in OneHint |-> <<3>>]
=============================================================================
