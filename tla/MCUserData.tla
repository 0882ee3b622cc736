----------------------------- MODULE MCUserData -----------------------------
(* Constants for the TLC runs of UserData. *)
EXTENDS UserData

SmallGold == 0..2
BothAnswers == BOOLEAN
OnlySuccess == {TRUE}
SomeRecord == {1}
AnyRecord == {1, NoRecord}
JustNoRecord == {NoRecord}
=============================================================================
