----------------------------- MODULE MC_Session -----------------------------
(* Model-checking instance of Session: two user ids, one registered when   *)
(* the page loads.                                                         *)
EXTENDS Session

CONSTANTS a, b, none

MCIds == {a, b}
MCRegistered0 == {a}
=============================================================================
