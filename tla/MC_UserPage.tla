---------------------------- MODULE MC_UserPage ----------------------------
(* Three users: Me, a friend the backend has, and an id it does not have. *)
EXTENDS UserPage

CONSTANTS me, a, ghost, feed, none

MCIds == {me, a, ghost}
MCKnown == {me, a}
=============================================================================
