---------------------------- MODULE MCHapdApply ----------------------------
(* Two access points on one radio. *)
EXTENDS HapdApply

CONSTANTS a1, a2

MCOrder == <<a1, a2>>

=============================================================================
