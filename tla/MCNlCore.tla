------------------------------ MODULE MCNlCore ------------------------------
(* A radio with an access point on its own interface and a second one. *)
EXTENDS NlCore

CONSTANTS a1, a2

MCOrder == <<a1, a2>>

=============================================================================
