----------------------------- MODULE MCEndpoint -----------------------------
(* An end point between two access points. *)
EXTENDS Endpoint

CONSTANTS b1, b2

TwoBssids == {b1, b2}

=============================================================================
