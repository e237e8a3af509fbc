----------------------------- MODULE MCWpaCtrl -----------------------------
(* A radio with two access points. *)
EXTENDS WpaCtrl

CONSTANTS i1, i2

TwoIfaces == <<i1, i2>>

=============================================================================
