----------------------------- MODULE MCRadFsm -----------------------------
(* Instances of RadFsm for TLC; the radios and interfaces are model values. *)
EXTENDS RadFsm, TLC

CONSTANTS r1, r2, v1, v2, e1

\* One radio with an access point and an end point: the actions of the three
\* interleave.  The radio requests bit 0, the interfaces bit 1.
OneRadOf == (v1 :> r1) @@ (e1 :> r1)
OneParams == {<<r1, 0>>, <<v1, 1>>, <<e1, 1>>}

\* Two radios with an access point each compete for the lock; one is
\* asked for work itself, the other through its access point.
TwoRadOf == (v1 :> r1) @@ (v2 :> r2)
TwoParams == {<<r1, 0>>, <<v2, 0>>}

\* A radio with one access point: every edit is followed to its end.
EditRadOf == v1 :> r1
EditParams == {<<r1, 0>>, <<v1, 0>>}
===========================================================================
