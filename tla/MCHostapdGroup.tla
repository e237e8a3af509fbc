-------------------------- MODULE MCHostapdGroup --------------------------
(* Instances of HostapdGroup for TLC; the radios are model values. *)
EXTENDS HostapdGroup, TLC

CONSTANTS r1, r2

TwoMembers == <<r1, r2>>

Site(asks, crashes, fails) == [asks |-> asks, crashes |-> crashes, startFails |-> fails]
SteadyOrNot ==
  {Site({"start", "dyn"}, TRUE, FALSE), Site({"enable"}, TRUE, TRUE),
   Site({"enable", "sync"}, FALSE, FALSE)}
Params == {Site({"dyn"}, TRUE, FALSE)}
===========================================================================
