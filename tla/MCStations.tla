----------------------------- MODULE MCStations -----------------------------
(* One access point with three stations, or two between which one roams. *)
EXTENDS Stations

CONSTANTS a1, a2, m1, m2, m3

TwoAps == {a1, a2}
Crowd ==
  [stas |-> a1 :> {m1, m2, m3} @@ a2 :> {}, joins |-> 3, queue |-> 1, losses |-> 0, offs |-> 0]
Roamer ==
  [stas |-> a1 :> {m1, m2} @@ a2 :> {m1}, joins |-> 2, queue |-> 3, losses |-> 1, offs |-> 1]
CrowdOrRoamer == {Crowd, Roamer}

=============================================================================
